------------------------------ MODULE Imports ------------------------------
(***************************************************************************)
(* Statement imports: a CSV is parsed into the rows of a session, each row   *)
(* is compared with the ledger and given a decision (create, link, ignore),  *)
(* members change decisions or upload again, and one of them commits or      *)
(* cancels the session.                                                      *)
(*                                                                          *)
(* Commit and Cancel are single MongoDB transactions and each one a step.    *)
(* An upload or a decision reads the draft, works on it, and writes all of   *)
(* its rows back later, outside any transaction: two steps.                  *)
(*                                                                          *)
(* One account. Rules, numbering and balances of the rows that a commit      *)
(* creates are those of any creation (module Ledger).                        *)
(***************************************************************************)
EXTENDS Integers, FiniteSets, Functions

CONSTANTS
  Sessions,
  Rows,                  \* row indexes of a statement
  Lines,                 \* what a valid row says: its date, amount and text
  Statements,            \* CSVs: Rows -> Lines, Invalid where a row does not parse
  Existing, Fresh,       \* _ids of ledger transactions, and of those created by a commit
  Editors,               \* UpdateImportSession and ResolveImportRows calls in flight
  Mutable,               \* bound: transactions that are edited or deleted
  Invalid, None

VARIABLES
  session,      \* import_sessions
  tx,           \* transactions: _id -> record, or None
  evidence,     \* audit_events of rows: transaction.created, transaction.import_linked
  draft         \* the session each editor works on, with the rows it will write

vars == <<session, tx, evidence, draft>>

Transactions == Existing \cup Fresh
Actions == {"create", "link", "ignore", "undecided"}
Row == [line : Lines \cup {Invalid}, state : {"invalid", "new", "duplicate", "possible_match"},
        action : Actions, match : Transactions \cup {None}]
Outcome == [created : Nat, linked : Nat, ignored : Nat]
SessionRecords == [status : {"draft", "completed", "cancelled"}, rows : [Rows -> Row],
                   result : Outcome \cup {None}]
TransactionRecords == [line : Lines, exact : BOOLEAN, cleared : BOOLEAN]
DraftRecords == [session : Sessions, guarded : BOOLEAN, rows : [Rows -> Row]]

ASSUME ImportAssumption ==
  /\ IsFiniteSet(Rows) /\ Rows \subseteq Nat
  /\ Invalid \notin Lines /\ Statements \subseteq [Rows -> Lines \cup {Invalid}]
  /\ Existing \cap Fresh = {} /\ Mutable \subseteq Transactions
  /\ None \notin Transactions \cup Sessions
  /\ None \notin SessionRecords \cup TransactionRecords \cup DraftRecords

---------------------------------------------------------------------------
(* Parsing and comparison with the ledger *)

\* scoreImportMatch: a transaction repeats a line exactly or resembles it.
Exact(line, t) == tx[t] # None /\ tx[t].line = line /\ tx[t].exact
Likely(line, t) == tx[t] # None /\ tx[t].line = line /\ ~tx[t].exact

Stated(line, state, action, match) ==
  [line |-> line, state |-> state, action |-> action, match |-> match]

\* detectImportConflicts for one row: an exact repetition is a duplicate, a
\* likely one is proposed as a link unless it has been cleared.
Proposals(statement, r) ==
  LET line == statement[r]
      exact == {t \in Transactions : Exact(line, t)}
      likely == {t \in Transactions : Likely(line, t) /\ ~tx[t].cleared}
  IN  IF line = Invalid THEN {Stated(line, "invalid", "undecided", None)}
      ELSE IF \E q \in Rows : q < r /\ statement[q] = line
      THEN {Stated(line, "duplicate", "ignore", None)}
      ELSE IF exact # {} THEN {Stated(line, "duplicate", "ignore", t) : t \in exact}
      ELSE IF likely # {} THEN {Stated(line, "possible_match", "link", t) : t \in likely}
      ELSE {Stated(line, "new", "create", None)}

\* Among equal scores any candidate may come first.
Parsed(statement) ==
  {rows \in [Rows -> UNION {Proposals(statement, r) : r \in Rows}] :
     \A r \in Rows : rows[r] \in Proposals(statement, r)}

\* preserveResolutions: an unchanged line keeps its decision, a link only where
\* the new comparison proposes one.
Preserved(prior, next) ==
  IF \/ prior.line # next.line \/ prior.action = "undecided"
     \/ prior.action = "link" /\ (next.state # "possible_match" \/ next.match = None)
  THEN next ELSE [next EXCEPT !.action = prior.action]

---------------------------------------------------------------------------
(* Operations *)

CreateImportSession(s) ==
  /\ session[s] = None
  /\ \E statement \in Statements : \E rows \in Parsed(statement) :
       session' = [session EXCEPT ![s] = [status |-> "draft", rows |-> rows, result |-> None]]
  /\ UNCHANGED <<tx, evidence, draft>>

IsDraft(s) == session[s] # None /\ session[s].status = "draft"

ReadUpdate(e, s) ==
  /\ draft[e] = None /\ IsDraft(s)
  /\ \E statement \in Statements : \E rows \in Parsed(statement) :
       draft' = [draft EXCEPT ![e] =
         [session |-> s, guarded |-> TRUE,
          rows |-> [r \in Rows |-> Preserved(session[s].rows[r], rows[r])]]]
  /\ UNCHANGED <<session, tx, evidence>>

\* The decision of one row; the others are written back as they were read.
Resolved(row, action, t) ==
  CASE action = "ignore" -> [row EXCEPT !.action = "ignore", !.match = None]
    [] action = "create" -> [row EXCEPT !.action = "create"]
    [] action = "link"   -> [row EXCEPT !.action = "link", !.match = t, !.state = "possible_match"]

\* An invalid row cannot be created, a cleared transaction cannot be linked.
MayResolve(row, action, t) ==
  /\ action = "create" => row.state # "invalid"
  /\ action = "link" => t # None /\ tx[t] # None /\ ~tx[t].cleared
  /\ action # "link" => t = None

ReadResolve(e, s, r, action, t) ==
  /\ draft[e] = None /\ IsDraft(s) /\ MayResolve(session[s].rows[r], action, t)
  /\ draft' = [draft EXCEPT ![e] =
       [session |-> s, guarded |-> FALSE,
        rows |-> [session[s].rows EXCEPT ![r] = Resolved(@, action, t)]]]
  /\ UNCHANGED <<session, tx, evidence>>

\* Only an upload insists that the session is still a draft.
WriteRows(e) ==
  LET d == draft[e]
  IN  /\ d # None
      /\ session' = IF d.guarded /\ ~IsDraft(d.session) THEN session
                    ELSE [session EXCEPT ![d.session].rows = d.rows]
      /\ draft' = [draft EXCEPT ![e] = None]
      /\ UNCHANGED <<tx, evidence>>

RowsTo(s, action) == {r \in Rows : session[s].rows[r].action = action}
Target(s, r) == session[s].rows[r].match

LinkableWithoutLooking(s) == \A r \in RowsTo(s, "link") : Target(s, r) # None /\ tx[Target(s, r)] # None
\* clearLinkedTransaction, row after row: a second link of one transaction
\* finds it cleared by the first.
Linkable(s) ==
  LET links == RowsTo(s, "link")
  IN  /\ \A r \in links : /\ Target(s, r) # None /\ tx[Target(s, r)] # None
                          /\ ~tx[Target(s, r)].cleared
      /\ \A q, r \in links : q # r => Target(s, q) # Target(s, r)

\* A row that did not parse has no amount, which validateMoney refuses even when
\* a decision to link has changed its state.
Creatable(s) ==
  \A r \in RowsTo(s, "create") : session[s].rows[r].state # "invalid" /\ session[s].rows[r].line # Invalid

Retained(s) == session[s] # None /\ session[s].status # "cancelled"
\* The guard of the transaction, read and compared again as it writes.
Committable(s) == IsDraft(s)

Unused == {t \in Fresh : tx[t] = None /\ \A v \in evidence : v.tx # t}

Counts(s) == [created |-> Cardinality(RowsTo(s, "create")), linked |-> Cardinality(RowsTo(s, "link")),
              ignored |-> Cardinality(RowsTo(s, "ignore"))]

CommitImportSession(s) ==
  /\ Committable(s) /\ RowsTo(s, "undecided") = {} /\ Linkable(s) /\ Creatable(s)
  /\ \E id \in Injection(RowsTo(s, "create"), Unused) :
       LET linked == {Target(s, r) : r \in RowsTo(s, "link")}
           created == {id[r] : r \in RowsTo(s, "create")}
           lineOf(t) == session[s].rows[CHOOSE r \in RowsTo(s, "create") : id[r] = t].line
       IN  /\ tx' = [t \in Transactions |->
                       IF t \in created THEN [line |-> lineOf(t), exact |-> TRUE, cleared |-> TRUE]
                       ELSE IF t \in linked THEN [tx[t] EXCEPT !.cleared = TRUE] ELSE tx[t]]
           /\ evidence' = evidence \cup
                {[session |-> s, row |-> r, tx |-> Target(s, r), kind |-> "link"] :
                   r \in RowsTo(s, "link")} \cup
                {[session |-> s, row |-> r, tx |-> id[r], kind |-> "create"] :
                   r \in RowsTo(s, "create")}
           /\ session' = [session EXCEPT ![s].status = "completed", ![s].result = Counts(s)]
  /\ UNCHANGED draft

Cancellable(s) == IsDraft(s)

CancelImportSession(s) ==
  /\ Cancellable(s)
  /\ session' = [session EXCEPT ![s].status = "cancelled"]
  /\ UNCHANGED <<tx, evidence, draft>>

\* Edits change what a transaction resembles, never whether it is cleared.
EditTransaction(t) ==
  /\ tx[t] # None
  /\ \E line \in Lines, exact \in BOOLEAN :
       tx' = [tx EXCEPT ![t].line = line, ![t].exact = exact]
  /\ UNCHANGED <<session, evidence, draft>>

DeleteTransaction(t) ==
  /\ tx[t] # None /\ tx' = [tx EXCEPT ![t] = None]
  /\ UNCHANGED <<session, evidence, draft>>

---------------------------------------------------------------------------
Init ==
  /\ session = [s \in Sessions |-> None] /\ evidence = {}
  /\ \E line \in [Existing -> Lines] :
       tx = [t \in Transactions |->
              IF t \in Existing THEN [line |-> line[t], exact |-> FALSE, cleared |-> FALSE] ELSE None]
  /\ draft = [e \in Editors |-> None]

Next ==
  \/ \E s \in Sessions : CreateImportSession(s) \/ CommitImportSession(s) \/ CancelImportSession(s)
  \/ \E e \in Editors, s \in Sessions :
       \/ ReadUpdate(e, s)
       \/ \E r \in Rows, action \in Actions \ {"undecided"}, t \in Transactions \cup {None} :
            ReadResolve(e, s, r, action, t)
  \/ \E e \in Editors : WriteRows(e)
  \/ \E t \in Mutable : EditTransaction(t) \/ DeleteTransaction(t)

Spec == Init /\ [][Next]_vars

---------------------------------------------------------------------------
(* Properties *)

\* The types of sessions, transactions, evidence and what the editors hold.
TypeOK ==
  /\ session \in [Sessions -> SessionRecords \cup {None}]
  /\ tx \in [Transactions -> TransactionRecords \cup {None}]
  /\ evidence \subseteq [session : Sessions, row : Rows, tx : Transactions,
                         kind : {"create", "link"}]
  /\ draft \in [Editors -> DraftRecords \cup {None}]

\* "Clearing them twice would corrupt provenance": every transaction is explained
\* by at most one row of one statement, although rows propose it concurrently.
ClearedOnce == \A v, w \in evidence : v.tx = w.tx => v = w

\* A row is carried out at most once, and only by a completed session: not by two
\* commits, and not by one that races a cancellation.
CarriedOutOnce ==
  \A v \in evidence : /\ session[v.session].status = "completed"
                      /\ \A w \in evidence : v.session = w.session /\ v.row = w.row => v = w

\* The result of a completed session counts exactly what it did to the ledger.
ResultMatchesEvidence ==
  \A s \in Sessions : session[s] # None /\ session[s].status = "completed" =>
    LET of(kind) == {v \in evidence : v.session = s /\ v.kind = kind}
        result == session[s].result
    IN  /\ result.created = Cardinality(of("create")) /\ result.linked = Cardinality(of("link"))
        /\ result.created + result.linked + result.ignored = Cardinality(Rows)
=============================================================================
