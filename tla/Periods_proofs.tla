--------------------------- MODULE Periods_proofs ---------------------------
(***************************************************************************)
(* Theorems about Periods, for any members, accounts, transactions, rule    *)
(* runs and number of reviews under way: a closed period is not downgraded, *)
(* the same status twice needs a change between, and a snapshot meets the   *)
(* revisions after its cutoff.                                              *)
(***************************************************************************)
EXTENDS Periods, Sums_proofs

-----------------------------------------------------------------------------
(* The inductive invariant *)

\* No later review of the scope.
Last(i, scope) ==
  /\ i \in 1 .. Len(reviews) /\ reviews[i].scope = scope
  /\ \A j \in 1 .. Len(reviews) : reviews[j].scope = scope => j <= i

\* Latest(scope) is there whenever a review of the scope is.
LastExists ==
  \A scope \in Scopes : \A j \in 1 .. Len(reviews) :
    reviews[j].scope = scope => \E i \in 1 .. Len(reviews) : Last(i, scope)

\* A rule run has noted what it wrote, and its revision has a version.
Noted ==
  \A p \in Runs : run[p] # None =>
    /\ run[p].step # "write" => run[p].tx \in ruled
    /\ run[p].step = "audit" => run[p].version > 0

\* What a call found out about the previous review holds for as long as the
\* ledger has not moved, which is until it may commit.
Judged ==
  \A p \in Reviewers : Unmoved(p) =>
    \A i \in 1 .. Len(reviews) : Last(i, reviewing[p].scope) =>
      /\ reviews[i].status = "closed" => reviewing[p].status = "closed"
      /\ reviews[i].status = reviewing[p].status =>
           ChangesSince(reviews[i], reviewing[p].accounts) # {}

\* So does what it has captured of the records that no rule run writes.
Current ==
  \A p \in Reviewers : Unmoved(p) =>
    \A t \in Ids \ ruled : reviewing[p].captured[t] = AsCaptured(reviewing[p], tx[t])

PeriodInv ==
  /\ TypeOK /\ LastExists /\ Noted /\ Judged /\ Current
  /\ ClosedStaysClosed /\ RereviewNeedsChange /\ SnapshotMeetsRevisions

-----------------------------------------------------------------------------
(* What reviews keep when other things change *)

LEMMA VersionsAreNumbers ==
  ASSUME TypeOK
  PROVE  /\ ledgerVersion \in Nat
         /\ \A v \in revisions : v \in Revisions /\ v.version \in Nat /\ v.version <= ledgerVersion
         /\ \A i \in 1 .. Len(reviews) : /\ reviews[i] \in Checkpoints
                                         /\ reviews[i].cutoff \in Nat
                                         /\ reviews[i].cutoff <= ledgerVersion
<1>1. ASSUME NEW v \in revisions
      PROVE  v \in Revisions /\ v.version \in Nat /\ v.version <= ledgerVersion
  BY DEF TypeOK
<1>2. ASSUME NEW i \in 1 .. Len(reviews)
      PROVE  /\ reviews[i] \in Checkpoints
             /\ reviews[i].cutoff \in Nat /\ reviews[i].cutoff <= ledgerVersion
  BY DEF TypeOK
<1> QED
  BY <1>1, <1>2 DEF TypeOK

LEMMA ChangesGrow ==
  ASSUME revisions \subseteq revisions', NEW r, NEW accounts
  PROVE  ChangesSince(r, accounts) \subseteq ChangesSince(r, accounts)'
<1>1. \A x : Relevant(r.scope, accounts, x)' <=> Relevant(r.scope, accounts, x)
  <2> SUFFICES ASSUME NEW x
               PROVE  Relevant(r.scope, accounts, x)' <=> Relevant(r.scope, accounts, x)
    OBVIOUS
  <2>1. Listed(r.scope, accounts, x)' <=> Listed(r.scope, accounts, x)
    BY DEF Listed, Visible
  <2> QED
    BY <2>1 DEF Relevant
<1> SUFFICES ASSUME NEW v \in ChangesSince(r, accounts)
             PROVE  v \in ChangesSince(r, accounts)'
  OBVIOUS
<1>2. /\ v \in revisions' /\ v.version > r.cutoff
      /\ Relevant(r.scope, accounts, v.before) \/ Relevant(r.scope, accounts, v.after)
  BY DEF ChangesSince
<1>3. Relevant(r.scope, accounts, v.before)' \/ Relevant(r.scope, accounts, v.after)'
  BY <1>1, <1>2
<1> QED
  BY <1>2, <1>3 DEF ChangesSince

\* The order of the reviews is not touched by a step that leaves them alone.
LEMMA ReviewsStay ==
  ASSUME PeriodInv, UNCHANGED reviews, revisions \subseteq revisions'
  PROVE  LastExists' /\ ClosedStaysClosed' /\ RereviewNeedsChange'
<1>1. LastExists'
  BY DEF PeriodInv, LastExists, Last
<1>2. ClosedStaysClosed'
  BY DEF PeriodInv, ClosedStaysClosed, Successive
<1>3. RereviewNeedsChange'
  <2> SUFFICES ASSUME NEW i \in 1 .. Len(reviews), NEW j \in 1 .. Len(reviews), Successive(i, j),
                      reviews[i].status = reviews[j].status
               PROVE  \E v \in ChangesSince(reviews[i], reviews[j].accounts)' :
                        v.version < reviews[j].cutoff
    BY DEF RereviewNeedsChange, Successive, ChangesSince
  <2>1. PICK v \in ChangesSince(reviews[i], reviews[j].accounts) : v.version < reviews[j].cutoff
    BY DEF PeriodInv, RereviewNeedsChange
  <2>2. v \in ChangesSince(reviews[i], reviews[j].accounts)'
    BY <2>1, ChangesGrow
  <2> QED
    BY <2>1, <2>2
<1> QED
  BY <1>1, <1>2, <1>3

\* A call that had read before the ledger moved is not unmoved any more.
LEMMA MovedOn ==
  ASSUME TypeOK, UNCHANGED reviewing, ledgerVersion' \in Nat, ledgerVersion' > ledgerVersion,
         NEW p \in Reviewers
  PROVE  ~Unmoved(p)'
BY DEF TypeOK, Unmoved

-----------------------------------------------------------------------------
(* Ledger mutations: some transactions get one new revision each *)

LEMMA MutationKeeps ==
  ASSUME PeriodInv, ledgerVersion' \in Nat, ledgerVersion' > ledgerVersion,
         tx' \in [Ids -> Records],
         revisions \subseteq revisions', revisions' \subseteq Revisions,
         \A v \in revisions' \ revisions :
           /\ v.version > ledgerVersion /\ v.version <= ledgerVersion'
           /\ v.before = tx[v.tx],
         \A t \in Ids : tx'[t] # tx[t] => \E v \in revisions' \ revisions : v.tx = t,
         UNCHANGED <<shared, reviews, reviewing, run, ruled>>
  PROVE  PeriodInv'
<1>1. TypeOK'
  BY DEF PeriodInv, TypeOK, Revisions
<1>2. LastExists' /\ ClosedStaysClosed' /\ RereviewNeedsChange'
  BY ReviewsStay
<1>3. Noted'
  BY DEF PeriodInv, Noted
<1>4. Judged' /\ Current'
  BY MovedOn DEF PeriodInv, Judged, Current
<1>5. SnapshotMeetsRevisions'
  <2> SUFFICES ASSUME NEW i \in 1 .. Len(reviews), NEW t \in Ids \ ruled
               PROVE  LET r == reviews[i]
                          later == RevisionsOf(t, r.cutoff)'
                      IN  /\ later = {} => r.captured[t] = AsCaptured(r, tx'[t])
                          /\ \A v \in later :
                               First(later, v) => r.captured[t] = AsCaptured(r, v.before)
    BY DEF SnapshotMeetsRevisions, AsCaptured, Listed, Visible, First
  <2> DEFINE r == reviews[i]
             before == RevisionsOf(t, r.cutoff)
             later == RevisionsOf(t, r.cutoff)'
  <2>1. /\ before = {} => r.captured[t] = AsCaptured(r, tx[t])
        /\ \A v \in before : First(before, v) => r.captured[t] = AsCaptured(r, v.before)
    BY DEF PeriodInv, SnapshotMeetsRevisions
  <2>2. /\ before \subseteq later /\ before \subseteq revisions /\ later \subseteq revisions'
        /\ \A v \in later : v.tx = t /\ (v \in revisions => v \in before)
    BY DEF RevisionsOf
  <2>3. r.cutoff \in Nat /\ r.cutoff <= ledgerVersion /\ ledgerVersion \in Nat
    BY VersionsAreNumbers DEF PeriodInv
  <2>4. later = {} => r.captured[t] = AsCaptured(r, tx'[t])
    <3>1. ASSUME later = {} PROVE tx'[t] = tx[t]
      <4>1. ASSUME NEW v \in revisions' \ revisions, v.tx = t PROVE FALSE
        <5>1. v.version \in Nat /\ v.version > r.cutoff
          BY <2>3 DEF Revisions
        <5> QED
          BY <3>1, <4>1, <5>1 DEF RevisionsOf
      <4> QED
        BY <4>1
    <3> QED
      BY <2>1, <2>2, <3>1
  <2>5. ASSUME NEW v \in later, First(later, v) PROVE r.captured[t] = AsCaptured(r, v.before)
    <3>1. CASE v \in revisions
      <4>1. v \in before /\ First(before, v)
        BY <2>2, <2>5, <3>1 DEF First
      <4> QED
        BY <2>1, <4>1
    <3>2. CASE v \notin revisions
      <4>1. v.before = tx[t] /\ v.version > ledgerVersion /\ v.version \in Nat
        BY <2>2, <3>2 DEF Revisions
      <4>2. ASSUME NEW w \in before PROVE FALSE
        <5>1. w.version <= ledgerVersion /\ w.version \in Nat /\ v.version <= w.version
          BY <2>2, <2>5, VersionsAreNumbers DEF PeriodInv, First
        <5> QED
          BY <2>3, <4>1, <5>1
      <4> QED
        BY <2>1, <4>1, <4>2
    <3> QED
      BY <3>1, <3>2
  <2> QED
    BY <2>4, <2>5
<1> QED
  BY <1>1, <1>2, <1>3, <1>4, <1>5 DEF PeriodInv

LEMMA ReviseKeeps ==
  ASSUME PeriodInv, NEW t \in Ids, NEW after \in Records, Revise(t, after) PROVE PeriodInv'
<1> DEFINE new == Revision(ledgerVersion + 1, t, tx[t], after)
<1>1. ledgerVersion \in Nat /\ ledgerVersion' = ledgerVersion + 1 /\ tx[t] \in Records
  BY DEF PeriodInv, TypeOK, Revise
<1>2. /\ new \in Revisions /\ new.version = ledgerVersion + 1 /\ new.tx = t
      /\ new.before = tx[t]
  BY <1>1 DEF Revision, Revisions
<1>3. revisions' = revisions \cup {new} /\ tx' = [tx EXCEPT ![t] = after]
  BY DEF Revise
<1> HIDE DEF new
<1>4. /\ tx' \in [Ids -> Records]
      /\ \A u \in Ids : tx'[u] # tx[u] => u = t
      /\ revisions' \subseteq Revisions
  BY <1>2, <1>3 DEF PeriodInv, TypeOK
<1>5. \A v \in revisions' \ revisions : v = new
  BY <1>3
<1>6. \A v \in revisions : v.version <= ledgerVersion /\ v.version \in Nat
  BY VersionsAreNumbers DEF PeriodInv
<1>7. new \in revisions' \ revisions
  BY <1>1, <1>2, <1>3, <1>6
<1> QED
  BY <1>1, <1>2, <1>3, <1>4, <1>5, <1>7, MutationKeeps DEF Revise

\* Nothing but the category of a record changes.
Alike(x, y) ==
  /\ x = None <=> y = None
  /\ x # None => /\ y.type = x.type /\ y.amount = x.amount /\ y.inPeriod = x.inPeriod
                 /\ y.account = x.account /\ y.dest = x.dest
                 /\ y.privacy = x.privacy /\ y.creator = x.creator

\* A migration changes some categories, with one revision for each record.
LEMMA Migrated ==
  ASSUME PeriodInv, NEW mode, NEW old \in Categories, NEW new \in Categories,
         MigrateCategory(mode, old, new)
  PROVE  /\ ledgerVersion' \in Nat /\ ledgerVersion' > ledgerVersion
         /\ tx' \in [Ids -> Records] /\ \A t \in Ids : Alike(tx[t], tx'[t])
         /\ revisions \subseteq revisions' /\ revisions' \subseteq Revisions
         /\ IsFiniteSet(revisions' \ revisions)
         /\ \A v \in revisions' \ revisions :
              /\ v.version > ledgerVersion /\ v.version <= ledgerVersion'
              /\ v.before = tx[v.tx] /\ Alike(v.before, v.after)
         /\ \A t \in Ids : tx'[t] # tx[t] => \E v \in revisions' \ revisions : v.tx = t
         /\ UNCHANGED <<shared, reviews, reviewing, run, ruled>>
<1> DEFINE affected == {t \in Ids : tx[t] # None /\ tx[t].type = mode /\ tx[t].category = old}
           n == Cardinality(affected)
           below(t) == {u \in affected : u < t}
           renamed(t) == [tx[t] EXCEPT !.category = new]
           revision(t) == Revision(ledgerVersion + 1 + Cardinality(below(t)), t, tx[t], renamed(t))
<1>1. /\ tx' = [t \in Ids |-> IF t \in affected THEN renamed(t) ELSE tx[t]]
      /\ ledgerVersion' = ledgerVersion + n /\ n > 0
      /\ revisions' = revisions \cup {revision(t) : t \in affected}
      /\ UNCHANGED <<shared, reviews, reviewing, run, ruled>>
  BY DEF MigrateCategory
<1>2. affected \subseteq Ids /\ IsFiniteSet(affected) /\ n \in Nat
  BY PeriodAssumption, FS_Subset, FS_CardinalityType
<1>3. ledgerVersion \in Nat
  BY DEF PeriodInv, TypeOK
<1>4. ASSUME NEW t \in affected
      PROVE  Cardinality(below(t)) \in Nat /\ Cardinality(below(t)) < n
  <2>1. below(t) \subseteq affected /\ t \notin below(t)
    BY <1>2, PeriodAssumption
  <2>2. IsFiniteSet(below(t)) /\ Cardinality(below(t)) <= n /\ Cardinality(below(t)) # n
    BY <1>2, <1>4, <2>1, FS_Subset
  <2>3. Cardinality(below(t)) \in Nat
    BY <2>2, FS_CardinalityType
  <2> QED
    BY <1>2, <2>2, <2>3
<1>5. ASSUME NEW t \in affected
      PROVE  /\ tx[t] \in Transactions /\ renamed(t) \in Transactions /\ tx[t] \in Records
             /\ Alike(tx[t], renamed(t))
  <2>1. tx[t] \in Transactions /\ renamed(t) \in Transactions /\ tx[t] \in Records
    BY DEF PeriodInv, TypeOK, Records, Transactions
  <2> QED
    BY <2>1, PeriodAssumption DEF Alike, Transactions
<1>6. ASSUME NEW t \in affected
      PROVE  /\ revision(t) \in Revisions /\ revision(t).tx = t /\ revision(t).before = tx[t]
             /\ revision(t).after = renamed(t)
             /\ revision(t).version > ledgerVersion
             /\ revision(t).version <= ledgerVersion + n
  <2> DEFINE rank == Cardinality(below(t))
             after == renamed(t)
  <2>1. rank \in Nat /\ rank < n /\ t \in Ids /\ tx[t] \in Records /\ after \in Records
    BY <1>2, <1>4, <1>5 DEF Records
  <2> HIDE DEF rank, after, n
  <2>2. revision(t) = Revision(ledgerVersion + 1 + rank, t, tx[t], after)
    BY DEF rank, after
  <2> HIDE DEF revision
  <2> QED
    BY <1>2, <1>3, <2>1, <2>2 DEF Revision, Revisions, after
<1>7. tx' \in [Ids -> Records] /\ \A t \in Ids : Alike(tx[t], tx'[t])
  <2>1. tx' \in [Ids -> Records]
    BY <1>1, <1>5 DEF PeriodInv, TypeOK, Records
  <2>2. ASSUME NEW t \in Ids PROVE Alike(tx[t], tx'[t])
    <3>1. CASE t \in affected
      <4>1. tx'[t] = renamed(t)
        BY <1>1, <3>1
      <4> HIDE DEF affected, renamed
      <4> QED
        BY <1>5, <3>1, <4>1
    <3>2. CASE t \notin affected
      BY <1>1, <3>2 DEF Alike
    <3> QED
      BY <3>1, <3>2
  <2> QED
    BY <2>1, <2>2
<1>8. \A t \in Ids : tx'[t] # tx[t] => t \in affected
  BY <1>1
<1> HIDE DEF affected, n, revision, renamed, below
<1>9. \A v \in revisions : v.version \in Nat /\ v.version <= ledgerVersion
  BY VersionsAreNumbers DEF PeriodInv
<1>10. ASSUME NEW t \in affected PROVE revision(t) \in revisions' \ revisions
  BY <1>1, <1>3, <1>6, <1>9
<1>11. ASSUME NEW v \in revisions' \ revisions
       PROVE  /\ v \in Revisions /\ v.version > ledgerVersion /\ v.version <= ledgerVersion'
              /\ v.before = tx[v.tx] /\ Alike(v.before, v.after)
  <2>1. PICK t \in affected : v = revision(t)
    BY <1>1
  <2> QED
    BY <1>1, <1>5, <1>6, <2>1
<1>12. ledgerVersion' \in Nat /\ ledgerVersion' > ledgerVersion
  BY <1>1, <1>2, <1>3
<1>13. revisions \subseteq revisions' /\ revisions' \subseteq Revisions
  BY <1>1, <1>11 DEF PeriodInv, TypeOK
<1>14. \A t \in Ids : tx'[t] # tx[t] => \E v \in revisions' \ revisions : v.tx = t
  BY <1>6, <1>8, <1>10
<1>15. IsFiniteSet(revisions' \ revisions)
  <2> DEFINE g == [t \in affected |-> revision(t)]
  <2>1. DOMAIN g = affected /\ g = [t \in affected |-> g[t]]
    OBVIOUS
  <2>2. revisions' \ revisions \subseteq {g[t] : t \in affected}
    BY <1>1
  <2> HIDE DEF g
  <2>3. IsFiniteSet({g[t] : t \in affected})
    BY <1>2, <2>1, ImageFinite
  <2> QED
    BY <2>2, <2>3, FS_Subset
<1> QED
  BY <1>1, <1>7, <1>11, <1>12, <1>13, <1>14, <1>15

LEMMA MigrateKeeps ==
  ASSUME PeriodInv, NEW mode, NEW old \in Categories, NEW new \in Categories,
         MigrateCategory(mode, old, new)
  PROVE  PeriodInv'
BY Migrated, MutationKeeps

LEMMA PrivacyKeeps == ASSUME PeriodInv, NEW a \in Accounts, SetAccountPrivacy(a) PROVE PeriodInv'
<1>1. /\ shared' \subseteq Accounts
      /\ UNCHANGED <<tx, ledgerVersion, revisions, reviews, reviewing, run, ruled>>
  BY DEF SetAccountPrivacy, PeriodInv, TypeOK
<1>2. LastExists' /\ ClosedStaysClosed' /\ RereviewNeedsChange'
  BY <1>1, ReviewsStay
<1>3. TypeOK' /\ Noted'
  BY <1>1 DEF PeriodInv, TypeOK, Noted
<1>4. Judged' /\ Current' /\ SnapshotMeetsRevisions'
  BY <1>1 DEF PeriodInv, Judged, Current, SnapshotMeetsRevisions, Unmoved, Last, ChangesSince,
              Relevant, Listed, Visible, AsCaptured, First, RevisionsOf
<1> QED
  BY <1>2, <1>3, <1>4 DEF PeriodInv

-----------------------------------------------------------------------------
(* Rule runs: they touch only what they have noted *)

LEMMA RunKeeps ==
  ASSUME PeriodInv, TypeOK', Noted', revisions \subseteq revisions', ruled \subseteq ruled',
         ledgerVersion' >= ledgerVersion,
         \A t \in Ids \ ruled' : tx'[t] = tx[t],
         \A v \in revisions' \ revisions : v.tx \in ruled',
         UNCHANGED <<shared, reviews, reviewing>>
  PROVE  PeriodInv'
<1>1. LastExists' /\ ClosedStaysClosed' /\ RereviewNeedsChange'
  BY ReviewsStay
<1>2. \A p \in Reviewers : Unmoved(p)' => Unmoved(p)
  BY DEF PeriodInv, TypeOK, Unmoved
<1>3. Judged'
  BY <1>2, ChangesGrow DEF PeriodInv, Judged, Last
<1>4. Current'
  BY <1>2 DEF PeriodInv, Current, AsCaptured, Listed, Visible
<1>5. SnapshotMeetsRevisions'
  <2>1. \A t \in Ids \ ruled' : \A cutoff : RevisionsOf(t, cutoff)' = RevisionsOf(t, cutoff)
    BY DEF RevisionsOf
  <2> QED
    BY <2>1 DEF PeriodInv, SnapshotMeetsRevisions, AsCaptured, Listed, Visible, First
<1> QED
  BY <1>1, <1>3, <1>4, <1>5 DEF PeriodInv

LEMMA RunStateTyped ==
  ASSUME PeriodInv, NEW p \in Runs, run[p] # None
  PROVE  /\ run[p] \in RunStates /\ run[p].tx \in Ids
         /\ run[p].before \in Transactions /\ run[p].after \in Transactions
         /\ run[p].version \in Nat /\ run[p].version <= ledgerVersion
<1>1. run[p] \in RunStates /\ run[p].version \in 0 .. ledgerVersion
  BY DEF PeriodInv, TypeOK
<1> QED
  BY <1>1 DEF RunStates, PeriodInv, TypeOK

\* A step of a rule run writes, and revises, only what is noted.
RunWrites ==
  /\ ledgerVersion' \in Nat /\ ledgerVersion' >= ledgerVersion
  /\ ruled \subseteq ruled' /\ ruled' \subseteq Ids
  /\ tx' \in [Ids -> Records] /\ \A t \in Ids \ ruled' : tx'[t] = tx[t]
  /\ revisions \subseteq revisions' /\ revisions' \subseteq Revisions
  /\ \A v \in revisions' \ revisions : v.tx \in ruled' /\ v.version \in 1 .. ledgerVersion'
  /\ UNCHANGED <<shared, reviews, reviewing>>

\* A rule run that moves from one step to the next, or ends.
LEMMA RunMoves ==
  ASSUME PeriodInv, RunWrites, NEW p \in Runs, NEW next \in RunStates \cup {None},
         run' = [run EXCEPT ![p] = next],
         next # None => /\ next.version <= ledgerVersion'
                        /\ next.step # "write" => next.tx \in ruled'
                        /\ next.step = "audit" => next.version > 0
  PROVE  PeriodInv'
<1>1. run' \in [Runs -> RunStates \cup {None}]
  BY DEF PeriodInv, TypeOK
<1>2. ASSUME NEW q \in Runs, run'[q] # None PROVE run'[q].version \in 0 .. ledgerVersion'
  <2>1. CASE q = p
    BY <1>2, <2>1 DEF PeriodInv, TypeOK, RunStates, RunWrites
  <2>2. CASE q # p
    BY <1>2, <2>2 DEF PeriodInv, TypeOK, RunWrites
  <2> QED
    BY <2>1, <2>2
<1>3. TypeOK'
  BY <1>1, <1>2 DEF PeriodInv, TypeOK, RunWrites
<1>4. Noted'
  BY DEF PeriodInv, TypeOK, Noted, RunWrites
<1> QED
  BY <1>3, <1>4, RunKeeps DEF RunWrites

LEMMA ReadRunKeeps ==
  ASSUME PeriodInv, NEW p \in Runs, NEW m \in Members, NEW t \in Ids, ReadRun(p, m, t)
  PROVE  PeriodInv'
<1>1. PICK c \in Categories, v \in Privacies :
        run' = [run EXCEPT ![p] =
                  [step |-> "write", tx |-> t, before |-> tx[t],
                   after |-> [tx[t] EXCEPT !.category = c, !.privacy = v], version |-> 0]]
  BY DEF ReadRun
<1> DEFINE after == [tx[t] EXCEPT !.category = c, !.privacy = v]
           next == [step |-> "write", tx |-> t, before |-> tx[t], after |-> after, version |-> 0]
<1>2. tx[t] \in Transactions
  BY DEF ReadRun, Visible, PeriodInv, TypeOK, Records
<1>3. after \in Transactions
  BY <1>2 DEF Transactions
<1> HIDE DEF after
<1>4. next \in RunStates /\ next.step = "write" /\ next.version = 0
  BY <1>2, <1>3 DEF RunStates
<1>5. run' = [run EXCEPT ![p] = next]
  BY <1>1 DEF after
<1> HIDE DEF next
<1>6. ledgerVersion \in Nat /\ tx \in [Ids -> Records] /\ ruled \subseteq Ids
      /\ revisions \subseteq Revisions
  BY DEF PeriodInv, TypeOK
<1>7. RunWrites /\ next.version <= ledgerVersion'
  BY <1>4, <1>6 DEF ReadRun, RunWrites
<1>8. next.step # "audit"
  BY <1>4
<1> QED
  BY <1>4, <1>5, <1>7, <1>8, RunMoves

LEMMA WriteRunKeeps == ASSUME PeriodInv, NEW p \in Runs, WriteRun(p) PROVE PeriodInv'
<1> DEFINE c == run[p]
           updated == [tx[c.tx] EXCEPT !.category = c.after.category, !.privacy = c.after.privacy]
           next == [c EXCEPT !.step = "advance", !.after = updated]
<1>1. /\ c \in RunStates /\ c.tx \in Ids /\ tx[c.tx] # None /\ c.after \in Transactions
      /\ c.version <= ledgerVersion
  BY RunStateTyped DEF WriteRun
<1>2. tx[c.tx] \in Transactions
  BY <1>1 DEF PeriodInv, TypeOK, Records
<1>3. updated \in Transactions
  BY <1>1, <1>2 DEF Transactions
<1>4. /\ tx' = [tx EXCEPT ![c.tx] = updated] /\ run' = [run EXCEPT ![p] = next]
      /\ ruled' = ruled \cup {c.tx}
      /\ UNCHANGED <<shared, ledgerVersion, revisions, reviews, reviewing>>
  BY DEF WriteRun
<1> HIDE DEF updated
<1>5. next \in RunStates /\ next.tx = c.tx /\ next.version = c.version /\ next.step = "advance"
  BY <1>1, <1>3 DEF RunStates
<1>6. tx' \in [Ids -> Records] /\ \A t \in Ids \ ruled' : tx'[t] = tx[t]
  BY <1>1, <1>3, <1>4 DEF PeriodInv, TypeOK, Records
<1> HIDE DEF next, c
<1>7. ledgerVersion \in Nat /\ ruled' \subseteq Ids /\ revisions \subseteq Revisions
  BY <1>1, <1>4 DEF PeriodInv, TypeOK
<1>8. RunWrites
  BY <1>4, <1>6, <1>7 DEF RunWrites
<1>9. next.version <= ledgerVersion' /\ next.tx \in ruled' /\ next.step = "advance"
  BY <1>1, <1>4, <1>5
<1> QED
  BY <1>4, <1>5, <1>8, <1>9, RunMoves

LEMMA AdvanceRunKeeps == ASSUME PeriodInv, NEW p \in Runs, AdvanceRun(p) PROVE PeriodInv'
<1> DEFINE c == run[p]
           number == ledgerVersion + 1
           next == [c EXCEPT !.step = "audit", !.version = number]
<1>1. c \in RunStates /\ c.tx \in Ids /\ ledgerVersion \in Nat
  BY RunStateTyped DEF AdvanceRun, PeriodInv, TypeOK
<1>2. c.tx \in ruled
  BY DEF AdvanceRun, PeriodInv, Noted
<1>3. /\ run' = [run EXCEPT ![p] = next] /\ ledgerVersion' = number
      /\ UNCHANGED <<tx, shared, revisions, reviews, reviewing, ruled>>
  BY DEF AdvanceRun
<1>4. number \in Nat /\ number > 0 /\ number >= ledgerVersion
  BY <1>1
<1> HIDE DEF number
<1>5. next \in RunStates /\ next.tx = c.tx /\ next.version = number
  BY <1>1, <1>4 DEF RunStates
<1> HIDE DEF next, c
<1>6. tx \in [Ids -> Records] /\ ruled \subseteq Ids /\ revisions \subseteq Revisions
  BY DEF PeriodInv, TypeOK
<1>7. RunWrites
  BY <1>1, <1>3, <1>4, <1>6 DEF RunWrites
<1>8. next.version <= ledgerVersion' /\ next.version > 0 /\ next.tx \in ruled'
  BY <1>2, <1>3, <1>4, <1>5
<1> QED
  BY <1>3, <1>5, <1>7, <1>8, RunMoves

LEMMA AuditRunKeeps == ASSUME PeriodInv, NEW p \in Runs, AuditRun(p) PROVE PeriodInv'
<1> DEFINE c == run[p]
           new == Revision(c.version, c.tx, c.before, c.after)
<1>1. /\ c \in RunStates /\ c.tx \in Ids /\ c.before \in Transactions
      /\ c.after \in Transactions /\ c.version \in Nat /\ c.version <= ledgerVersion
  BY RunStateTyped DEF AuditRun
<1>2. c.tx \in ruled
  BY DEF AuditRun, PeriodInv, Noted
<1>3. /\ revisions' = revisions \cup {new} /\ run' = [run EXCEPT ![p] = None]
      /\ UNCHANGED <<tx, shared, ledgerVersion, reviews, reviewing, ruled>>
  BY DEF AuditRun
<1>4. new \in Revisions /\ new.tx = c.tx /\ new.version = c.version
  BY <1>1 DEF Revision, Revisions, Records
<1>5. c.version > 0
  BY DEF AuditRun, PeriodInv, Noted
<1> HIDE DEF new, c
<1>6. /\ tx \in [Ids -> Records] /\ ruled \subseteq Ids /\ ledgerVersion \in Nat
      /\ revisions' \subseteq Revisions
  BY <1>3, <1>4 DEF PeriodInv, TypeOK
<1>7. \A v \in revisions' \ revisions : v = new
  BY <1>3
<1>8. RunWrites
  BY <1>1, <1>2, <1>3, <1>4, <1>5, <1>6, <1>7 DEF RunWrites
<1> QED
  BY <1>3, <1>8, RunMoves

LEMMA AbandonRunKeeps == ASSUME PeriodInv, NEW p \in Runs, AbandonRun(p) PROVE PeriodInv'
<1>1. /\ ledgerVersion \in Nat /\ tx \in [Ids -> Records] /\ ruled \subseteq Ids
      /\ revisions \subseteq Revisions
  BY DEF PeriodInv, TypeOK
<1>2. /\ run' = [run EXCEPT ![p] = None]
      /\ UNCHANGED <<tx, shared, ledgerVersion, revisions, reviews, reviewing, ruled>>
  BY DEF AbandonRun
<1>3. RunWrites
  BY <1>1, <1>2 DEF RunWrites
<1> QED
  BY <1>2, <1>3, RunMoves

-----------------------------------------------------------------------------
(* Period reviews *)

\* The latest review is the last one.
LEMMA LatestIsLast ==
  ASSUME NEW scope, NEW i \in 1 .. Len(reviews), Last(i, scope), Len(reviews) \in Nat
  PROVE  PriorReviews(scope) # {} /\ Latest(scope) = reviews[i]
<1>1. i \in PriorReviews(scope) /\ \A j \in PriorReviews(scope) : j <= i
  BY DEF PriorReviews, Last
<1>2. ASSUME NEW k \in PriorReviews(scope), \A j \in PriorReviews(scope) : j <= k PROVE k = i
  <2>1. k <= i /\ i <= k /\ k \in Int /\ i \in Int
    BY <1>1, <1>2 DEF PriorReviews
  <2> QED
    BY <2>1
<1>3. (CHOOSE k \in PriorReviews(scope) : \A j \in PriorReviews(scope) : j <= k) = i
  BY <1>1, <1>2
<1> QED
  BY <1>1, <1>3 DEF Latest

LEMMA CapturedTyped ==
  ASSUME PeriodInv, NEW scope
  PROVE  /\ ScopeAccounts(scope) \subseteq Accounts
         /\ InPeriod(scope, ScopeAccounts(scope)) \in [Ids -> Records]
BY DEF PeriodInv, TypeOK, ScopeAccounts, InPeriod, Records

\* A call that reads, or is run again, leaves everything but itself alone.
LEMMA ReviewingMoves ==
  ASSUME PeriodInv, NEW p \in Reviewers, NEW next \in Readings \cup {None},
         reviewing' = [reviewing EXCEPT ![p] = next],
         UNCHANGED <<tx, shared, ledgerVersion, revisions, reviews, run, ruled>>,
         next # None =>
           /\ next.seen \in 0 .. ledgerVersion
           /\ \A i \in 1 .. Len(reviews) : Last(i, next.scope) =>
                /\ reviews[i].status = "closed" => next.status = "closed"
                /\ reviews[i].status = next.status => ChangesSince(reviews[i], next.accounts) # {}
           /\ \A t \in Ids \ ruled : next.captured[t] = AsCaptured(next, tx[t])
  PROVE  PeriodInv'
<1>1. LastExists' /\ ClosedStaysClosed' /\ RereviewNeedsChange'
  BY ReviewsStay
<1>2. reviewing' \in [Reviewers -> Readings \cup {None}]
  BY DEF PeriodInv, TypeOK
<1>3. \A q \in Reviewers : reviewing'[q] = IF q = p THEN next ELSE reviewing[q]
  BY DEF PeriodInv, TypeOK
<1>4. TypeOK'
  BY <1>2, <1>3 DEF PeriodInv, TypeOK
<1>5. Noted'
  BY DEF PeriodInv, Noted
<1>6. SnapshotMeetsRevisions'
  BY DEF PeriodInv, SnapshotMeetsRevisions, AsCaptured, Listed, Visible, First, RevisionsOf
<1>7. ASSUME NEW q \in Reviewers, Unmoved(q)', NEW i \in 1 .. Len(reviews)',
             Last(i, reviewing[q].scope)'
      PROVE  /\ reviews'[i].status = "closed" => reviewing'[q].status = "closed"
             /\ reviews'[i].status = reviewing'[q].status =>
                  ChangesSince(reviews[i], reviewing[q].accounts)' # {}
  <2>1. \A r, accounts : ChangesSince(r, accounts) \subseteq ChangesSince(r, accounts)'
    BY ChangesGrow
  <2>2. CASE q = p
    <3>1. reviewing'[q] = next /\ next # None /\ Last(i, next.scope)
      BY <1>3, <1>7, <2>2 DEF Unmoved, Last
    <3> QED
      BY <1>7, <2>1, <3>1
  <2>3. CASE q # p
    <3>1. reviewing'[q] = reviewing[q] /\ Unmoved(q) /\ Last(i, reviewing[q].scope)
      BY <1>3, <1>7, <2>3 DEF Unmoved, Last
    <3> QED
      BY <1>7, <2>1, <3>1 DEF PeriodInv, Judged
  <2> QED
    BY <2>2, <2>3
<1>8. ASSUME NEW q \in Reviewers, Unmoved(q)', NEW t \in Ids \ ruled
      PROVE  reviewing'[q].captured[t] = AsCaptured(reviewing[q], tx[t])'
  <2>1. CASE q = p
    <3>1. reviewing'[q] = next /\ next # None
      BY <1>3, <1>8, <2>1 DEF Unmoved
    <3> QED
      BY <3>1 DEF AsCaptured, Listed, Visible
  <2>2. CASE q # p
    <3>1. reviewing'[q] = reviewing[q] /\ Unmoved(q)
      BY <1>3, <1>8, <2>2 DEF Unmoved
    <3> QED
      BY <3>1 DEF PeriodInv, Current, AsCaptured, Listed, Visible
  <2> QED
    BY <2>1, <2>2
<1>9. Judged'
  BY <1>7 DEF Judged
<1>10. Current'
  BY <1>8 DEF Current
<1> QED
  BY <1>1, <1>4, <1>5, <1>6, <1>9, <1>10 DEF PeriodInv

LEMMA ReadReviewKeeps ==
  ASSUME PeriodInv, NEW p \in Reviewers, NEW m \in Members, NEW scope \in Scopes,
         NEW status \in Statuses, ReadReview(p, m, scope, status)
  PROVE  PeriodInv'
<1> DEFINE accounts == ScopeAccounts(scope)
           captured == InPeriod(scope, accounts)
           next == [scope |-> scope, status |-> status, accounts |-> accounts,
                    captured |-> captured, seen |-> ledgerVersion]
<1>1. /\ reviewing' = [reviewing EXCEPT ![p] = next] /\ MayReview(scope, status)
      /\ UNCHANGED <<tx, shared, ledgerVersion, revisions, reviews, run, ruled>>
  BY DEF ReadReview
<1>2. ledgerVersion \in Nat /\ Len(reviews) \in Nat
  BY DEF PeriodInv, TypeOK
<1>3. accounts \subseteq Accounts /\ captured \in [Ids -> Records]
  BY CapturedTyped
<1>4. ASSUME NEW t \in Ids PROVE captured[t] = AsCaptured(next, tx[t])
  BY DEF InPeriod, AsCaptured
<1>5. ASSUME NEW i \in 1 .. Len(reviews), Last(i, scope)
      PROVE  /\ reviews[i].status = "closed" => status = "closed"
             /\ reviews[i].status = status => ChangesSince(reviews[i], accounts) # {}
  <2>1. PriorReviews(scope) # {} /\ Latest(scope) = reviews[i]
    BY <1>2, <1>5, LatestIsLast
  <2> QED
    BY <1>1, <2>1 DEF MayReview, Statuses
<1> HIDE DEF accounts, captured
<1>6. /\ next \in Readings /\ next.seen \in 0 .. ledgerVersion /\ next.scope = scope
      /\ next.status = status /\ next.accounts = accounts /\ next.captured = captured
  BY <1>2, <1>3 DEF Readings
<1> HIDE DEF next
<1> QED
  BY <1>1, <1>4, <1>5, <1>6, ReviewingMoves

LEMMA RetryReviewKeeps == ASSUME PeriodInv, NEW p \in Reviewers, RetryReview(p) PROVE PeriodInv'
<1>1. /\ reviewing' = [reviewing EXCEPT ![p] = None]
      /\ UNCHANGED <<tx, shared, ledgerVersion, revisions, reviews, run, ruled>>
  BY DEF RetryReview
<1> QED
  BY <1>1, ReviewingMoves

\* What the commit of p stores is new and last, and what was stored stays.
LEMMA Appended ==
  ASSUME PeriodInv, NEW p \in Reviewers, CommitReview(p)
  PROVE  LET n == Len(reviews) + 1
         IN  /\ reviews' \in Seq(Checkpoints) /\ Len(reviews') = n /\ n \in Nat
             /\ \A i \in 1 .. Len(reviews) : reviews'[i] = reviews[i]
             /\ reviews'[n].scope = reviewing[p].scope
             /\ reviews'[n].status = reviewing[p].status
             /\ reviews'[n].accounts = reviewing[p].accounts
             /\ reviews'[n].captured = reviewing[p].captured
             /\ reviews'[n].cutoff = ledgerVersion + 1
             /\ reviewing[p] \in Readings /\ ledgerVersion \in Nat
<1> DEFINE c == reviewing[p]
           number == ledgerVersion + 1
           new == [scope |-> c.scope, status |-> c.status, accounts |-> c.accounts,
                   captured |-> c.captured, cutoff |-> number]
<1>1. c \in Readings /\ ledgerVersion \in Nat /\ number \in Nat /\ reviews \in Seq(Checkpoints)
  BY DEF CommitReview, Unmoved, PeriodInv, TypeOK
<1>2. reviews' = Append(reviews, new)
  BY DEF CommitReview
<1> HIDE DEF number
<1>3. /\ new \in Checkpoints /\ new.scope = c.scope /\ new.status = c.status
      /\ new.accounts = c.accounts /\ new.captured = c.captured /\ new.cutoff = number
  BY <1>1 DEF Readings, Checkpoints
<1> HIDE DEF new
<1>4. /\ reviews' \in Seq(Checkpoints) /\ Len(reviews') = Len(reviews) + 1
      /\ Len(reviews) + 1 \in Nat
      /\ \A i \in 1 .. Len(reviews) : reviews'[i] = reviews[i]
      /\ reviews'[Len(reviews) + 1] = new
  BY <1>1, <1>2, <1>3
<1> QED
  BY <1>1, <1>3, <1>4 DEF number

LEMMA CommitReviewKeeps ==
  ASSUME PeriodInv, NEW p \in Reviewers, CommitReview(p) PROVE PeriodInv'
<1> DEFINE c == reviewing[p]
<1>1. PICK n \in Nat : n = Len(reviews) + 1
  BY DEF PeriodInv, TypeOK
<1>2. /\ reviews' \in Seq(Checkpoints) /\ Len(reviews') = n
      /\ \A i \in 1 .. Len(reviews) : reviews'[i] = reviews[i]
      /\ reviews'[n].scope = c.scope /\ reviews'[n].status = c.status
      /\ reviews'[n].accounts = c.accounts /\ reviews'[n].captured = c.captured
      /\ reviews'[n].cutoff = ledgerVersion + 1
      /\ c \in Readings /\ ledgerVersion \in Nat
  BY <1>1, Appended
<1>3. /\ ledgerVersion' = ledgerVersion + 1 /\ reviewing' = [reviewing EXCEPT ![p] = None]
      /\ Unmoved(p) /\ UNCHANGED <<tx, shared, revisions, run, ruled>>
  BY DEF CommitReview
<1>4. Len(reviews) \in Nat /\ 1 .. Len(reviews') = 1 .. Len(reviews) \cup {n}
      /\ \A i \in 1 .. Len(reviews) : i < n
  BY <1>1, <1>2 DEF PeriodInv, TypeOK
<1> HIDE DEF c
<1>5. \A r, accounts : ChangesSince(r, accounts)' = ChangesSince(r, accounts)
  BY <1>3 DEF ChangesSince, Relevant, Listed, Visible
<1>6. TypeOK'
  <2>1. ASSUME NEW i \in 1 .. Len(reviews') PROVE reviews'[i].cutoff \in 1 .. ledgerVersion'
    <3>1. ledgerVersion \in Nat /\ ledgerVersion' = ledgerVersion + 1
      BY <1>2, <1>3
    <3>2. CASE i = n
      BY <1>2, <3>1, <3>2
    <3>3. CASE i # n
      <4>1. i \in 1 .. Len(reviews) /\ reviews'[i] = reviews[i]
        BY <1>2, <1>4, <3>3
      <4>2. reviews[i].cutoff \in 1 .. ledgerVersion
        BY <4>1 DEF PeriodInv, TypeOK
      <4> QED
        BY <3>1, <4>1, <4>2
    <3> QED
      BY <3>2, <3>3
  <2>2. /\ reviewing' \in [Reviewers -> Readings \cup {None}]
        /\ \A q \in Reviewers : reviewing'[q] # None => reviewing'[q].seen \in 0 .. ledgerVersion'
    BY <1>2, <1>3 DEF PeriodInv, TypeOK
  <2>3. \A q \in Runs : run[q] # None => run[q].version \in 0 .. ledgerVersion'
    BY <1>2, <1>3 DEF PeriodInv, TypeOK
  <2>4. \A v \in revisions : v.version \in 1 .. ledgerVersion'
    BY <1>2, <1>3 DEF PeriodInv, TypeOK
  <2> QED
    BY <1>2, <1>3, <2>1, <2>2, <2>3, <2>4 DEF PeriodInv, TypeOK
<1>7. \A q \in Reviewers : ~Unmoved(q)'
  BY <1>2, <1>3 DEF PeriodInv, TypeOK, Unmoved
<1>8. Judged' /\ Current' /\ Noted'
  BY <1>3, <1>7 DEF Judged, Current, PeriodInv, Noted
<1>9. LastExists'
  <2> SUFFICES ASSUME NEW scope \in Scopes, NEW j \in 1 .. Len(reviews'),
                      reviews'[j].scope = scope
               PROVE  \E i \in 1 .. Len(reviews') : Last(i, scope)'
    BY DEF LastExists
  <2>1. CASE scope = c.scope
    <3>1. Last(n, scope)'
      BY <1>2, <1>4, <2>1 DEF Last
    <3> QED
      BY <1>4, <3>1
  <2>2. CASE scope # c.scope
    <3>1. j \in 1 .. Len(reviews) /\ reviews[j].scope = scope
      BY <1>2, <1>4, <2>2
    <3>2. PICK i \in 1 .. Len(reviews) : Last(i, scope)
      BY <3>1 DEF PeriodInv, LastExists
    <3>3. Last(i, scope)'
      BY <1>2, <1>4, <2>2, <3>2 DEF Last
    <3> QED
      BY <1>4, <3>2, <3>3
  <2> QED
    BY <2>1, <2>2
<1>10. ASSUME NEW i \in 1 .. Len(reviews), NEW j \in 1 .. Len(reviews), Successive(i, j)'
      PROVE  Successive(i, j) /\ reviews'[i] = reviews[i] /\ reviews'[j] = reviews[j]
  <2>1. \A k \in i + 1 .. j - 1 : k \in 1 .. Len(reviews)
    BY <1>4
  <2> QED
    BY <1>2, <1>10, <2>1 DEF Successive
<1>11. ASSUME NEW i \in 1 .. Len(reviews), Successive(i, n)'
       PROVE  /\ reviews'[i] = reviews[i]
              /\ reviews[i].status = "closed" => c.status = "closed"
              /\ reviews[i].status = c.status => ChangesSince(reviews[i], c.accounts) # {}
  <2>1. \A k \in i + 1 .. n - 1 : reviews[k].scope # c.scope
    BY <1>1, <1>2, <1>4, <1>11 DEF Successive
  <2>2. \A k \in 1 .. Len(reviews) : reviews[k].scope = c.scope => k <= i
    BY <1>1, <1>4, <1>11, <2>1 DEF Successive
  <2>3. Last(i, c.scope)
    BY <1>2, <1>11, <2>2 DEF Successive, Last
  <2> QED
    BY <1>2, <1>3, <2>3 DEF PeriodInv, Judged, c
<1>12. \A j \in 1 .. Len(reviews') : ~Successive(n, j)'
  BY <1>1, <1>4, <1>2 DEF Successive
<1>13. ClosedStaysClosed'
  <2> SUFFICES ASSUME NEW i \in 1 .. Len(reviews'), NEW j \in 1 .. Len(reviews'),
                      Successive(i, j)', reviews'[i].status = "closed"
               PROVE  reviews'[j].status = "closed"
    BY DEF ClosedStaysClosed
  <2>1. i \in 1 .. Len(reviews)
    BY <1>4, <1>12
  <2>2. CASE j \in 1 .. Len(reviews)
    BY <1>2, <1>10, <2>1, <2>2 DEF PeriodInv, ClosedStaysClosed
  <2>3. CASE j = n
    BY <1>2, <1>11, <2>1, <2>3
  <2> QED
    BY <1>4, <2>2, <2>3
<1>14. RereviewNeedsChange'
  <2> SUFFICES ASSUME NEW i \in 1 .. Len(reviews'), NEW j \in 1 .. Len(reviews'),
                      Successive(i, j)', reviews'[i].status = reviews'[j].status
               PROVE  \E v \in ChangesSince(reviews'[i], reviews'[j].accounts) :
                        v.version < reviews'[j].cutoff
    BY <1>5 DEF RereviewNeedsChange
  <2>1. i \in 1 .. Len(reviews)
    BY <1>4, <1>12
  <2>2. CASE j \in 1 .. Len(reviews)
    BY <1>10, <2>1, <2>2 DEF PeriodInv, RereviewNeedsChange
  <2>3. CASE j = n
    <3>1. PICK v \in ChangesSince(reviews[i], c.accounts) : TRUE
      BY <1>2, <1>11, <2>1, <2>3
    <3>2. v \in revisions
      BY <3>1 DEF ChangesSince
    <3>3. v.version \in Nat /\ v.version <= ledgerVersion
      BY <3>2, VersionsAreNumbers DEF PeriodInv
    <3> QED
      BY <1>2, <1>11, <2>1, <2>3, <3>1, <3>3
  <2> QED
    BY <1>4, <2>2, <2>3
<1>15. SnapshotMeetsRevisions'
  <2> SUFFICES ASSUME NEW i \in 1 .. Len(reviews'), NEW t \in Ids \ ruled
               PROVE  LET r == reviews'[i]
                          later == RevisionsOf(t, r.cutoff)
                      IN  /\ later = {} => r.captured[t] = AsCaptured(r, tx[t])
                          /\ \A v \in later :
                               First(later, v) => r.captured[t] = AsCaptured(r, v.before)
    BY <1>3 DEF SnapshotMeetsRevisions, AsCaptured, Listed, Visible, First, RevisionsOf
  <2>1. CASE i \in 1 .. Len(reviews)
    BY SMTT(30), <1>2, <2>1 DEF PeriodInv, SnapshotMeetsRevisions
  <2>2. CASE i = n
    <3>1. ASSUME NEW v \in RevisionsOf(t, ledgerVersion + 1) PROVE FALSE
      <4>1. v \in revisions /\ v.version > ledgerVersion + 1
        BY <3>1 DEF RevisionsOf
      <4> QED
        BY <1>2, <4>1, VersionsAreNumbers DEF PeriodInv
    <3>2. c.captured[t] = AsCaptured(c, tx[t])
      BY <1>3 DEF PeriodInv, Current, c
    <3>3. AsCaptured(reviews'[n], tx[t]) = AsCaptured(c, tx[t])
      BY <1>2 DEF AsCaptured
    <3> QED
      BY <1>2, <2>2, <3>1, <3>2, <3>3
  <2> QED
    BY <1>4, <2>1, <2>2
<1> QED
  BY <1>6, <1>8, <1>9, <1>13, <1>14, <1>15 DEF PeriodInv

-----------------------------------------------------------------------------
(* The theorems *)

LEMMA InvInit == Init => PeriodInv
<1> SUFFICES ASSUME Init PROVE PeriodInv
  OBVIOUS
<1>1. TypeOK
  <2>1. <<>> \in Seq(Checkpoints) /\ Len(reviews) = 0
    BY DEF Init
  <2> QED
    BY <2>1 DEF Init, TypeOK, Records
<1>2. 1 .. Len(reviews) = {}
  BY DEF Init
<1> QED
  BY <1>1, <1>2 DEF Init, PeriodInv, LastExists, Noted, Judged, Current, Unmoved,
                    ClosedStaysClosed, RereviewNeedsChange, SnapshotMeetsRevisions

\* What a member stores is a record.
LEMMA StoredTyped ==
  ASSUME PeriodInv, NEW m \in Members, NEW t \in Ids,
         \/ \E b \in Bodies : AddTransaction(m, t, b)
         \/ \E b \in Bodies : EditTransaction(m, t, b)
         \/ DeleteTransaction(m, t)
  PROVE  \E after \in Records : Revise(t, after)
<1>1. ASSUME NEW b \in Bodies, AddTransaction(m, t, b) PROVE \E after \in Records : Revise(t, after)
  <2> DEFINE after == [type |-> b.type, account |-> b.account, dest |-> b.dest,
                       amount |-> b.amount, inPeriod |-> b.inPeriod, privacy |-> b.privacy,
                       category |-> b.category, creator |-> m]
  <2>1. after \in Transactions
    BY BodyAssumption DEF Transactions, Destinations
  <2>2. Revise(t, after)
    BY <1>1 DEF AddTransaction
  <2> HIDE DEF after
  <2> QED
    BY <2>1, <2>2 DEF Records
<1>2. ASSUME NEW b \in Bodies, EditTransaction(m, t, b) PROVE \E after \in Records : Revise(t, after)
  <2> DEFINE dest == IF b.type = "transfer" THEN b.dest ELSE None
             accounts == {b.account, dest} \ {None}
             privacy == IF accounts \subseteq shared THEN b.privacy ELSE "private"
             after == [type |-> b.type, account |-> b.account, dest |-> dest,
                       amount |-> b.amount, inPeriod |-> b.inPeriod, category |-> b.category,
                       privacy |-> privacy, creator |-> tx[t].creator]
  <2>1. tx[t] \in Transactions /\ tx[t].creator \in Members
    BY <1>2 DEF EditTransaction, Visible, PeriodInv, TypeOK, Records, Transactions
  <2>2. privacy \in Privacies
    BY BodyAssumption DEF Privacies
  <2>3. Revise(t, after)
    BY <1>2 DEF EditTransaction
  <2>5. dest \in Destinations
    BY BodyAssumption DEF Destinations
  <2> HIDE DEF privacy, dest
  <2>4. after \in Transactions
    BY <2>1, <2>2, <2>5, BodyAssumption DEF Transactions
  <2> HIDE DEF after
  <2> QED
    BY <2>3, <2>4 DEF Records
<1>3. CASE DeleteTransaction(m, t)
  BY <1>3 DEF DeleteTransaction, Records
<1> QED
  BY <1>1, <1>2, <1>3

LEMMA InvNext == PeriodInv /\ [Next]_vars => PeriodInv'
<1> SUFFICES ASSUME PeriodInv, [Next]_vars PROVE PeriodInv'
  OBVIOUS
<1>1. ASSUME NEW m \in Members, NEW t \in Ids,
             \/ \E b \in Bodies : AddTransaction(m, t, b)
             \/ \E b \in Bodies : EditTransaction(m, t, b)
             \/ DeleteTransaction(m, t)
             \/ \E p \in Runs : ReadRun(p, m, t)
      PROVE  PeriodInv'
  BY <1>1, StoredTyped, ReviseKeeps, ReadRunKeeps
<1>2. ASSUME NEW p \in Reviewers, NEW m \in Members, NEW scope \in Scopes,
             NEW status \in Statuses, ReadReview(p, m, scope, status)
      PROVE  PeriodInv'
  BY <1>2, ReadReviewKeeps
<1>3. ASSUME NEW a \in Accounts, SetAccountPrivacy(a) PROVE PeriodInv'
  BY <1>3, PrivacyKeeps
<1>4. ASSUME NEW mode \in Types, NEW old \in Categories, NEW new \in Categories,
             MigrateCategory(mode, old, new)
      PROVE  PeriodInv'
  BY <1>4, MigrateKeeps
<1>5. ASSUME NEW p \in Reviewers, CommitReview(p) \/ RetryReview(p) PROVE PeriodInv'
  BY <1>5, CommitReviewKeeps, RetryReviewKeeps
<1>6. ASSUME NEW p \in Runs, WriteRun(p) \/ AdvanceRun(p) \/ AuditRun(p) \/ AbandonRun(p)
      PROVE  PeriodInv'
  BY <1>6, WriteRunKeeps, AdvanceRunKeeps, AuditRunKeeps, AbandonRunKeeps
<1>7. CASE UNCHANGED vars
  <2>1. UNCHANGED <<tx, shared, ledgerVersion, revisions, reviews, reviewing, run, ruled>>
    BY <1>7 DEF vars
  <2>2. TypeOK' /\ Noted' /\ revisions \subseteq revisions' /\ ruled \subseteq ruled'
        /\ ledgerVersion' >= ledgerVersion
    BY <2>1 DEF PeriodInv, TypeOK, Noted
  <2> QED
    BY <2>1, <2>2, RunKeeps
<1> QED
  BY <1>1, <1>2, <1>3, <1>4, <1>5, <1>6, <1>7 DEF Next

LEMMA Reachable == Spec => []PeriodInv
BY InvInit, InvNext, PTL DEF Spec

\* Transactions, revisions, reviews and the calls under way keep their types, and
\* nothing carries a version the workspace has not reached (period_reviews.go).
THEOREM PeriodsTyped == Spec => []TypeOK
<1>1. PeriodInv => TypeOK
  BY DEF PeriodInv
<1> QED
  BY <1>1, Reachable, PTL

\* A closed period is never downgraded, however many reviews of a scope are under
\* way: a review that has read an older state cannot commit (CreatePeriodReview).
THEOREM ClosedIsFinal == Spec => []ClosedStaysClosed
<1>1. PeriodInv => ClosedStaysClosed
  BY DEF PeriodInv
<1> QED
  BY <1>1, Reachable, PTL

\* The same status twice needs a relevant revision between the two cutoffs.
THEOREM CheckpointsDiffer == Spec => []RereviewNeedsChange
<1>1. PeriodInv => RereviewNeedsChange
  BY DEF PeriodInv
<1> QED
  BY <1>1, Reachable, PTL

\* A snapshot and the revisions after its cutoff fit without gap or overlap, for
\* every record that no rule run has written.
THEOREM SnapshotsFit == Spec => []SnapshotMeetsRevisions
<1>1. PeriodInv => SnapshotMeetsRevisions
  BY DEF PeriodInv
<1> QED
  BY <1>1, Reachable, PTL

-----------------------------------------------------------------------------
(* The money adds up *)

\* What a review explains of a record: the amounts its revisions carry.
Value(r, x, type) == IF Relevant(r.scope, r.accounts, x) THEN Amount(x, type) ELSE 0

\* The revisions of some transactions after a cutoff.
Later(r, T) == {v \in revisions : v.version > r.cutoff /\ v.tx \in T}

\* The four sums over a set of transactions: what the review captured, what is
\* stored now, and what the revisions since have added and taken.
Snapshot(r, T, type) == Total([t \in T |-> Value(r, r.captured[t], type)])
Now(r, T, type) == Total([t \in T |-> Value(r, tx[t], type)])
GainOf(r, L, type) == Total([v \in L |-> Value(r, v.after, type)])
LossOf(r, L, type) == Total([v \in L |-> Value(r, v.before, type)])
Gains(r, T, type) == GainOf(r, Later(r, T), type)
Losses(r, T, type) == LossOf(r, Later(r, T), type)

\* Snapshot plus revisions are what is stored now, over any set of transactions: a
\* rule run takes transactions out of the sums at any time, so MoneyReconciles alone
\* is not inductive.
Balanced(r, T, type) ==
  Snapshot(r, T, type) + Gains(r, T, type) = Now(r, T, type) + Losses(r, T, type)

Kept == {reviews[i] : i \in 1 .. Len(reviews)}

MoneyInv ==
  /\ IsFiniteSet(revisions)
  /\ \A r \in Kept : \A T \in SUBSET (Ids \ ruled), type \in Types : Balanced(r, T, type)

LEMMA ValueTyped ==
  ASSUME NEW r, NEW x \in Records, NEW type
  PROVE  Amount(x, type) \in Nat /\ Value(r, x, type) \in Nat
BY DEF Amount, Value, Records, Transactions

\* What the sums are taken over.
LEMMA TermsTyped ==
  ASSUME PeriodInv, IsFiniteSet(revisions), NEW r \in Checkpoints,
         NEW T \in SUBSET Ids, NEW type
  PROVE  /\ IsFiniteSet(T) /\ IsFiniteSet(Later(r, T)) /\ Later(r, T) \subseteq revisions
         /\ \A t \in T : /\ r.captured[t] \in Records /\ tx[t] \in Records
                         /\ Value(r, r.captured[t], type) \in Nat /\ Value(r, tx[t], type) \in Nat
         /\ \A v \in Later(r, T) :
              /\ v.before \in Records /\ v.after \in Records
              /\ Value(r, v.before, type) \in Nat /\ Value(r, v.after, type) \in Nat
<1>1. IsFiniteSet(T) /\ IsFiniteSet(Later(r, T)) /\ Later(r, T) \subseteq revisions
  BY PeriodAssumption, FS_Subset DEF Later
<1>2. \A t \in T : r.captured[t] \in Records /\ tx[t] \in Records
  BY DEF PeriodInv, TypeOK, Checkpoints
<1>3. \A v \in Later(r, T) : v.before \in Records /\ v.after \in Records
  BY DEF Later, PeriodInv, TypeOK, Revisions
<1> QED
  BY <1>1, <1>2, <1>3, ValueTyped

\* What some revisions add and take.
LEMMA OfTyped ==
  ASSUME NEW r, NEW type, NEW L, IsFiniteSet(L),
         \A v \in L : v.before \in Records /\ v.after \in Records
  PROVE  GainOf(r, L, type) \in Nat /\ LossOf(r, L, type) \in Nat
<1> DEFINE gain == [v \in L |-> Value(r, v.after, type)]
           loss == [v \in L |-> Value(r, v.before, type)]
<1>1. gain \in [L -> Nat] /\ loss \in [L -> Nat]
  BY ValueTyped
<1> HIDE DEF gain, loss
<1>2. Total(gain) \in Nat /\ Total(loss) \in Nat
  BY <1>1, TotalType
<1> QED
  BY <1>2 DEF gain, loss, GainOf, LossOf

LEMMA OfUnion ==
  ASSUME NEW r, NEW type, NEW L, IsFiniteSet(L), NEW N, IsFiniteSet(N), L \cap N = {},
         \A v \in L \cup N : v.before \in Records /\ v.after \in Records
  PROVE  /\ GainOf(r, L \cup N, type) = GainOf(r, L, type) + GainOf(r, N, type)
         /\ LossOf(r, L \cup N, type) = LossOf(r, L, type) + LossOf(r, N, type)
<1>1. GainOf(r, L \cup N, type) = GainOf(r, L, type) + GainOf(r, N, type)
  <2> DEFINE f == [v \in L \cup N |-> Value(r, v.after, type)]
             g == [v \in L |-> Value(r, v.after, type)]
             h == [v \in N |-> Value(r, v.after, type)]
  <2>1. f \in [L \cup N -> Nat] /\ g \in [L -> Nat] /\ h \in [N -> Nat]
    BY ValueTyped
  <2>2. (\A v \in L : g[v] = f[v]) /\ (\A v \in N : h[v] = f[v])
    OBVIOUS
  <2>3. DOMAIN g = L /\ DOMAIN h = N
    OBVIOUS
  <2> HIDE DEF f, g, h
  <2>4. Joins(f, g, h)
    BY <2>1, <2>2, <2>3 DEF Joins
  <2> QED
    BY <2>4, TotalUnion DEF f, g, h, GainOf
<1>2. LossOf(r, L \cup N, type) = LossOf(r, L, type) + LossOf(r, N, type)
  <2> DEFINE f == [v \in L \cup N |-> Value(r, v.before, type)]
             g == [v \in L |-> Value(r, v.before, type)]
             h == [v \in N |-> Value(r, v.before, type)]
  <2>1. f \in [L \cup N -> Nat] /\ g \in [L -> Nat] /\ h \in [N -> Nat]
    BY ValueTyped
  <2>2. (\A v \in L : g[v] = f[v]) /\ (\A v \in N : h[v] = f[v])
    OBVIOUS
  <2>3. DOMAIN g = L /\ DOMAIN h = N
    OBVIOUS
  <2> HIDE DEF f, g, h
  <2>4. Joins(f, g, h)
    BY <2>1, <2>2, <2>3 DEF Joins
  <2> QED
    BY <2>4, TotalUnion DEF f, g, h, LossOf
<1> QED
  BY <1>1, <1>2

LEMMA OfOne ==
  ASSUME NEW r, NEW type, NEW v, v.before \in Records, v.after \in Records
  PROVE  /\ GainOf(r, {v}, type) = Value(r, v.after, type)
         /\ LossOf(r, {v}, type) = Value(r, v.before, type)
<1> DEFINE gain == [w \in {v} |-> Value(r, w.after, type)]
           loss == [w \in {v} |-> Value(r, w.before, type)]
<1>1. /\ gain \in [{v} -> Nat] /\ gain[v] = Value(r, v.after, type)
      /\ loss \in [{v} -> Nat] /\ loss[v] = Value(r, v.before, type)
  BY ValueTyped
<1> HIDE DEF gain, loss
<1>2. Total(gain) = gain[v] /\ Total(loss) = loss[v]
  BY <1>1, TotalOne
<1> QED
  BY <1>1, <1>2 DEF gain, loss, GainOf, LossOf

\* The four sums are numbers.
LEMMA SumsTyped ==
  ASSUME PeriodInv, IsFiniteSet(revisions), NEW r \in Checkpoints,
         NEW T \in SUBSET Ids, NEW type
  PROVE  /\ Snapshot(r, T, type) \in Nat /\ Now(r, T, type) \in Nat
         /\ Gains(r, T, type) \in Nat /\ Losses(r, T, type) \in Nat
<1> DEFINE L == Later(r, T)
           captured == [t \in T |-> Value(r, r.captured[t], type)]
           now == [t \in T |-> Value(r, tx[t], type)]
<1>1. /\ IsFiniteSet(T) /\ IsFiniteSet(L)
      /\ \A v \in L : v.before \in Records /\ v.after \in Records
  BY TermsTyped
<1>2. captured \in [T -> Nat] /\ now \in [T -> Nat]
  BY TermsTyped
<1>3. GainOf(r, L, type) \in Nat /\ LossOf(r, L, type) \in Nat
  <2> HIDE DEF L
  <2> QED
    BY <1>1, OfTyped
<1> HIDE DEF captured, now
<1>4. Total(captured) \in Nat /\ Total(now) \in Nat
  BY <1>1, <1>2, TotalType
<1> QED
  BY <1>3, <1>4 DEF captured, now, Snapshot, Now, Gains, Losses

\* Nothing happens to these transactions.
LEMMA BalancedStays ==
  ASSUME NEW r, NEW T, NEW type, Balanced(r, T, type), \A t \in T : tx'[t] = tx[t],
         Later(r, T)' = Later(r, T)
  PROVE  Balanced(r, T, type)'
<1>1. [t \in T |-> Value(r, tx'[t], type)] = [t \in T |-> Value(r, tx[t], type)]
  OBVIOUS
<1>2. Now(r, T, type)' = Now(r, T, type)
  BY <1>1 DEF Now, Value, Relevant, Listed, Visible, Amount
<1>3. Gains(r, T, type)' = Gains(r, T, type) /\ Losses(r, T, type)' = Losses(r, T, type)
  BY DEF Gains, Losses, GainOf, LossOf, Value, Relevant, Listed, Visible, Amount
<1>4. Snapshot(r, T, type)' = Snapshot(r, T, type)
  BY DEF Snapshot, Value, Relevant, Listed, Visible, Amount
<1> QED
  BY <1>2, <1>3, <1>4 DEF Balanced

\* What new revisions add and take joins the sums.
LEMMA SumsGrow ==
  ASSUME PeriodInv, PeriodInv', IsFiniteSet(revisions), IsFiniteSet(revisions'),
         revisions \subseteq revisions', NEW r \in Checkpoints, NEW T \in SUBSET Ids, NEW type,
         NEW N, N = Later(r, T)' \ Later(r, T)
  PROVE  /\ Gains(r, T, type)' = Gains(r, T, type) + GainOf(r, N, type)
         /\ Losses(r, T, type)' = Losses(r, T, type) + LossOf(r, N, type)
         /\ GainOf(r, N, type) \in Nat /\ LossOf(r, N, type) \in Nat
         /\ N \subseteq revisions' \ revisions /\ \A v \in N : v.tx \in T
         /\ Snapshot(r, T, type)' = Snapshot(r, T, type)
<1> DEFINE L == Later(r, T)
<1>1. Later(r, T)' = L \cup N /\ L \cap N = {} /\ N \subseteq revisions' \ revisions
      /\ \A v \in N : v.tx \in T
  BY DEF Later
<1>2. IsFiniteSet(L) /\ IsFiniteSet(N)
  BY <1>1, TermsTyped, FS_Difference, FS_Subset
<1>3. \A v \in L \cup N : v.before \in Records /\ v.after \in Records
  BY <1>1 DEF Later, PeriodInv, TypeOK, Revisions
<1>4. /\ GainOf(r, L \cup N, type) = GainOf(r, L, type) + GainOf(r, N, type)
      /\ LossOf(r, L \cup N, type) = LossOf(r, L, type) + LossOf(r, N, type)
      /\ GainOf(r, N, type) \in Nat /\ LossOf(r, N, type) \in Nat
  <2> HIDE DEF L
  <2>1. L \cap N = {}
    BY <1>1
  <2>2. /\ GainOf(r, L \cup N, type) = GainOf(r, L, type) + GainOf(r, N, type)
        /\ LossOf(r, L \cup N, type) = LossOf(r, L, type) + LossOf(r, N, type)
    BY SMTT(30), <1>2, <1>3, <2>1, OfUnion
  <2>3. GainOf(r, N, type) \in Nat /\ LossOf(r, N, type) \in Nat
    BY <1>2, <1>3, OfTyped
  <2> QED
    BY <2>2, <2>3
<1>5. /\ Gains(r, T, type)' = GainOf(r, L \cup N, type)
      /\ Losses(r, T, type)' = LossOf(r, L \cup N, type)
  BY <1>1 DEF Gains, Losses, GainOf, LossOf, Value, Relevant, Listed, Visible, Amount
<1>6. Snapshot(r, T, type)' = Snapshot(r, T, type)
  BY DEF Snapshot, Amount
<1> QED
  BY <1>1, <1>4, <1>5, <1>6 DEF Gains, Losses

\* Revisions that change nothing a review counts.
LEMMA BalancedAlike ==
  ASSUME PeriodInv, PeriodInv', IsFiniteSet(revisions), IsFiniteSet(revisions'),
         NEW r \in Checkpoints, NEW T \in SUBSET Ids, NEW type,
         Balanced(r, T, type), revisions \subseteq revisions',
         \A t \in T : Alike(tx[t], tx'[t]),
         \A v \in revisions' \ revisions : Alike(v.before, v.after)
  PROVE  Balanced(r, T, type)'
<1>1. PICK N : N = Later(r, T)' \ Later(r, T)
  OBVIOUS
<1>2. ASSUME NEW x, NEW y, Alike(x, y) PROVE Value(r, y, type) = Value(r, x, type)
  BY <1>2 DEF Alike, Value, Relevant, Listed, Visible, Amount
<1>3. /\ Gains(r, T, type)' = Gains(r, T, type) + GainOf(r, N, type)
      /\ Losses(r, T, type)' = Losses(r, T, type) + LossOf(r, N, type)
      /\ GainOf(r, N, type) \in Nat /\ LossOf(r, N, type) \in Nat
      /\ N \subseteq revisions' \ revisions
      /\ Snapshot(r, T, type)' = Snapshot(r, T, type)
  BY <1>1, SumsGrow
<1>4. GainOf(r, N, type) = LossOf(r, N, type)
  <2>1. [v \in N |-> Value(r, v.after, type)] = [v \in N |-> Value(r, v.before, type)]
    BY <1>2, <1>3
  <2> QED
    BY <2>1 DEF GainOf, LossOf
<1>5. Now(r, T, type)' = Now(r, T, type)
  <2>1. [t \in T |-> Value(r, tx'[t], type)] = [t \in T |-> Value(r, tx[t], type)]
    BY <1>2
  <2> QED
    BY <2>1 DEF Now, Value, Relevant, Listed, Visible, Amount
<1>6. /\ Snapshot(r, T, type) \in Nat /\ Now(r, T, type) \in Nat
      /\ Gains(r, T, type) \in Nat /\ Losses(r, T, type) \in Nat
  BY SumsTyped
<1> QED
  BY <1>3, <1>4, <1>5, <1>6 DEF Balanced

\* One transaction of the set gets one revision.
LEMMA BalancedRevised ==
  ASSUME PeriodInv, PeriodInv', IsFiniteSet(revisions), IsFiniteSet(revisions'),
         NEW r \in Checkpoints, r.cutoff \in Nat, r.cutoff <= ledgerVersion,
         NEW T \in SUBSET Ids, NEW type, Balanced(r, T, type),
         NEW t \in T, NEW after \in Records, Revise(t, after)
  PROVE  Balanced(r, T, type)'
<1>1. PICK N : N = Later(r, T)' \ Later(r, T)
  OBVIOUS
<1>2. PICK new : new = Revision(ledgerVersion + 1, t, tx[t], after)
  OBVIOUS
<1>3. /\ tx' = [tx EXCEPT ![t] = after] /\ revisions' = revisions \cup {new}
      /\ new.version = ledgerVersion + 1 /\ new.tx = t
      /\ new.before = tx[t] /\ new.after = after
  BY <1>2 DEF Revise, Revision
<1>4. /\ ledgerVersion \in Nat /\ tx \in [Ids -> Records]
      /\ \A v \in revisions : v.version \in Nat /\ v.version <= ledgerVersion
  BY VersionsAreNumbers DEF PeriodInv, TypeOK
<1>5. N = {new}
  BY <1>1, <1>3, <1>4 DEF Later
<1>6. /\ Gains(r, T, type)' = Gains(r, T, type) + GainOf(r, N, type)
      /\ Losses(r, T, type)' = Losses(r, T, type) + LossOf(r, N, type)
      /\ Snapshot(r, T, type)' = Snapshot(r, T, type)
  BY <1>1, <1>3, SumsGrow
<1>7. /\ GainOf(r, N, type) = Value(r, after, type)
      /\ LossOf(r, N, type) = Value(r, tx[t], type)
  <2>1. new.before \in Records /\ new.after \in Records
    BY <1>3, <1>4
  <2>2. /\ GainOf(r, {new}, type) = Value(r, new.after, type)
        /\ LossOf(r, {new}, type) = Value(r, new.before, type)
    BY <2>1, OfOne
  <2> QED
    BY <1>3, <1>5, <2>2
<1>8. /\ Now(r, T, type)' + Value(r, tx[t], type) = Now(r, T, type) + Value(r, after, type)
      /\ Now(r, T, type)' \in Nat
  <2> DEFINE now == [u \in T |-> Value(r, tx[u], type)]
             next == [u \in T |-> Value(r, tx'[u], type)]
  <2>1. IsFiniteSet(T) /\ tx' \in [Ids -> Records]
    BY TermsTyped DEF PeriodInv, TypeOK
  <2>2. now \in [T -> Nat] /\ next \in [T -> Nat]
    BY <1>4, <2>1, ValueTyped
  <2>3. /\ \A u \in T \ {t} : next[u] = now[u]
        /\ now[t] = Value(r, tx[t], type) /\ next[t] = Value(r, after, type)
    BY <1>3, <1>4
  <2> HIDE DEF now, next
  <2>4. Total(next) + now[t] = Total(now) + next[t] /\ Total(next) \in Nat
    BY <2>1, <2>2, <2>3, TotalChange, TotalType
  <2>5. Now(r, T, type)' = Total(next)
    BY DEF next, Now, Value, Relevant, Listed, Visible, Amount
  <2>6. Now(r, T, type) = Total(now)
    BY DEF now, Now
  <2> QED
    BY <2>3, <2>4, <2>5, <2>6
<1>9. /\ Snapshot(r, T, type) \in Nat /\ Now(r, T, type) \in Nat
      /\ Gains(r, T, type) \in Nat /\ Losses(r, T, type) \in Nat
  BY SumsTyped
<1>10. Value(r, after, type) \in Nat /\ Value(r, tx[t], type) \in Nat
  BY <1>4, ValueTyped
<1> QED
  BY <1>6, <1>7, <1>8, <1>9, <1>10 DEF Balanced

LEMMA KeptTyped ==
  ASSUME PeriodInv, NEW r \in Kept
  PROVE  r \in Checkpoints /\ r.cutoff \in Nat /\ r.cutoff <= ledgerVersion
BY VersionsAreNumbers DEF PeriodInv, Kept

\* Nothing happens to the transactions that no rule run has written.
LEMMA MoneyStays ==
  ASSUME PeriodInv, MoneyInv, UNCHANGED reviews, IsFiniteSet(revisions'),
         revisions \subseteq revisions', ruled \subseteq ruled',
         \A t \in Ids \ ruled' : tx'[t] = tx[t],
         \A v \in revisions' \ revisions : v.tx \in ruled'
  PROVE  MoneyInv'
<1>2. ASSUME NEW r \in Kept, NEW T \in SUBSET (Ids \ ruled'), NEW type \in Types
      PROVE  Balanced(r, T, type)'
  <2>1. Later(r, T)' = Later(r, T)
    BY DEF Later
  <2>2. Balanced(r, T, type) /\ \A t \in T : tx'[t] = tx[t]
    BY DEF MoneyInv
  <2> QED
    BY <2>1, <2>2, BalancedStays
<1>3. Kept' = Kept
  BY DEF Kept
<1> QED
  BY <1>2, <1>3 DEF MoneyInv

LEMMA MoneyRevised ==
  ASSUME PeriodInv, PeriodInv', MoneyInv, NEW t \in Ids, NEW after \in Records,
         Revise(t, after)
  PROVE  MoneyInv'
<1>1. PICK new : new = Revision(ledgerVersion + 1, t, tx[t], after)
  OBVIOUS
<1>2. /\ tx' = [tx EXCEPT ![t] = after] /\ revisions' = revisions \cup {new}
      /\ new.tx = t /\ new.before = tx[t] /\ new.after = after
      /\ UNCHANGED <<reviews, ruled>>
  BY <1>1 DEF Revise, Revision
<1>3. tx \in [Ids -> Records] /\ IsFiniteSet(revisions) /\ IsFiniteSet(revisions')
  BY <1>2, FS_AddElement DEF PeriodInv, TypeOK, MoneyInv
<1>5. ASSUME NEW r \in Kept, NEW T \in SUBSET (Ids \ ruled), NEW type \in Types
      PROVE  Balanced(r, T, type)'
  <2>1. Balanced(r, T, type) /\ T \in SUBSET Ids
    BY DEF MoneyInv
  <2>2. r \in Checkpoints /\ r.cutoff \in Nat /\ r.cutoff <= ledgerVersion
    BY KeptTyped
  <2>3. CASE t \in T
    BY <1>3, <2>1, <2>2, <2>3, BalancedRevised
  <2>4. CASE t \notin T
    <3>1. Later(r, T)' = Later(r, T)
      BY <1>2, <2>4 DEF Later
    <3>2. \A u \in T : tx'[u] = tx[u]
      BY <1>2, <1>3, <2>1, <2>4
    <3> QED
      BY <2>1, <3>1, <3>2, BalancedStays
  <2> QED
    BY <2>3, <2>4
<1>6. Kept' = Kept
  BY <1>2 DEF Kept
<1> QED
  BY <1>2, <1>3, <1>5, <1>6 DEF MoneyInv

LEMMA MoneyMigrated ==
  ASSUME PeriodInv, PeriodInv', MoneyInv, NEW mode, NEW old \in Categories,
         NEW new \in Categories, MigrateCategory(mode, old, new)
  PROVE  MoneyInv'
<1>1. /\ \A t \in Ids : Alike(tx[t], tx'[t])
      /\ revisions \subseteq revisions' /\ IsFiniteSet(revisions' \ revisions)
      /\ \A v \in revisions' \ revisions : v.before = tx[v.tx] /\ Alike(v.before, v.after)
      /\ revisions' \subseteq Revisions
      /\ UNCHANGED <<reviews, ruled>>
  BY Migrated
<1>2. IsFiniteSet(revisions')
  <2>1. revisions' = revisions \cup (revisions' \ revisions)
    BY <1>1
  <2> QED
    BY <1>1, <2>1, FS_Union DEF MoneyInv
<1>6. ASSUME NEW r \in Kept, NEW T \in SUBSET (Ids \ ruled), NEW type \in Types
      PROVE  Balanced(r, T, type)'
  <2>1. Balanced(r, T, type) /\ T \in SUBSET Ids /\ IsFiniteSet(revisions)
    BY DEF MoneyInv
  <2>2. r \in Checkpoints
    BY KeptTyped
  <2>3. \A t \in T : Alike(tx[t], tx'[t])
    BY <1>1, <2>1
  <2> QED
    BY <1>1, <1>2, <2>1, <2>2, <2>3, BalancedAlike
<1>7. Kept' = Kept
  BY <1>1 DEF Kept
<1> QED
  BY <1>1, <1>2, <1>6, <1>7 DEF MoneyInv

\* A new review balances: it has captured what is stored, and no revision is above
\* its cutoff yet.
LEMMA MoneyCommitted ==
  ASSUME PeriodInv, MoneyInv, NEW p \in Reviewers, CommitReview(p) PROVE MoneyInv'
<1>1. PICK n \in Nat : n = Len(reviews) + 1
  BY DEF PeriodInv, TypeOK
<1>2. PICK c : c = reviewing[p]
  OBVIOUS
<1>3. PICK r : r = reviews'[n]
  OBVIOUS
<1>4. /\ reviews' \in Seq(Checkpoints) /\ Len(reviews') = n
      /\ \A i \in 1 .. Len(reviews) : reviews'[i] = reviews[i]
      /\ r.scope = c.scope /\ r.accounts = c.accounts /\ r.captured = c.captured
      /\ r.cutoff = ledgerVersion + 1
      /\ ledgerVersion \in Nat
  BY <1>1, <1>2, <1>3, Appended
<1>5. Unmoved(p) /\ UNCHANGED <<tx, shared, revisions, run, ruled>>
  BY DEF CommitReview
<1>6. \A t \in Ids \ ruled : r.captured[t] = AsCaptured(r, tx[t])
  <2>1. \A t \in Ids \ ruled : c.captured[t] = AsCaptured(c, tx[t])
    BY <1>2, <1>5 DEF PeriodInv, Current
  <2> QED
    BY <1>4, <2>1 DEF AsCaptured
<1>7. Kept' = Kept \cup {r}
  <2>1. Len(reviews) \in Nat /\ 1 .. Len(reviews') = 1 .. Len(reviews) \cup {n}
    BY <1>1, <1>4 DEF PeriodInv, TypeOK
  <2> QED
    BY <1>3, <1>4, <2>1 DEF Kept
<1>8. ASSUME NEW k \in Kept, NEW T \in SUBSET (Ids \ ruled), NEW type \in Types
      PROVE  Balanced(k, T, type)'
  <2>1. Balanced(k, T, type) /\ \A t \in T : tx'[t] = tx[t]
    BY <1>5 DEF MoneyInv
  <2>2. Later(k, T)' = Later(k, T)
    BY <1>5 DEF Later
  <2> QED
    BY <2>1, <2>2, BalancedStays
<1>9. ASSUME NEW T \in SUBSET (Ids \ ruled), NEW type \in Types PROVE Balanced(r, T, type)'
  <2>1. Later(r, T) = {} /\ Later(r, T)' = {}
    BY <1>4, <1>5, VersionsAreNumbers DEF Later, PeriodInv
  <2>2. Gains(r, T, type) = Losses(r, T, type)
    BY <2>1 DEF Gains, Losses, GainOf, LossOf
  <2>3. ASSUME NEW t \in T PROVE Value(r, r.captured[t], type) = Value(r, tx[t], type)
    BY <1>6 DEF Value, AsCaptured, Relevant, Listed, Visible
  <2>4. Snapshot(r, T, type) = Now(r, T, type)
    BY <2>3 DEF Snapshot, Now
  <2>5. Balanced(r, T, type) /\ \A t \in T : tx'[t] = tx[t]
    BY <1>5, <2>2, <2>4 DEF Balanced
  <2> QED
    BY <2>1, <2>5, BalancedStays
<1> QED
  BY <1>5, <1>7, <1>8, <1>9 DEF MoneyInv

-----------------------------------------------------------------------------

LEMMA MoneyInit == Init => MoneyInv
<1> SUFFICES ASSUME Init PROVE MoneyInv
  OBVIOUS
<1>1. Kept = {} /\ IsFiniteSet(revisions)
  BY FS_EmptySet DEF Init, Kept
<1> QED
  BY <1>1 DEF Init, MoneyInv

LEMMA MoneyNext == PeriodInv /\ PeriodInv' /\ MoneyInv /\ [Next]_vars => MoneyInv'
<1> SUFFICES ASSUME PeriodInv, PeriodInv', MoneyInv, [Next]_vars PROVE MoneyInv'
  OBVIOUS
<1>1. ASSUME NEW m \in Members, NEW t \in Ids, NEW b \in Bodies,
             AddTransaction(m, t, b) \/ EditTransaction(m, t, b)
      PROVE  MoneyInv'
  <2>1. PICK after \in Records : Revise(t, after)
    BY <1>1, StoredTyped
  <2> QED
    BY <2>1, MoneyRevised
<1>2. ASSUME NEW m \in Members, NEW t \in Ids, DeleteTransaction(m, t) PROVE MoneyInv'
  BY <1>2, MoneyRevised DEF DeleteTransaction, Records
<1>3. ASSUME NEW mode \in Types, NEW old \in Categories, NEW new \in Categories,
             MigrateCategory(mode, old, new)
      PROVE  MoneyInv'
  BY <1>3, MoneyMigrated
<1>4. ASSUME NEW p \in Reviewers, CommitReview(p) PROVE MoneyInv'
  BY <1>4, MoneyCommitted
<1>5. IsFiniteSet(revisions)
  BY DEF MoneyInv
<1>6. CASE \/ \E p \in Runs, m \in Members, t \in Ids : ReadRun(p, m, t)
           \/ \E p \in Reviewers, m \in Members, scope \in Scopes, status \in Statuses :
                ReadReview(p, m, scope, status)
           \/ \E a \in Accounts : SetAccountPrivacy(a)
           \/ \E p \in Reviewers : RetryReview(p)
           \/ \E p \in Runs : AdvanceRun(p) \/ AbandonRun(p)
           \/ UNCHANGED vars
  <2>1. UNCHANGED <<tx, revisions, reviews, ruled>>
    BY <1>6 DEF ReadRun, ReadReview, SetAccountPrivacy, RetryReview, AdvanceRun, AbandonRun, vars
  <2> QED
    BY <1>5, <2>1, MoneyStays
<1>7. ASSUME NEW p \in Runs, WriteRun(p) PROVE MoneyInv'
  <2>1. UNCHANGED <<revisions, reviews>> /\ ruled \subseteq ruled'
    BY <1>7 DEF WriteRun
  <2>2. \A t \in Ids \ ruled' : tx'[t] = tx[t]
    BY <1>7 DEF WriteRun, PeriodInv, TypeOK
  <2> QED
    BY <1>5, <2>1, <2>2, MoneyStays
<1>8. ASSUME NEW p \in Runs, AuditRun(p) PROVE MoneyInv'
  <2>1. PICK v : v = Revision(run[p].version, run[p].tx, run[p].before, run[p].after)
    OBVIOUS
  <2>2. revisions' = revisions \cup {v} /\ UNCHANGED <<tx, reviews, ruled>>
    BY <1>8, <2>1 DEF AuditRun
  <2>3. v.tx \in ruled
    BY <1>8, <2>1 DEF AuditRun, PeriodInv, Noted, Revision
  <2>4. IsFiniteSet(revisions')
    BY <1>5, <2>2, FS_AddElement
  <2> QED
    BY <2>2, <2>3, <2>4, MoneyStays
<1> QED
  BY <1>1, <1>2, <1>3, <1>4, <1>6, <1>7, <1>8 DEF Next

\* A total is what the revisions can explain of it and what they cannot.
LEMMA TotalSplits ==
  ASSUME PeriodInv, NEW r, ScopeAccounts(r.scope) = r.accounts, NEW type,
         NEW f, \A t \in Ids \ ruled : f[t] \in Records
  PROVE  /\ Total([t \in Ids \ ruled |-> Amount(f[t], type)])
              = Total([t \in Ids \ ruled |-> Value(r, f[t], type)]) + Unexplained(r, f, type)
         /\ Unexplained(r, f, type) \in Nat
<1> DEFINE T == Ids \ ruled
           U == {t \in T : ~Relevant(r.scope, r.accounts, f[t])}
           all  == [t \in T |-> Amount(f[t], type)]
           some == [t \in T \ U |-> Amount(f[t], type)]
           rest == [t \in U |-> Amount(f[t], type)]
           seen == [t \in T |-> Value(r, f[t], type)]
<1>1. IsFiniteSet(T) /\ IsFiniteSet(U) /\ IsFiniteSet(T \ U) /\ U \subseteq T
  BY PeriodAssumption, FS_Subset
<1>2. \A t \in T : Amount(f[t], type) \in Nat /\ Value(r, f[t], type) \in Nat
  BY ValueTyped
<1>3. all \in [T -> Nat] /\ some \in [T \ U -> Nat] /\ rest \in [U -> Nat] /\ seen \in [T -> Nat]
  BY <1>2
<1>4. /\ DOMAIN some = T \ U /\ DOMAIN rest = U /\ (T \ U) \cup U = T
      /\ \A t \in T \ U : some[t] = all[t]
      /\ \A t \in U : rest[t] = all[t]
  BY <1>1
<1>5. /\ \A t \in T \ (T \ U) : seen[t] = 0
      /\ \A t \in T \ U : seen[t] = some[t]
  BY DEF Value
<1>6. Unexplained(r, f, type) = Total(rest)
  BY DEF Unexplained
<1> HIDE DEF all, some, rest, seen, U, T
<1>7. Total(all) = Total(some) + Total(rest)
  <2>1. Joins(all, some, rest)
    BY <1>1, <1>3, <1>4 DEF Joins
  <2> QED
    BY <2>1, TotalUnion
<1>8. Total(seen) = Total(some)
  <2>1. [t \in T \ U |-> seen[t]] = some
    BY <1>3, <1>5
  <2>2. Total(seen) = Total([t \in T \ U |-> seen[t]])
    BY <1>3, <1>5, TotalPad
  <2> QED
    BY <2>1, <2>2
<1>9. Total(rest) \in Nat
  BY <1>1, <1>3, TotalType
<1>10. Total(all) = Total(seen) + Unexplained(r, f, type) /\ Unexplained(r, f, type) \in Nat
  BY <1>6, <1>7, <1>8, <1>9
<1> QED
  BY <1>10 DEF all, seen, T

\* MoneyInv over all the transactions that no rule run has written, seen by a reader
\* whose scope is the captured one.
LEMMA MoneyOf ==
  ASSUME PeriodInv, MoneyInv PROVE MoneyReconciles
<1> SUFFICES ASSUME NEW i \in 1 .. Len(reviews), Comparable(reviews[i]),
                    NEW type \in {"income", "expense"}
             PROVE  Captured(reviews[i], type) + Gained(reviews[i], type)
                        + Unexplained(reviews[i], Today(reviews[i]), type)
                      = Standing(reviews[i], type) + Lost(reviews[i], type)
                        + Unexplained(reviews[i], reviews[i].captured, type)
  BY DEF MoneyReconciles
<1>1. PICK r : r = reviews[i]
  OBVIOUS
<1>2. PICK T : T = Ids \ ruled
  OBVIOUS
<1>3. r \in Kept /\ ScopeAccounts(r.scope) = r.accounts /\ T \in SUBSET Ids
  BY <1>1, <1>2 DEF Kept, Comparable
<1>4. r \in Checkpoints /\ IsFiniteSet(revisions)
  BY <1>3, KeptTyped DEF MoneyInv
<1>5. Balanced(r, T, type)
  BY <1>2, <1>3 DEF MoneyInv, Types
<1>6. /\ Captured(r, type) = Snapshot(r, T, type) + Unexplained(r, r.captured, type)
      /\ Unexplained(r, r.captured, type) \in Nat
  <2>1. \A t \in Ids \ ruled : r.captured[t] \in Records
    BY <1>4 DEF Checkpoints
  <2> QED
    BY <1>2, <1>3, <2>1, TotalSplits DEF Captured, Snapshot
<1>7. /\ Standing(r, type) = Now(r, T, type) + Unexplained(r, Today(r), type)
      /\ Unexplained(r, Today(r), type) \in Nat
  <2> DEFINE now == Today(r)
  <2>1. \A t \in Ids \ ruled : now[t] \in Records /\ Value(r, now[t], type) = Value(r, tx[t], type)
    BY <1>3 DEF Today, InPeriod, Value, Relevant, Listed, Visible, PeriodInv, TypeOK, Records
  <2> HIDE DEF now
  <2>2. /\ Total([t \in Ids \ ruled |-> Amount(now[t], type)])
             = Total([t \in Ids \ ruled |-> Value(r, now[t], type)]) + Unexplained(r, now, type)
        /\ Unexplained(r, now, type) \in Nat
    BY <1>3, <2>1, TotalSplits
  <2>3. [t \in T |-> Value(r, now[t], type)] = [t \in T |-> Value(r, tx[t], type)]
    BY <1>2, <2>1
  <2> QED
    BY <1>2, <2>2, <2>3 DEF Standing, Now, now
<1> DEFINE D == Differences(r)
           L == Later(r, T)
<1>8. D \subseteq L /\ IsFiniteSet(L) /\ \A v \in L : v \in revisions /\ v.tx \notin ruled
  <2>1. \A v \in revisions : v.tx \in Ids
    BY DEF PeriodInv, TypeOK, Revisions
  <2>2. D \subseteq L /\ L \subseteq revisions /\ \A v \in L : v.tx \notin ruled
    BY <1>2, <2>1 DEF Differences, ChangesSince, Later
  <2>3. IsFiniteSet(L)
    BY <1>4, <2>2, FS_Subset
  <2> QED
    BY <2>2, <2>3
<1>9. ASSUME NEW x \in Records PROVE RelevantAmount(r, x, type) = Value(r, x, type)
  BY <1>3 DEF RelevantAmount, Value
<1>10. \A v \in L : /\ v.before \in Records /\ v.after \in Records
                    /\ RelevantAmount(r, v.after, type) = Value(r, v.after, type)
                    /\ RelevantAmount(r, v.before, type) = Value(r, v.before, type)
  <2>1. \A v \in L : v.before \in Records /\ v.after \in Records
    BY <1>3, <1>4, TermsTyped
  <2> HIDE DEF L
  <2> QED
    BY <1>9, <2>1
<1>11. \A v \in L \ D : /\ RelevantAmount(r, v.after, type) = 0
                        /\ RelevantAmount(r, v.before, type) = 0
  BY <1>3, <1>8 DEF Differences, ChangesSince, Later, RelevantAmount
<1>12. Gains(r, T, type) = Gained(r, type)
  <2> DEFINE f == [v \in L |-> Value(r, v.after, type)]
  <2>1. f \in [L -> Nat] /\ \A v \in L \ D : f[v] = 0
    BY <1>10, <1>11, ValueTyped
  <2>2. [v \in D |-> f[v]] = [v \in D |-> RelevantAmount(r, v.after, type)]
    BY <1>8, <1>10
  <2>3. Total(f) = Total([v \in D |-> f[v]])
    <3>1. D \in SUBSET L
      BY <1>8
    <3> HIDE DEF f, D, L
    <3> QED
      BY <2>1, <3>1, TotalPad
  <2> QED
    BY <2>2, <2>3 DEF Gains, GainOf, Gained
<1>13. Losses(r, T, type) = Lost(r, type)
  <2> DEFINE f == [v \in L |-> Value(r, v.before, type)]
  <2>1. f \in [L -> Nat] /\ \A v \in L \ D : f[v] = 0
    BY <1>10, <1>11, ValueTyped
  <2>2. [v \in D |-> f[v]] = [v \in D |-> RelevantAmount(r, v.before, type)]
    BY <1>8, <1>10
  <2>3. Total(f) = Total([v \in D |-> f[v]])
    <3>1. D \in SUBSET L
      BY <1>8
    <3> HIDE DEF f, D, L
    <3> QED
      BY <2>1, <3>1, TotalPad
  <2> QED
    BY <2>2, <2>3 DEF Losses, LossOf, Lost
<1>14. /\ Snapshot(r, T, type) \in Nat /\ Now(r, T, type) \in Nat
       /\ Gains(r, T, type) \in Nat /\ Losses(r, T, type) \in Nat
  BY <1>3, <1>4, SumsTyped
<1>15. Snapshot(r, T, type) + Gained(r, type) = Now(r, T, type) + Lost(r, type)
  BY <1>5, <1>12, <1>13 DEF Balanced
<1>16. Gained(r, type) \in Nat /\ Lost(r, type) \in Nat
  BY <1>12, <1>13, <1>14
<1>17. Captured(r, type) + Gained(r, type) + Unexplained(r, Today(r), type)
         = Standing(r, type) + Lost(r, type) + Unexplained(r, r.captured, type)
  <2>1. PICK s \in Nat : s = Snapshot(r, T, type)
    BY <1>14
  <2>2. PICK n \in Nat : n = Now(r, T, type)
    BY <1>14
  <2>3. PICK g \in Nat : g = Gained(r, type)
    BY <1>16
  <2>4. PICK l \in Nat : l = Lost(r, type)
    BY <1>16
  <2>5. PICK u \in Nat : u = Unexplained(r, r.captured, type)
    BY <1>6
  <2>6. PICK w \in Nat : w = Unexplained(r, Today(r), type)
    BY <1>7
  <2>7. s + g = n + l
    BY <1>15, <2>1, <2>2, <2>3, <2>4
  <2>8. (s + u) + g + w = (n + w) + l + u
    BY <2>7
  <2>9. Captured(r, type) = s + u /\ Standing(r, type) = n + w
    BY <1>6, <1>7, <2>1, <2>2, <2>5, <2>6
  <2> QED
    BY <2>3, <2>4, <2>5, <2>6, <2>8, <2>9
<1> QED
  BY <1>1, <1>17

\* The difference a review reports is the difference from its snapshot: what it
\* captured and the revisions since are the income and the spending of today, up to
\* the records that name a destination outside the scope, for any members,
\* transactions, reviews and edits (CreatePeriodReview, periodReviewDifferences),
\* over the records that no rule run has written.
THEOREM MoneyAddsUp == Spec => []MoneyReconciles
<1>1. Spec => [](PeriodInv /\ MoneyInv)
  BY InvInit, InvNext, MoneyInit, MoneyNext, PTL DEF Spec
<1>2. PeriodInv /\ MoneyInv => MoneyReconciles
  BY MoneyOf
<1> QED
  BY <1>1, <1>2, PTL
=============================================================================
