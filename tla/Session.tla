------------------------------- MODULE Session -------------------------------
(***************************************************************************)
(* Who is signed in on a device: the sign-in and registration pages, the   *)
(* PIN gate of a remembered device, the bearer token every request is sent *)
(* with, the workspaces that are listed, and what of it is stored.         *)
(*                                                                         *)
(* The local storage is written at once.  On Android every write is also   *)
(* mirrored to the native preferences, key by key, by a queue the          *)
(* application can be stopped in; the next start reads them back over the  *)
(* local storage, as far as three seconds and its failures let it.         *)
(* A stored value stands for the account it belongs to.                    *)
(*                                                                         *)
(* The demo is left out: no page calls enterDemo, which alone stores that  *)
(* a demo was entered, so a start never finds it stored.                   *)
(***************************************************************************)
EXTENDS Naturals, Sequences, SequencesExt, FiniteSets

CONSTANTS
  Users,        \* The people who use this device.
  None,
  MaxSignIns,   \* How often somebody asks to be signed in.
  MaxRequests,  \* How many requests are sent from the signed-in pages.
  MaxRestarts,  \* How often the application is stopped and started.
  MaxFailures   \* How often the native storage fails.

Bounds == {MaxSignIns, MaxRequests, MaxRestarts, MaxFailures}

ASSUME SessionAssumption == Users /= {} /\ None \notin Users /\ Bounds \subseteq Nat

\* The keys, in the order hydration reads them; "personal" stands for the
\* name, profile, workspaces and currency, "remember" for a flag.
Keys == {"user", "token", "remember", "pin", "personal"}

SignIns == {"login", "register"}

\* Requests a fresh list of the workspaces follows, and those that are answered
\* with a profile.
Refreshing == {"create", "join", "accept", "member"}

Profiling == {"profile", "currency"}

Kinds == Refreshing \cup Profiling \cup {"delete", "logout", "logoutAll"}

VARIABLES
  android,   \* Whether there are native preferences.
  local,     \* The local storage.
  native,    \* The native preferences.
  queue,     \* Per key, the mutations the native preferences still wait for.
  app,       \* The state of the application.
  bearer,    \* Whose token requests are sent with.
  jobs,      \* Requests without an answer.
  accounts,  \* Who has an account on the server.
  intent,    \* Who asked last to be remembered, and has not signed out since.
  torn,      \* A mutation of the native preferences failed or was lost.
  late,      \* An answer came into a session it does not belong to.
  count      \* What has been used of the bounds.

vars == <<android, local, native, queue, app, bearer, jobs, accounts, intent, torn, late, count>>

Storage == [Keys -> Users \cup {None}]

\* "fresh" while a restored session has not asked for its workspaces, "saving"
\* while a new PIN waits for the native preferences.
App == [auth : BOOLEAN, user : Users \cup {None}, access : {"unlocked", "setup", "locked"},
        pin : Users \cup {None}, shown : Users \cup {None}, fresh : BOOLEAN,
        saving : {<<>>} \cup [user : Users, left : Nat \ {0}]]

Job == [kind : SignIns \cup Kinds \cup {"list", "refresh", "deleted"},
        user : Users \cup {None}, keep : BOOLEAN]

TypeOK ==
  /\ android \in BOOLEAN /\ bearer \in Users \cup {None}
  /\ local \in Storage /\ native \in Storage
  /\ queue \in [Keys -> Seq(Users \cup {None})] /\ (~android => \A k \in Keys : queue[k] = <<>>)
  /\ app \in App /\ jobs \subseteq Job /\ accounts \subseteq Users
  /\ intent \in Users \cup {None} /\ {torn, late} \subseteq BOOLEAN
  /\ count \in [signIns : 0 .. MaxSignIns, requests : 0 .. MaxRequests,
                restarts : 0 .. MaxRestarts, failures : 0 .. MaxFailures]

Spend(what) == count' = [count EXCEPT ![what] = @ + 1]

-----------------------------------------------------------------------------
(* Storage. *)

Empty == [k \in Keys |-> None]

NoQueue == [k \in Keys |-> <<>>]

\* What a set of writes leaves, and has mirrored behind what is waiting; a
\* removal writes None.
Persisted(writes) ==
  /\ local' = [k \in Keys |-> IF k \in DOMAIN writes THEN writes[k] ELSE local[k]]
  /\ queue' = [k \in Keys |-> IF android /\ k \in DOMAIN writes THEN Append(queue[k], writes[k])
                              ELSE queue[k]]

\* A native value replaces the local one; a local value without one is mirrored.
Hydrated(read) ==
  /\ local' = [k \in Keys |-> IF k \in read /\ native[k] /= None THEN native[k] ELSE local[k]]
  /\ queue' = [k \in Keys |-> IF k \in read /\ native[k] = None /\ local[k] /= None
                              THEN <<local[k]>> ELSE <<>>]

\* A token is restored for a session that was to be remembered, and is no demo.
Restorable(storage) == storage.token /= None /\ storage.remember /= None

\* The state of the application that starts on this storage.
Started(storage) ==
  LET restored == Restorable(storage)
      pin == IF restored THEN storage.pin ELSE None
  IN [auth |-> restored,
      user |-> IF storage.remember /= None THEN storage.user ELSE None,
      access |-> CASE ~restored -> "unlocked"
                   [] pin = None -> "setup"
                   [] OTHER -> "locked",
      pin |-> pin, shown |-> storage.personal, fresh |-> restored, saving |-> <<>>]

Init ==
  /\ android \in BOOLEAN /\ accounts \in SUBSET Users
  /\ local = Empty /\ native = Empty /\ queue = NoQueue
  /\ app = Started(Empty) /\ bearer = None /\ jobs = {} /\ intent = None
  /\ torn = FALSE /\ late = FALSE
  /\ count = [signIns |-> 0, requests |-> 0, restarts |-> 0, failures |-> 0]

\* The application is stopped and started again: requests and waiting
\* mutations are lost; a key whose read fails, or comes after the deadline,
\* keeps its local value.
Restart ==
  /\ count.restarts < MaxRestarts /\ Spend("restarts")
  /\ \E read \in IF android THEN SUBSET Keys ELSE {{}} : Hydrated(read)
  /\ app' = Started(local')
  /\ bearer' = IF Restorable(local') THEN local'.token ELSE None
  /\ jobs' = {} /\ torn' = (torn \/ queue /= NoQueue)
  /\ UNCHANGED <<android, native, accounts, intent, late>>

\* The effects of a render: a restored session that is open asks for its
\* workspaces, once.
Rendered(next, token, waiting) ==
  LET asks == next.auth /\ next.access = "unlocked" /\ next.fresh
  IN /\ app' = IF asks THEN [next EXCEPT !.fresh = FALSE] ELSE next
     /\ bearer' = token
     /\ jobs' = IF asks THEN waiting \cup {[kind |-> "refresh", user |-> token, keep |-> FALSE]}
                ELSE waiting

\* Saving a PIN goes on when its own mutation is through.
Resumed(key) ==
  IF key /= "pin" \/ app.saving = <<>> THEN UNCHANGED <<app, bearer, jobs>>
  ELSE IF app.saving.left > 1
    THEN app' = [app EXCEPT !.saving.left = @ - 1] /\ UNCHANGED <<bearer, jobs>>
  ELSE Rendered([app EXCEPT !.pin = app.saving.user, !.access = "unlocked", !.saving = <<>>],
                bearer, jobs)

DueAtOnce(mutations) == DOMAIN mutations

\* The first of a queue.
Due(mutations) == {1}

\* One mutation of a key at a time reaches the native preferences, or fails
\* and is forgotten.
Mirror(key) ==
  /\ queue[key] /= <<>>
  /\ \E i \in Due(queue[key]) :
       /\ queue' = [queue EXCEPT ![key] = RemoveAt(@, i)]
       /\ \/ native' = [native EXCEPT ![key] = queue[key][i]] /\ UNCHANGED <<torn, count>>
          \/ /\ count.failures < MaxFailures /\ Spend("failures")
             /\ torn' = TRUE /\ UNCHANGED native
  /\ Resumed(key)
  /\ UNCHANGED <<android, local, accounts, intent, late>>

-----------------------------------------------------------------------------
(* Signing in. *)

Waiting(kinds) == {j \in jobs : j.kind \in kinds}

Asked(kind, user, keep) == jobs' = jobs \cup {[kind |-> kind, user |-> user, keep |-> keep]}

\* One request of each page; leaving a page that waits leads to the other.
Submit(kind, user, keep) ==
  /\ ~app.auth /\ count.signIns < MaxSignIns /\ Spend("signIns")
  /\ Waiting({kind}) = {}
  /\ Asked(kind, user, keep)
  /\ UNCHANGED <<android, local, native, queue, app, bearer, accounts, intent, torn, late>>

SubmitLogin(user) == \E keep \in BOOLEAN : Submit("login", user, keep)

SubmitRegistration(user) == Submit("register", user, TRUE)

Refused(job) ==
  /\ job.kind \in SignIns
  /\ jobs' = jobs \ {job}
  /\ accounts' \in {accounts, IF job.kind = "register" THEN accounts \cup {job.user} ELSE accounts}
  /\ UNCHANGED <<android, local, native, queue, app, bearer, intent, torn, late, count>>

\* Somebody else signed in, or is about to.
Overlaps(job) == app.auth \/ \E j \in jobs \ {job} : j.kind = "list"

\* The caches are cleared, the token is set for every request, and the
\* workspaces of the account are asked for.
Accepted(job) ==
  /\ job.kind \in SignIns
  /\ (job.user \in accounts) <=> job.kind = "login"
  /\ accounts' = accounts \cup {job.user}
  /\ bearer' = job.user
  /\ jobs' = (jobs \ {job}) \cup {[job EXCEPT !.kind = "list"]}
  /\ late' = (late \/ Overlaps(job))
  /\ UNCHANGED <<android, local, native, queue, app, intent, torn, count>>

KeptAlways(user) == local.pin

\* The PIN stays with the account that chose it.
KeptPin(user) == IF local.user = user THEN local.pin ELSE None

Remembered(user, pin) == [token |-> user, user |-> user, remember |-> user, pin |-> pin]

Forgotten == [token |-> None, user |-> None, remember |-> None, pin |-> None]

ForgettingLater(keep, user, pin) == IF keep THEN Remembered(user, pin) ELSE local

\* What a sign-in stores of an account that is to be remembered, and removes
\* of any other.
Forgetting(keep, user, pin) == IF keep THEN Remembered(user, pin) ELSE Forgotten

\* The list of the workspaces ends a sign-in. The default workspace, the one part
\* of "personal" that it leaves as it was stored, is not told apart.
Listed(job) ==
  /\ job.kind = "list"
  /\ LET pin == IF job.keep THEN KeptPin(job.user) ELSE None
         stored == [k \in Keys |-> IF k = "personal" THEN job.user
                                   ELSE Forgetting(job.keep, job.user, pin)[k]]
     IN /\ Persisted(stored)
        /\ Rendered([app EXCEPT !.auth = TRUE, !.user = job.user, !.shown = job.user, !.pin = pin,
                                !.access = IF job.keep /\ pin = None THEN "setup" ELSE "unlocked"],
                    bearer, jobs \ {job})
  /\ intent' = (IF job.keep THEN job.user ELSE None)
  /\ UNCHANGED <<android, native, accounts, torn, late, count>>

SignedOutWithToken(rest) ==
  /\ Persisted(Empty)
  /\ app' = [app EXCEPT !.auth = FALSE, !.user = None, !.access = "unlocked", !.pin = None,
                        !.shown = None]
  /\ UNCHANGED bearer /\ jobs' = rest /\ intent' = None

\* Everything of the account goes, from memory and from the storage.
SignedOut(rest) ==
  /\ Persisted(Empty)
  /\ app' = [app EXCEPT !.auth = FALSE, !.user = None, !.access = "unlocked", !.pin = None,
                        !.shown = None]
  /\ bearer' = None /\ jobs' = rest /\ intent' = None

\* The token is cleared, and the page that asked signs out whoever there is.
Unlisted(job) ==
  /\ job.kind = "list"
  /\ SignedOut(jobs \ {job})
  /\ UNCHANGED <<android, native, accounts, torn, late, count>>

-----------------------------------------------------------------------------
(* The gate of a remembered device. *)

Gated(access) == app.auth /\ app.access = access /\ app.saving = <<>>

\* The digest is stored; the gate opens when it is mirrored.
ConfigurePin ==
  /\ Gated("setup") /\ app.user /= None
  /\ Persisted([pin |-> app.user])
  /\ IF android
     THEN /\ app' = [app EXCEPT !.saving = [user |-> app.user, left |-> Len(queue.pin) + 1]]
          /\ UNCHANGED <<bearer, jobs>>
     ELSE Rendered([app EXCEPT !.pin = app.user, !.access = "unlocked"], bearer, jobs)
  /\ UNCHANGED <<android, native, accounts, intent, torn, late, count>>

\* The right PIN; a wrong one changes nothing and sends nothing.
Unlock ==
  /\ Gated("locked")
  /\ Rendered([app EXCEPT !.access = "unlocked"], bearer, jobs)
  /\ UNCHANGED <<android, local, native, queue, accounts, intent, torn, late, count>>

UseAnotherAccount ==
  /\ \E access \in {"setup", "locked"} : Gated(access)
  /\ SignedOut(jobs)
  /\ UNCHANGED <<android, native, accounts, torn, late, count>>

-----------------------------------------------------------------------------
(* Signed in. *)

\* A page waits for one request of a kind. What a deployed server refuses for
\* want of a vault is the same request once more.
Ask(kind) ==
  /\ app.auth /\ app.access = "unlocked" /\ Waiting({kind}) = {}
  /\ count.requests < MaxRequests /\ Spend("requests")
  /\ Asked(kind, bearer, FALSE)
  /\ UNCHANGED <<android, local, native, queue, app, bearer, accounts, intent, torn, late>>

CreateWorkspace == Ask("create")

JoinWorkspace == Ask("join")

AcceptInvitation == Ask("accept")

ChangeMember == Ask("member")

SaveProfile == Ask("profile")

ChangeCurrency == Ask("currency")

DeleteWorkspace == Ask("delete")

LogOut == Ask("logout")

LogOutAll == Ask("logoutAll")

\* It belongs to another session than the one it is answered in.
Strays(job) == ~app.auth \/ job.user /= app.user

\* It failed; or to join awaits an approval; the page says so.
Dropped(job) ==
  /\ job.kind \in (Kinds \ {"logout"}) \cup {"refresh", "deleted"}
  /\ jobs' = jobs \ {job}
  /\ UNCHANGED <<android, local, native, queue, app, bearer, accounts, intent, torn, late, count>>

\* The request behind the first one is sent with the token of that moment.
Continued(job) ==
  /\ job.kind \in Refreshing \cup {"delete"} /\ job.user /= None
  /\ jobs' = (jobs \ {job}) \cup
       {[kind |-> IF job.kind = "delete" THEN "deleted" ELSE "refresh", user |-> bearer,
         keep |-> FALSE]}
  /\ UNCHANGED <<android, local, native, queue, app, bearer, accounts, intent, torn, late, count>>

\* The workspaces of whoever asked are listed and the chosen one is stored.
Refreshed(job) ==
  /\ job.kind \in {"refresh", "deleted"} /\ job.user /= None
  /\ Persisted([personal |-> job.user])
  /\ app' = [app EXCEPT !.shown = job.user]
  /\ jobs' = jobs \ {job} /\ late' = (late \/ Strays(job))
  /\ UNCHANGED <<android, native, bearer, accounts, intent, torn, count>>

ProfileSaved(job) ==
  /\ job.kind \in Profiling /\ job.user /= None
  /\ Persisted([personal |-> job.user])
  /\ jobs' = jobs \ {job} /\ late' = (late \/ Strays(job))
  /\ UNCHANGED <<android, native, app, bearer, accounts, intent, torn, count>>

\* The last workspace is gone; this session is over whatever the server said;
\* all sessions are, when it said so.
Leaves(job) == job.kind \in {"deleted", "logout", "logoutAll"}

LoggedOut(job) ==
  /\ Leaves(job) /\ (job.user /= None \/ job.kind = "logout")
  /\ SignedOut(jobs \ {job})
  /\ late' = (late \/ Strays(job))
  /\ UNCHANGED <<android, native, accounts, torn, count>>

\* Another of the listed workspaces is chosen, and stored.
ChooseWorkspace ==
  /\ app.auth /\ app.access = "unlocked" /\ app.shown /= None
  /\ count.requests < MaxRequests /\ Spend("requests")
  /\ Persisted([personal |-> app.shown])
  /\ UNCHANGED <<android, native, app, bearer, jobs, accounts, intent, torn, late>>

Next ==
  \/ Restart
  \/ \E key \in Keys : Mirror(key)
  \/ \E user \in Users : SubmitLogin(user) \/ SubmitRegistration(user)
  \/ \E job \in jobs : \/ Refused(job) \/ Accepted(job) \/ Listed(job) \/ Unlisted(job)
                       \/ Dropped(job) \/ Continued(job) \/ Refreshed(job) \/ ProfileSaved(job)
                       \/ LoggedOut(job)
  \/ ConfigurePin \/ Unlock \/ UseAnotherAccount
  \/ CreateWorkspace \/ JoinWorkspace \/ AcceptInvitation \/ ChangeMember \/ DeleteWorkspace
  \/ SaveProfile \/ ChangeCurrency \/ LogOut \/ LogOutAll \/ ChooseWorkspace

Spec == Init /\ [][Next]_vars

-----------------------------------------------------------------------------
(* Properties. *)

\* Requests carry the token of whoever is signed in and the workspaces listed
\* are theirs; nobody's token outlives a session. Beyond it are answers that
\* come into another session, two sign-ins at once, and a torn mirror.
OneIdentity ==
  ~late /\ ~torn =>
    /\ app.auth => bearer = app.user /\ app.shown = app.user
    /\ ~app.auth /\ Waiting({"list"}) = {} => bearer = None

\* Nobody meets the PIN of another account, now or after a restart.
PinIsOwners ==
  ~torn =>
    /\ app.auth /\ app.access = "locked" => app.pin = app.user /\ bearer = app.user
    /\ local.pin /= None => local.pin = local.token

\* When nothing waits the native preferences agree with the local storage,
\* as the next start will read them over it.
Mirrored ==
  android /\ ~torn => \A k \in Keys : queue[k] = <<>> => native[k] = local[k]

\* A start signs in whoever asked last to be remembered and has not signed out
\* since, behind the gate, and nobody else, as far as the mirror is whole.
StartsAsRemembered ==
  [][Restart /\ ~torn' =>
       /\ app'.auth <=> intent /= None
       /\ app'.auth => app'.user = intent /\ app'.access /= "unlocked"]_vars
=============================================================================
