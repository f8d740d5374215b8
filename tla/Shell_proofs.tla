---------------------------- MODULE Shell_proofs ----------------------------
(***************************************************************************)
(* Theorems about what surrounds the pages of the web client.              *)
(*                                                                         *)
(* About Session, for any number of people, sign-ins, requests, restarts   *)
(* and failures: what a device holds of an account is that account's, in   *)
(* memory, in the local storage and in its native mirror.                  *)
(*                                                                         *)
(* About Layers, for any number of openings and pages: the page is left as *)
(* it was found, the top layer is the one that answers, the page behind it *)
(* stays locked, and each press of Android's back leads nearer the way out.*)
(***************************************************************************)
EXTENDS Session, Layers, FiniteSetTheorems, SequenceTheorems, WellFoundedInduction, TLAPS

-----------------------------------------------------------------------------
(* The inductive invariant *)

Values == Users \cup {None}

\* The type invariant, the bounds apart; a sign-in is somebody's.
Typed ==
  /\ android \in BOOLEAN /\ bearer \in Values
  /\ local \in Storage /\ native \in Storage
  /\ queue \in [Keys -> Seq(Values)] /\ (~android => \A k \in Keys : queue[k] = <<>>)
  /\ app \in App /\ jobs \subseteq Job /\ accounts \subseteq Users
  /\ \A j \in jobs : j.kind \in SignIns \cup {"list"} => j.user \in Users
  /\ intent \in Values /\ torn \in BOOLEAN /\ late \in BOOLEAN

\* What a key holds once its waiting mutations are through is its local value.
Synced ==
  android => \A k \in Keys : IF queue[k] = <<>> THEN native[k] = local[k]
                             ELSE queue[k][Len(queue[k])] = local[k]

\* The keys of a remembered account are written and removed together.
Owned ==
  /\ local["user"] = local["token"] /\ local["remember"] = local["token"]
  /\ local["pin"] \in {None, local["token"]}

\* The local storage remembers who asked for it; a gate stands before them.
Held ==
  /\ local["token"] = intent
  /\ app.auth /\ app.access \in {"setup", "locked"} => app.user = local["token"]
  /\ app.auth /\ app.access = "locked" => app.pin = app.user /\ bearer = app.user /\ jobs = {}

\* One sign-in at a time: who is signed in, whose token is sent, and whose
\* workspaces are awaited.
Single ==
  /\ app.auth => /\ bearer = app.user /\ app.shown = app.user /\ Waiting({"list"}) = {}
                 /\ local["token"] \in {None, app.user}
  /\ ~app.auth => /\ local["token"] = None
                  /\ Waiting({"list"}) = {} => bearer = None
                  /\ \A j \in Waiting({"list"}) : bearer = j.user
                  /\ \A i, j \in Waiting({"list"}) : i = j
  /\ local["token"] /= None => local["personal"] = local["token"]

Counted == count \in [signIns : 0 .. MaxSignIns, requests : 0 .. MaxRequests,
                      restarts : 0 .. MaxRestarts, failures : 0 .. MaxFailures]

\* The inductive invariant, the bounds apart.
DeviceInv ==
  /\ Typed
  /\ ~torn => Synced /\ Owned /\ Held
  /\ ~torn /\ ~late => Single

-----------------------------------------------------------------------------
(* Storage *)

\* Only writes of accounts, or removals, of the keys there are.
Writes(w) == DOMAIN w \subseteq Keys /\ \A k \in DOMAIN w : w[k] \in Values

LEMMA NoUser == None \notin Users
BY SessionAssumption

\* What is left when the i-th of a sequence is taken out.
LEMMA TakenOut ==
  ASSUME NEW S, NEW s \in Seq(S), NEW i \in 1 .. Len(s)
  PROVE  /\ RemoveAt(s, i) \in Seq(S) /\ Len(RemoveAt(s, i)) = Len(s) - 1
         /\ DOMAIN RemoveAt(s, i) = 1 .. Len(s) - 1
         /\ \A j \in 1 .. Len(s) - 1 : RemoveAt(s, i)[j] = IF j < i THEN s[j] ELSE s[j + 1]
<1> DEFINE n == Len(s)
           a == SubSeq(s, 1, i - 1)
           b == SubSeq(s, i + 1, n)
           c == a \o b
<1>1. n \in Nat /\ i \in Nat /\ 1 <= i /\ i <= n /\ \A j \in 1 .. n : s[j] \in S
  OBVIOUS
<1>2. /\ a \in Seq(S) /\ Len(a) = i - 1
      /\ \A j \in 1 .. i - 1 : a[j] = s[j]
  <2>1. 1 .. i - 1 \subseteq 1 .. n /\ (i - 1) - 1 + 1 = i - 1
    BY <1>1
  <2>2. /\ a \in Seq(S) /\ Len(a) = IF 1 <= i - 1 THEN (i - 1) - 1 + 1 ELSE 0
        /\ \A j \in 1 .. (i - 1) - 1 + 1 : a[j] = s[1 + j - 1]
    BY <1>1, <2>1, SubSeqProperties
  <2> HIDE DEF a, n
  <2>3. \A j \in 1 .. i - 1 : 1 + j - 1 = j
    OBVIOUS
  <2> QED
    BY <1>1, <2>1, <2>2, <2>3
<1>3. /\ b \in Seq(S) /\ Len(b) = n - i
      /\ \A j \in 1 .. n - i : b[j] = s[i + j]
  <2>1. i + 1 .. n \subseteq 1 .. n /\ n - (i + 1) + 1 = n - i
    BY <1>1
  <2>2. /\ b \in Seq(S) /\ Len(b) = IF i + 1 <= n THEN n - (i + 1) + 1 ELSE 0
        /\ \A j \in 1 .. n - (i + 1) + 1 : b[j] = s[i + 1 + j - 1]
    BY <1>1, <2>1, SubSeqProperties
  <2> HIDE DEF b, n
  <2>3. \A j \in 1 .. n - i : i + 1 + j - 1 = i + j
    BY <1>1
  <2> QED
    BY <1>1, <2>1, <2>2, <2>3
<1>4. RemoveAt(s, i) = c
  BY DEF RemoveAt
<1> HIDE DEF a, b
<1>5. /\ c \in Seq(S) /\ Len(c) = (i - 1) + (n - i)
      /\ \A j \in 1 .. (i - 1) + (n - i) :
           c[j] = IF j <= i - 1 THEN a[j] ELSE b[j - (i - 1)]
  <2>1. /\ c \in Seq(S) /\ Len(c) = Len(a) + Len(b)
        /\ \A j \in 1 .. Len(a) + Len(b) :
             c[j] = IF j <= Len(a) THEN a[j] ELSE b[j - Len(a)]
    BY ZenonT(30), <1>2, <1>3, ConcatProperties DEF c
  <2> QED
    BY Zenon, <1>2, <1>3, <2>1
<1> HIDE DEF c
<1>6. (i - 1) + (n - i) = n - 1
  BY <1>1
<1>7. DOMAIN c = 1 .. n - 1
  BY <1>5, <1>6
<1>8. ASSUME NEW j \in 1 .. n - 1 PROVE c[j] = IF j < i THEN s[j] ELSE s[j + 1]
  <2>1. CASE j < i
    <3>1. j \in 1 .. i - 1
      BY <1>1, <2>1
    <3> QED
      BY <1>2, <1>5, <1>6, <2>1, <3>1
  <2>2. CASE ~(j < i)
    <3>1. j - (i - 1) \in 1 .. n - i /\ i + (j - (i - 1)) = j + 1 /\ ~(j <= i - 1)
      BY <1>1, <2>2
    <3>2. c[j] = b[j - (i - 1)]
      BY <1>5, <1>6, <3>1
    <3>3. b[j - (i - 1)] = s[j + 1]
      BY <1>3, <3>1
    <3> QED
      BY <2>2, <3>2, <3>3
  <2> QED
    BY <2>1, <2>2
<1> QED
  BY ZenonT(30), <1>4, <1>5, <1>6, <1>7, <1>8 DEF n, c

\* Taking the first element off a queue.
LEMMA FirstRemoved ==
  ASSUME NEW S, NEW s \in Seq(S), s /= <<>>
  PROVE  /\ RemoveAt(s, 1) \in Seq(S) /\ Len(RemoveAt(s, 1)) = Len(s) - 1
         /\ \A i \in 1 .. Len(s) - 1 : RemoveAt(s, 1)[i] = s[i + 1]
<1>1. 1 \in 1 .. Len(s) /\ \A j \in 1 .. Len(s) - 1 : ~(j < 1)
  OBVIOUS
<1> QED
  BY <1>1, TakenOut

LEMMA PersistedType ==
  ASSUME Typed, NEW w, Writes(w), Persisted(w)
  PROVE  /\ local' \in Storage /\ queue' \in [Keys -> Seq(Values)]
         /\ ~android => \A k \in Keys : queue'[k] = <<>>
<1>1. local' \in Storage
  BY DEF Typed, Persisted, Writes, Storage, Values
<1>2. ASSUME NEW k \in Keys PROVE Append(queue[k], w[k]) \in Seq(Values) \/ k \notin DOMAIN w
  BY DEF Typed, Writes
<1> QED
  BY <1>1, <1>2 DEF Typed, Persisted

\* A write and its mutation keep the storages together.
LEMMA PersistedSynced ==
  ASSUME Typed, Synced, NEW w, Writes(w), Persisted(w), android' = android, native' = native
  PROVE  Synced'
<1> SUFFICES ASSUME android, NEW k \in Keys
             PROVE  IF queue'[k] = <<>> THEN native[k] = local'[k]
                    ELSE queue'[k][Len(queue'[k])] = local'[k]
  BY DEF Synced
<1>1. queue[k] \in Seq(Values)
  BY DEF Typed
<1>2. CASE k \in DOMAIN w
  <2>1. queue'[k] = Append(queue[k], w[k]) /\ local'[k] = w[k]
    BY <1>2 DEF Persisted
  <2>2. Append(queue[k], w[k]) /= <<>>
    BY <1>1
  <2>3. Append(queue[k], w[k])[Len(Append(queue[k], w[k]))] = w[k]
    BY <1>1
  <2> QED
    BY <2>1, <2>2, <2>3
<1>3. CASE k \notin DOMAIN w
  <2>1. queue'[k] = queue[k] /\ local'[k] = local[k]
    BY <1>3 DEF Persisted
  <2> QED
    BY <2>1 DEF Synced
<1> QED
  BY <1>2, <1>3

LEMMA EmptyWrites ==
  /\ Writes(Empty)
  /\ \A u \in Values : Writes([personal |-> u]) /\ Writes([pin |-> u])
BY DEF Writes, Empty, Keys, Values

\* What the writes of the operations leave in the local storage.
LEMMA PersistedValues ==
  ASSUME Typed
  PROVE  /\ Persisted(Empty) => \A k \in Keys : local'[k] = None
         /\ \A u : Persisted([personal |-> u]) =>
              local'["personal"] = u /\ \A k \in Keys \ {"personal"} : local'[k] = local[k]
         /\ \A u : Persisted([pin |-> u]) =>
              local'["pin"] = u /\ \A k \in Keys \ {"pin"} : local'[k] = local[k]
BY DEF Persisted, Empty, Keys

-----------------------------------------------------------------------------
(* Types *)

LEMMA TypeParts == Typed /\ Counted => TypeOK
BY DEF TypeOK, Typed, Counted, Values

\* A step spends of one bound, while it is not used up, or of none.
LEMMA CountedNext == Counted /\ [Next]_vars => Counted'
<1> SUFFICES ASSUME Counted, [Next]_vars PROVE Counted'
  OBVIOUS
<1>1. MaxSignIns \in Nat /\ MaxRequests \in Nat /\ MaxRestarts \in Nat /\ MaxFailures \in Nat
  BY SessionAssumption DEF Bounds
<1>2. \/ count' = count
      \/ count.signIns < MaxSignIns /\ Spend("signIns")
      \/ count.requests < MaxRequests /\ Spend("requests")
      \/ count.restarts < MaxRestarts /\ Spend("restarts")
      \/ count.failures < MaxFailures /\ Spend("failures")
  <2>1. ASSUME NEW key \in Keys, Mirror(key)
        PROVE  count' = count \/ (count.failures < MaxFailures /\ Spend("failures"))
    BY <2>1 DEF Mirror
  <2>2. ASSUME NEW user \in Users, SubmitLogin(user) \/ SubmitRegistration(user)
        PROVE  count.signIns < MaxSignIns /\ Spend("signIns")
    BY <2>2 DEF SubmitLogin, SubmitRegistration, Submit
  <2>3. ASSUME NEW job \in jobs,
               Refused(job) \/ Accepted(job) \/ Listed(job) \/ Unlisted(job) \/ Dropped(job)
                 \/ Continued(job) \/ Refreshed(job) \/ ProfileSaved(job) \/ LoggedOut(job)
        PROVE  count' = count
    BY <2>3 DEF Refused, Accepted, Listed, Unlisted, Dropped, Continued, Refreshed, ProfileSaved,
                LoggedOut
  <2>4. ASSUME ConfigurePin \/ Unlock \/ UseAnotherAccount PROVE count' = count
    BY <2>4 DEF ConfigurePin, Unlock, UseAnotherAccount
  <2>5. ASSUME CreateWorkspace \/ JoinWorkspace \/ AcceptInvitation \/ ChangeMember
                 \/ DeleteWorkspace \/ SaveProfile \/ ChangeCurrency \/ LogOut \/ LogOutAll
                 \/ ChooseWorkspace
        PROVE  count.requests < MaxRequests /\ Spend("requests")
    BY <2>5 DEF CreateWorkspace, JoinWorkspace, AcceptInvitation, ChangeMember, DeleteWorkspace,
                SaveProfile, ChangeCurrency, LogOut, LogOutAll, ChooseWorkspace, Ask
  <2> QED
    BY <2>1, <2>2, <2>3, <2>4, <2>5 DEF Next, vars, Restart
<1> QED
  BY <1>1, <1>2 DEF Counted, Spend

\* What a restored device starts with.
LEMMA StartedType == ASSUME NEW s \in Storage PROVE Started(s) \in App
<1>1. s.pin \in Values /\ s.user \in Values /\ s.personal \in Values /\ Restorable(s) \in BOOLEAN
  BY DEF Storage, Keys, Values, Restorable
<1> QED
  BY <1>1 DEF Started, App, Values

\* A render adds at most a request for the workspaces.
LEMMA RenderedType ==
  ASSUME NEW next \in App, NEW token \in Values, NEW waiting \in SUBSET Job,
         Rendered(next, token, waiting)
  PROVE  /\ app' \in App /\ bearer' = token /\ jobs' \subseteq Job
         /\ app' = [next EXCEPT !.fresh = app'.fresh]
         /\ \A j \in jobs' : j \in waiting \/ j.kind = "refresh"
         /\ waiting \subseteq jobs'
         /\ next.access /= "unlocked" => jobs' = waiting
<1>1. [kind |-> "refresh", user |-> token, keep |-> FALSE] \in Job
  BY DEF Job, Values
<1>2. [next EXCEPT !.fresh = FALSE] \in App /\ next = [next EXCEPT !.fresh = next.fresh]
  BY DEF App
<1>3. CASE next.auth /\ next.access = "unlocked" /\ next.fresh
  <2>1. app' = [next EXCEPT !.fresh = FALSE] /\ bearer' = token
    BY <1>3 DEF Rendered
  <2>2. jobs' = waiting \cup {[kind |-> "refresh", user |-> token, keep |-> FALSE]}
    BY <1>3 DEF Rendered
  <2>3. app'.fresh = FALSE
    BY <2>1 DEF App
  <2>4. app' = [next EXCEPT !.fresh = app'.fresh]
    BY <2>1, <2>3
  <2>5. \A j \in jobs' : j \in waiting \/ j.kind = "refresh"
    BY <2>2
  <2>6. app' \in App /\ jobs' \subseteq Job
    BY <1>1, <1>2, <2>1, <2>2
  <2> QED
    BY <1>3, <2>1, <2>2, <2>4, <2>5, <2>6
<1>4. CASE ~(next.auth /\ next.access = "unlocked" /\ next.fresh)
  <2>1. app' = next /\ bearer' = token /\ jobs' = waiting
    BY <1>4 DEF Rendered
  <2> QED
    BY <1>2, <2>1
<1> QED
  BY <1>3, <1>4

LEMMA SignedOutType ==
  ASSUME Typed, NEW rest \in SUBSET Job, SignedOut(rest)
  PROVE  /\ app' \in App /\ bearer' = None /\ jobs' = rest /\ intent' = None
         /\ ~app'.auth /\ Persisted(Empty)
BY DEF SignedOut, Typed, App

LEMMA TypeInit == Init => Typed
<1> SUFFICES ASSUME Init PROVE Typed
  OBVIOUS
<1>1. Empty \in Storage
  BY DEF Empty, Storage
<1>2. app \in App
  BY <1>1, StartedType DEF Init
<1>3. queue \in [Keys -> Seq(Values)] /\ \A k \in Keys : queue[k] = <<>>
  BY DEF Init, NoQueue
<1> QED
  BY <1>1, <1>2, <1>3 DEF Init, Typed, Values

\* The mirror: a mutation leaves its queue, and a PIN that waited for it is set.
LEMMA MirrorType ==
  ASSUME Typed, NEW key \in Keys, Mirror(key)
  PROVE  Typed'
<1>1. PICK i \in Due(queue[key]) :
        /\ queue' = [queue EXCEPT ![key] = RemoveAt(@, i)]
        /\ \/ native' = [native EXCEPT ![key] = queue[key][i]] /\ UNCHANGED <<torn, count>>
           \/ /\ count.failures < MaxFailures /\ Spend("failures")
              /\ torn' = TRUE /\ UNCHANGED native
  BY DEF Mirror
<1>2. i = 1 /\ queue[key] \in Seq(Values) /\ queue[key] /= <<>>
  BY DEF Due, Typed, Mirror
<1>3. queue[key][1] \in Values
  BY <1>2
<1>4. RemoveAt(queue[key], 1) \in Seq(Values)
  BY <1>2, FirstRemoved
<1>5. queue' \in [Keys -> Seq(Values)] /\ native' \in Storage /\ torn' \in BOOLEAN /\ android
  BY <1>1, <1>2, <1>3, <1>4 DEF Typed, Storage, Values
<1>6. /\ android' = android /\ local' = local /\ accounts' = accounts /\ intent' = intent
      /\ late' = late
  BY DEF Mirror
<1>7. /\ app' \in App /\ bearer' \in Values /\ jobs' \subseteq Job
      /\ \A j \in jobs' : j \in jobs \/ j.kind = "refresh"
  <2>1. CASE UNCHANGED <<app, bearer, jobs>>
    BY <2>1 DEF Typed
  <2>2. CASE /\ app.saving /= <<>> /\ app.saving.left > 1
             /\ app' = [app EXCEPT !.saving.left = @ - 1] /\ UNCHANGED <<bearer, jobs>>
    <3>1. app.saving \in [user : Users, left : Nat \ {0}]
      BY <2>2 DEF Typed, App
    <3>2. [app.saving EXCEPT !.left = @ - 1] \in [user : Users, left : Nat \ {0}]
      BY <2>2, <3>1
    <3>3. app' = [app EXCEPT !.saving = [app.saving EXCEPT !.left = @ - 1]]
      BY <2>2
    <3> QED
      BY ZenonT(30), <2>2, <3>2, <3>3 DEF Typed, App
  <2>3. CASE /\ app.saving /= <<>>
             /\ Rendered([app EXCEPT !.pin = app.saving.user, !.access = "unlocked",
                                     !.saving = <<>>], bearer, jobs)
    <3>1. app.saving.user \in Users
      BY <2>3 DEF Typed, App
    <3>2. [app EXCEPT !.pin = app.saving.user, !.access = "unlocked", !.saving = <<>>] \in App
      BY <3>1 DEF Typed, App
    <3> QED
      BY <2>3, <3>2, RenderedType DEF Typed
  <2> QED
    BY <2>1, <2>2, <2>3 DEF Mirror, Resumed
<1>8. \A j \in jobs' : j.kind \in SignIns \cup {"list"} => j.user \in Users
  BY <1>7 DEF Typed, SignIns
<1> QED
  BY <1>5, <1>6, <1>7, <1>8 DEF Typed

LEMMA RestartType == ASSUME Typed, Restart PROVE Typed'
<1>1. PICK read : Hydrated(read) /\ read \in IF android THEN SUBSET Keys ELSE {{}}
  BY DEF Restart
<1>2. local' \in Storage /\ queue' \in [Keys -> Seq(Values)]
  <2>1. ASSUME NEW k \in Keys PROVE local[k] \in Values /\ native[k] \in Values
    BY DEF Typed, Storage, Values
  <2>2. ASSUME NEW k \in Keys PROVE <<local[k]>> \in Seq(Values) /\ <<>> \in Seq(Values)
    BY <2>1
  <2> QED
    BY <1>1, <2>1, <2>2 DEF Hydrated, Storage, Values
<1>3. ~android => \A k \in Keys : queue'[k] = <<>>
  BY <1>1 DEF Hydrated
<1>4. Started(local') \in App
  BY <1>2, StartedType
<1>5. local'.token \in Values
  BY <1>2 DEF Storage, Keys, Values
<1> QED
  BY <1>2, <1>3, <1>4, <1>5 DEF Restart, Typed, Values

-----------------------------------------------------------------------------
(* The steps keep the invariant *)

\* Requests that come and go, none of them for the workspaces of a sign-in, touch
\* nothing; behind a closed gate there are none.
LEMMA JobsChange ==
  ASSUME DeviceInv, accounts' \subseteq Users, jobs' \subseteq Job,
         \A j : j.kind = "list" => (j \in jobs' <=> j \in jobs),
         \A j \in jobs' : j.kind \in SignIns => j.user \in Users,
         app.auth /\ app.access = "locked" /\ jobs = {} => jobs' = {},
         UNCHANGED <<android, local, native, queue, app, bearer, intent, torn, late>>
  PROVE  DeviceInv'
<1>1. Typed'
  <2>1. \A j \in jobs' : j.kind \in SignIns \cup {"list"} => j.user \in Users
    BY DEF DeviceInv, Typed, SignIns
  <2> QED
    BY <2>1 DEF DeviceInv, Typed
<1>2. ASSUME ~torn' PROVE Synced' /\ Owned' /\ Held'
  BY <1>2 DEF DeviceInv, Synced, Owned, Held
<1>3. ASSUME ~torn', ~late' PROVE Single'
  <2>1. Waiting({"list"})' = Waiting({"list"})
    BY DEF Waiting
  <2> QED
    BY <1>3, <2>1 DEF DeviceInv, Single
<1> QED
  BY <1>1, <1>2, <1>3 DEF DeviceInv

LEMMA SubmitStep ==
  ASSUME DeviceInv, NEW user \in Users, SubmitLogin(user) \/ SubmitRegistration(user)
  PROVE  DeviceInv'
<1>1. PICK kind \in SignIns, keep \in BOOLEAN : Submit(kind, user, keep)
  BY DEF SubmitLogin, SubmitRegistration, SignIns
<1>2. /\ jobs' = jobs \cup {[kind |-> kind, user |-> user, keep |-> keep]} /\ ~app.auth
      /\ UNCHANGED <<android, local, native, queue, app, bearer, accounts, intent, torn, late>>
  BY <1>1 DEF Submit, Asked
<1>3. [kind |-> kind, user |-> user, keep |-> keep] \in Job /\ kind /= "list"
  BY DEF Job, SignIns
<1>4. /\ jobs' \subseteq Job /\ accounts' \subseteq Users
      /\ \A j \in jobs' : j.kind \in SignIns => j.user \in Users
  BY <1>2, <1>3 DEF DeviceInv, Typed
<1> QED
  BY <1>2, <1>3, <1>4, JobsChange

LEMMA AskStep == ASSUME DeviceInv, NEW kind \in Kinds, Ask(kind) PROVE DeviceInv'
<1>1. /\ jobs' = jobs \cup {[kind |-> kind, user |-> bearer, keep |-> FALSE]}
      /\ app.access = "unlocked"
      /\ UNCHANGED <<android, local, native, queue, app, bearer, accounts, intent, torn, late>>
  BY DEF Ask, Asked
<1>2. [kind |-> kind, user |-> bearer, keep |-> FALSE] \in Job /\ kind \notin SignIns \cup {"list"}
  BY DEF Job, Kinds, Refreshing, Profiling, DeviceInv, Typed, Values, SignIns
<1>3. jobs' \subseteq Job /\ accounts' \subseteq Users
  BY <1>1, <1>2 DEF DeviceInv, Typed
<1>4. \A j \in jobs' : j.kind \in SignIns => j.user \in Users
  BY <1>1, <1>2 DEF DeviceInv, Typed
<1> QED
  BY <1>1, <1>2, <1>3, <1>4, JobsChange

LEMMA GoneStep ==
  ASSUME DeviceInv, NEW job \in jobs, Refused(job) \/ Dropped(job) \/ Continued(job)
  PROVE  DeviceInv'
<1>1. job \in Job /\ bearer \in Values
  BY DEF DeviceInv, Typed
<1>2. CASE Refused(job)
  <2>1. job.kind /= "list" /\ jobs' = jobs \ {job}
    BY <1>2 DEF Refused, SignIns
  <2>2. accounts' \subseteq Users
    BY <1>2 DEF Refused, DeviceInv, Typed
  <2> QED
    BY <1>1, <1>2, <2>1, <2>2, JobsChange DEF Refused, DeviceInv, Typed
<1>3. CASE Dropped(job)
  <2>1. job.kind /= "list" /\ jobs' = jobs \ {job} /\ accounts' = accounts
    BY <1>3 DEF Dropped, Kinds, Refreshing, Profiling
  <2> QED
    BY <1>1, <1>3, <2>1, JobsChange DEF Dropped, DeviceInv, Typed
<1>4. CASE Continued(job)
  <2> DEFINE next == [kind |-> IF job.kind = "delete" THEN "deleted" ELSE "refresh",
                      user |-> bearer, keep |-> FALSE]
  <2>1. job.kind /= "list" /\ accounts' = accounts
    BY <1>4 DEF Continued, Refreshing
  <2>2. jobs' = (jobs \ {job}) \cup {next}
    BY <1>4 DEF Continued
  <2>3. next \in Job /\ next.kind \notin SignIns \cup {"list"}
    BY <1>1 DEF Job, Values, SignIns
  <2> HIDE DEF next
  <2> QED
    BY <1>1, <1>4, <2>1, <2>2, <2>3, JobsChange DEF Continued, DeviceInv, Typed
<1> QED
  BY <1>2, <1>3, <1>4

LEMMA AcceptedStep == ASSUME DeviceInv, NEW job \in jobs, Accepted(job) PROVE DeviceInv'
<1> DEFINE list == [job EXCEPT !.kind = "list"]
<1>1. /\ job \in Job /\ job.kind \in SignIns /\ job.user \in Users
      /\ accounts' = accounts \cup {job.user} /\ bearer' = job.user
      /\ jobs' = (jobs \ {job}) \cup {list} /\ late' = (late \/ Overlaps(job))
      /\ UNCHANGED <<android, local, native, queue, app, intent, torn>>
  BY DEF Accepted, DeviceInv, Typed
<1>2. list \in Job /\ list.kind = "list" /\ list.user = job.user
  BY <1>1 DEF Job
<1>3. late' \in BOOLEAN /\ (~late' => ~late /\ ~app.auth /\ \A j \in jobs \ {job} : j.kind /= "list")
  BY <1>1 DEF Overlaps, DeviceInv, Typed, App
<1> HIDE DEF list
<1>4. Typed'
  <2>1. \A j \in jobs' : j.kind \in SignIns \cup {"list"} => j.user \in Users
    BY <1>1, <1>2 DEF DeviceInv, Typed
  <2>2. jobs' \subseteq Job /\ accounts' \subseteq Users /\ bearer' \in Values
    BY <1>1, <1>2 DEF DeviceInv, Typed, Values
  <2> QED
    BY <1>1, <1>3, <2>1, <2>2 DEF DeviceInv, Typed
<1>5. ASSUME ~torn' PROVE Synced' /\ Owned' /\ Held'
  <2>1. jobs /= {}
    OBVIOUS
  <2> QED
    BY <1>1, <1>5, <2>1 DEF DeviceInv, Synced, Owned, Held
<1>6. ASSUME ~torn', ~late' PROVE Single'
  <2>1. Waiting({"list"})' = {list}
    BY <1>1, <1>2, <1>3, <1>6 DEF Waiting, SignIns
  <2> QED
    BY <1>1, <1>2, <1>3, <1>6, <2>1 DEF DeviceInv, Single
<1> QED
  BY <1>4, <1>5, <1>6 DEF DeviceInv

\* A sign-in that is listed takes over the application and the storage.
LEMMA ListedStep == ASSUME DeviceInv, NEW job \in jobs, Listed(job) PROVE DeviceInv'
<1> DEFINE pin == IF job.keep THEN KeptPin(job.user) ELSE None
           stored == [k \in Keys |-> IF k = "personal" THEN job.user
                                     ELSE Forgetting(job.keep, job.user, pin)[k]]
           next == [app EXCEPT !.auth = TRUE, !.user = job.user, !.shown = job.user, !.pin = pin,
                               !.access = IF job.keep /\ pin = None THEN "setup" ELSE "unlocked"]
           token == IF job.keep THEN job.user ELSE None
<1>1. /\ job \in Job /\ job.kind = "list" /\ job.user \in Users /\ job.keep \in BOOLEAN
      /\ Persisted(stored) /\ Rendered(next, bearer, jobs \ {job})
      /\ intent' = token
      /\ UNCHANGED <<android, native, accounts, torn, late>>
  BY DEF Listed, DeviceInv, Typed, Job
<1>2. pin \in Values /\ token \in Values
  BY <1>1 DEF KeptPin, DeviceInv, Typed, Storage, Keys, Values
<1>3. /\ stored["token"] = token /\ stored["user"] = token /\ stored["remember"] = token
      /\ stored["pin"] = pin /\ stored["personal"] = job.user /\ DOMAIN stored = Keys
  BY <1>1 DEF Forgetting, Remembered, Forgotten, Keys
<1>4. Writes(stored)
  <2>1. \A k \in Keys : stored[k] \in Values
    BY <1>1, <1>2, <1>3 DEF Keys, Values
  <2> QED
    BY <1>3, <2>1 DEF Writes
<1>5. next \in App
  BY ZenonT(30), <1>1, <1>2 DEF DeviceInv, Typed, App, Values
<1>6. /\ next.auth /\ next.user = job.user /\ next.shown = job.user
      /\ next.access \in {"setup", "unlocked"} /\ (next.access = "setup" => job.keep)
  BY <1>1 DEF DeviceInv, Typed, App
<1>7. ~torn => pin \in {None, token}
  BY <1>1 DEF KeptPin, DeviceInv, Owned
<1> HIDE DEF stored, next
<1>8. local' \in Storage /\ \A k \in Keys : local'[k] = stored[k]
  BY <1>1, <1>3, <1>4, PersistedType DEF DeviceInv, Persisted
<1>9. /\ app' \in App /\ bearer' = bearer /\ jobs' \subseteq Job
      /\ app'.auth /\ app'.user = job.user /\ app'.shown = job.user
      /\ app'.access \in {"setup", "unlocked"} /\ (app'.access = "setup" => job.keep)
      /\ \A j \in jobs' : j \in jobs \ {job} \/ j.kind = "refresh"
      /\ jobs \ {job} \subseteq jobs'
  <2>1. bearer \in Values /\ jobs \ {job} \in SUBSET Job
    BY DEF DeviceInv, Typed
  <2>2. /\ app' \in App /\ bearer' = bearer /\ jobs' \subseteq Job
        /\ app' = [next EXCEPT !.fresh = app'.fresh]
        /\ \A j \in jobs' : j \in jobs \ {job} \/ j.kind = "refresh"
        /\ jobs \ {job} \subseteq jobs'
    BY <1>1, <1>5, <2>1, RenderedType
  <2>3. app'.auth = next.auth /\ app'.user = next.user /\ app'.shown = next.shown
        /\ app'.access = next.access
    BY <1>5, <2>2 DEF App
  <2> QED
    BY <1>6, <2>2, <2>3
<1>10. Typed'
  <2>1. \A j \in jobs' : j.kind \in SignIns \cup {"list"} => j.user \in Users
    BY <1>9 DEF DeviceInv, Typed, SignIns
  <2>2. queue' \in [Keys -> Seq(Values)] /\ (~android => \A k \in Keys : queue'[k] = <<>>)
    BY <1>1, <1>4, PersistedType DEF DeviceInv
  <2> QED
    BY <1>1, <1>2, <1>8, <1>9, <2>1, <2>2 DEF DeviceInv, Typed
<1>11. ASSUME ~torn' PROVE Synced' /\ Owned' /\ Held'
  <2>1. Synced'
    BY <1>1, <1>4, <1>11, PersistedSynced DEF DeviceInv
  <2>2. Owned'
    BY <1>1, <1>3, <1>7, <1>8, <1>11 DEF Owned, Keys
  <2>3. Held'
    BY <1>1, <1>3, <1>8, <1>9 DEF Held, Keys
  <2> QED
    BY <2>1, <2>2, <2>3
<1>12. ASSUME ~torn', ~late' PROVE Single'
  <2>1. bearer = job.user /\ Waiting({"list"}) = {job}
    BY <1>1, <1>12 DEF DeviceInv, Single, Waiting
  <2>2. Waiting({"list"})' = {}
    BY <1>9, <2>1 DEF Waiting
  <2>3. local'["token"] = token /\ local'["personal"] = job.user
    BY <1>3, <1>8 DEF Keys
  <2> QED
    BY <1>9, <2>1, <2>2, <2>3 DEF Single
<1> QED
  BY <1>10, <1>11, <1>12 DEF DeviceInv

\* Signing out empties the local storage.
LEMMA SignedOutStep ==
  ASSUME DeviceInv, NEW rest \in SUBSET jobs, SignedOut(rest),
         UNCHANGED <<android, native, accounts, torn>>,
         late' \in BOOLEAN, late => late',
         ~torn /\ ~late' => \A j \in rest : j.kind /= "list"
  PROVE  DeviceInv'
<1>1. /\ app' \in App /\ bearer' = None /\ jobs' = rest /\ intent' = None
      /\ ~app'.auth /\ Persisted(Empty)
  <2>1. rest \in SUBSET Job
    BY DEF DeviceInv, Typed
  <2> QED
    BY <2>1, SignedOutType DEF DeviceInv
<1>2. /\ local' \in Storage /\ queue' \in [Keys -> Seq(Values)]
      /\ ~android => \A k \in Keys : queue'[k] = <<>>
      /\ \A k \in Keys : local'[k] = None
  BY <1>1, EmptyWrites, PersistedType, PersistedValues DEF DeviceInv
<1>3. Typed'
  <2>1. \A j \in jobs' : j.kind \in SignIns \cup {"list"} => j.user \in Users
    BY <1>1 DEF DeviceInv, Typed
  <2>2. jobs' \subseteq Job
    BY <1>1 DEF DeviceInv, Typed
  <2> QED
    BY <1>1, <1>2, <2>1, <2>2 DEF DeviceInv, Typed, Values
<1>4. ASSUME ~torn' PROVE Synced' /\ Owned' /\ Held'
  <2>1. Synced'
    BY <1>1, <1>4, EmptyWrites, PersistedSynced DEF DeviceInv
  <2>2. Owned' /\ Held'
    BY <1>1, <1>2 DEF Owned, Held, Keys
  <2> QED
    BY <2>1, <2>2
<1>5. ASSUME ~torn', ~late' PROVE Single'
  <2>1. Waiting({"list"})' = {}
    BY <1>1, <1>5 DEF Waiting
  <2> QED
    BY <1>1, <1>2, <2>1 DEF Single, Keys
<1> QED
  BY <1>3, <1>4, <1>5 DEF DeviceInv

LEMMA LeavingStep ==
  ASSUME DeviceInv,
         UseAnotherAccount \/ \E job \in jobs : Unlisted(job) \/ LoggedOut(job)
  PROVE  DeviceInv'
<1>1. late \in BOOLEAN
  BY DEF DeviceInv, Typed
<1>2. CASE UseAnotherAccount
  <2>1. ~torn /\ ~late => \A j \in jobs : j.kind /= "list"
    BY <1>2 DEF UseAnotherAccount, Gated, DeviceInv, Single, Waiting
  <2> QED
    BY <1>1, <1>2, <2>1, SignedOutStep DEF UseAnotherAccount
<1>3. ASSUME NEW job \in jobs, Unlisted(job) PROVE DeviceInv'
  <2>1. ~torn /\ ~late => \A j \in jobs \ {job} : j.kind /= "list"
    BY <1>3 DEF Unlisted, DeviceInv, Single, Waiting
  <2> QED
    BY <1>1, <1>3, <2>1, SignedOutStep DEF Unlisted
<1>4. ASSUME NEW job \in jobs, LoggedOut(job) PROVE DeviceInv'
  <2>1. late' \in BOOLEAN /\ (late => late') /\ (~late' => ~late /\ app.auth)
    BY <1>1, <1>4 DEF LoggedOut, Strays, DeviceInv, Typed, App
  <2>2. ~torn /\ ~late' => \A j \in jobs \ {job} : j.kind /= "list"
    BY <2>1 DEF DeviceInv, Single, Waiting
  <2> QED
    BY <1>4, <2>1, <2>2, SignedOutStep DEF LoggedOut
<1> QED
  BY <1>2, <1>3, <1>4

\* The name, profile or workspace of an account is stored, and listed perhaps.
LEMMA PersonalStep ==
  ASSUME DeviceInv, NEW u \in Users, Persisted([personal |-> u]),
         app' = app \/ app' = [app EXCEPT !.shown = u], jobs' \subseteq jobs,
         UNCHANGED <<android, native, bearer, accounts, intent, torn>>,
         late' \in BOOLEAN, late => late',
         ~torn /\ ~late' => app.auth /\ u = app.user
  PROVE  DeviceInv'
<1>1. Writes([personal |-> u])
  BY EmptyWrites DEF Values
<1>2. /\ local' \in Storage /\ queue' \in [Keys -> Seq(Values)]
      /\ ~android => \A k \in Keys : queue'[k] = <<>>
      /\ local'["personal"] = u /\ \A k \in Keys \ {"personal"} : local'[k] = local[k]
  BY <1>1, PersistedType, PersistedValues DEF DeviceInv
<1>3. /\ app' \in App /\ app'.auth = app.auth /\ app'.user = app.user /\ app'.access = app.access
      /\ app'.pin = app.pin /\ app'.shown \in {app.shown, u}
  BY DEF DeviceInv, Typed, App
<1>4. Typed'
  <2>1. jobs' \subseteq Job /\ \A j \in jobs' : j.kind \in SignIns \cup {"list"} => j.user \in Users
    BY DEF DeviceInv, Typed
  <2> QED
    BY <1>2, <1>3, <2>1 DEF DeviceInv, Typed
<1>5. ASSUME ~torn' PROVE Synced' /\ Owned' /\ Held'
  <2>1. Synced'
    BY <1>1, <1>5, PersistedSynced DEF DeviceInv
  <2>2. Owned' /\ Held'
    BY ZenonT(60), <1>2, <1>3, <1>5 DEF DeviceInv, Owned, Held, Keys
  <2> QED
    BY <2>1, <2>2
<1>6. ASSUME ~torn', ~late' PROVE Single'
  <2>1. app.auth /\ u = app.user /\ Single
    BY <1>6 DEF DeviceInv
  <2>2. Waiting({"list"})' \subseteq Waiting({"list"})
    BY DEF Waiting
  <2> QED
    BY <1>2, <1>3, <2>1, <2>2 DEF Single, Keys
<1> QED
  BY <1>4, <1>5, <1>6 DEF DeviceInv

LEMMA AnsweredStep ==
  ASSUME DeviceInv,
         ChooseWorkspace \/ \E job \in jobs : Refreshed(job) \/ ProfileSaved(job)
  PROVE  DeviceInv'
<1>1. late \in BOOLEAN
  BY DEF DeviceInv, Typed
<1>2. CASE ChooseWorkspace
  <2>1. app.shown \in Users /\ app.auth
    BY <1>2 DEF ChooseWorkspace, DeviceInv, Typed, App
  <2>2. ~torn /\ ~late' => app.shown = app.user
    BY <1>2, <2>1 DEF ChooseWorkspace, DeviceInv, Single
  <2> QED
    BY <1>1, <1>2, <2>1, <2>2, PersonalStep DEF ChooseWorkspace
<1>3. ASSUME NEW job \in jobs, Refreshed(job) \/ ProfileSaved(job) PROVE DeviceInv'
  <2>1. job.user \in Users
    BY <1>3 DEF Refreshed, ProfileSaved, DeviceInv, Typed, Job
  <2>2. late' = (late \/ Strays(job)) /\ Strays(job) \in BOOLEAN
    BY <1>3 DEF Refreshed, ProfileSaved, Strays, DeviceInv, Typed, App
  <2>3. late' \in BOOLEAN /\ (late => late') /\ (~late' => app.auth /\ job.user = app.user)
    BY <1>1, <2>2 DEF Strays
  <2>4. /\ Persisted([personal |-> job.user]) /\ jobs' \subseteq jobs
        /\ app' = app \/ app' = [app EXCEPT !.shown = job.user]
        /\ UNCHANGED <<android, native, bearer, accounts, intent, torn>>
    BY <1>3 DEF Refreshed, ProfileSaved
  <2> QED
    BY <2>1, <2>3, <2>4, PersonalStep
<1> QED
  BY <1>2, <1>3

\* The gate opens: nothing else of the account changes.
LEMMA GateOpened ==
  ASSUME Typed, NEW next \in App, next.access = "unlocked", next.auth = app.auth,
         next.user = app.user, next.shown = app.shown, Rendered(next, bearer, jobs)
  PROVE  /\ app' \in App /\ bearer' = bearer /\ jobs' \subseteq Job
         /\ app'.auth = app.auth /\ app'.user = app.user /\ app'.shown = app.shown
         /\ app'.access = "unlocked"
         /\ \A j \in jobs' : j.kind \in SignIns \cup {"list"} => j.user \in Users
         /\ Waiting({"list"})' = Waiting({"list"})
<1>1. bearer \in Values /\ jobs \in SUBSET Job
  BY DEF Typed
<1>2. /\ app' \in App /\ bearer' = bearer /\ jobs' \subseteq Job
      /\ app' = [next EXCEPT !.fresh = app'.fresh]
      /\ \A j \in jobs' : j \in jobs \/ j.kind = "refresh"
      /\ jobs \subseteq jobs'
  BY <1>1, RenderedType
<1>3. /\ app'.auth = next.auth /\ app'.user = next.user /\ app'.shown = next.shown
      /\ app'.access = next.access
  BY <1>2 DEF App
<1>4. \A j \in jobs' : j.kind \in SignIns \cup {"list"} => j.user \in Users
  BY <1>2 DEF Typed, SignIns
<1>5. Waiting({"list"})' = Waiting({"list"})
  BY <1>2 DEF Waiting
<1> QED
  BY <1>2, <1>3, <1>4, <1>5

LEMMA UnlockStep == ASSUME DeviceInv, Unlock PROVE DeviceInv'
<1> DEFINE next == [app EXCEPT !.access = "unlocked"]
<1>1. /\ Rendered(next, bearer, jobs)
      /\ UNCHANGED <<android, local, native, queue, accounts, intent, torn, late>>
  BY DEF Unlock
<1>2. /\ next \in App /\ next.access = "unlocked" /\ next.auth = app.auth
      /\ next.user = app.user /\ next.shown = app.shown
  BY DEF DeviceInv, Typed, App
<1> HIDE DEF next
<1>3. /\ app' \in App /\ bearer' = bearer /\ jobs' \subseteq Job
      /\ app'.auth = app.auth /\ app'.user = app.user /\ app'.shown = app.shown
      /\ app'.access = "unlocked"
      /\ \A j \in jobs' : j.kind \in SignIns \cup {"list"} => j.user \in Users
      /\ Waiting({"list"})' = Waiting({"list"})
  BY <1>1, <1>2, GateOpened DEF DeviceInv
<1>4. Typed'
  BY <1>1, <1>3 DEF DeviceInv, Typed
<1>5. ASSUME ~torn' PROVE Synced' /\ Owned' /\ Held'
  BY <1>1, <1>3, <1>5 DEF DeviceInv, Synced, Owned, Held
<1>6. ASSUME ~torn', ~late' PROVE Single'
  BY <1>1, <1>3, <1>6 DEF DeviceInv, Single
<1> QED
  BY <1>4, <1>5, <1>6 DEF DeviceInv

LEMMA ConfigureStep == ASSUME DeviceInv, ConfigurePin PROVE DeviceInv'
<1> DEFINE next == [app EXCEPT !.pin = app.user, !.access = "unlocked"]
<1>1. /\ app.auth /\ app.access = "setup" /\ app.user \in Users
      /\ Persisted([pin |-> app.user])
      /\ UNCHANGED <<android, native, accounts, intent, torn, late>>
  BY DEF ConfigurePin, Gated, DeviceInv, Typed, App
<1>2. Writes([pin |-> app.user])
  BY <1>1, EmptyWrites DEF Values
<1>3. /\ local' \in Storage /\ queue' \in [Keys -> Seq(Values)]
      /\ ~android => \A k \in Keys : queue'[k] = <<>>
      /\ local'["pin"] = app.user /\ \A k \in Keys \ {"pin"} : local'[k] = local[k]
  BY <1>1, <1>2, PersistedType, PersistedValues DEF DeviceInv
<1>4. /\ app' \in App /\ bearer' = bearer /\ jobs' \subseteq Job
      /\ app'.auth = app.auth /\ app'.user = app.user /\ app'.shown = app.shown
      /\ app'.access \in {"setup", "unlocked"}
      /\ \A j \in jobs' : j.kind \in SignIns \cup {"list"} => j.user \in Users
      /\ Waiting({"list"})' = Waiting({"list"})
  <2>1. CASE android
    <3> DEFINE saving == [user |-> app.user, left |-> Len(queue.pin) + 1]
    <3>1. app' = [app EXCEPT !.saving = saving] /\ bearer' = bearer /\ jobs' = jobs
      BY <2>1 DEF ConfigurePin
    <3>2. saving \in [user : Users, left : Nat \ {0}]
      BY <1>1 DEF DeviceInv, Typed, Keys
    <3> HIDE DEF saving
    <3>3. app' \in App /\ app'.auth = app.auth /\ app'.user = app.user /\ app'.shown = app.shown
          /\ app'.access = app.access
      BY <3>1, <3>2 DEF DeviceInv, Typed, App
    <3> QED
      BY <1>1, <3>1, <3>3 DEF DeviceInv, Typed, Waiting
  <2>2. CASE ~android
    <3>1. Rendered(next, bearer, jobs)
      BY <2>2 DEF ConfigurePin
    <3>2. /\ next \in App /\ next.access = "unlocked" /\ next.auth = app.auth
          /\ next.user = app.user /\ next.shown = app.shown
      BY <1>1 DEF DeviceInv, Typed, App
    <3> HIDE DEF next
    <3> QED
      BY <3>1, <3>2, GateOpened DEF DeviceInv
  <2> QED
    BY <2>1, <2>2
<1>5. Typed'
  BY <1>1, <1>3, <1>4 DEF DeviceInv, Typed
<1>6. ASSUME ~torn' PROVE Synced' /\ Owned' /\ Held'
  <2>1. Synced'
    BY <1>1, <1>2, <1>6, PersistedSynced DEF DeviceInv
  <2>2. Owned' /\ Held'
    BY <1>1, <1>3, <1>4, <1>6 DEF DeviceInv, Owned, Held, Keys
  <2> QED
    BY <2>1, <2>2
<1>7. ASSUME ~torn', ~late' PROVE Single'
  BY <1>1, <1>3, <1>4, <1>7 DEF DeviceInv, Single, Keys
<1> QED
  BY <1>5, <1>6, <1>7 DEF DeviceInv

\* The mutation that is through was the first of its queue; if it was the last, it
\* left the native preferences with the local value.
LEMMA MirrorSynced ==
  ASSUME Typed, Synced, NEW key \in Keys, Mirror(key), ~torn'
  PROVE  Synced'
<1>1. PICK i \in Due(queue[key]) :
        /\ queue' = [queue EXCEPT ![key] = RemoveAt(@, i)]
        /\ \/ native' = [native EXCEPT ![key] = queue[key][i]] /\ UNCHANGED <<torn, count>>
           \/ /\ count.failures < MaxFailures /\ Spend("failures")
              /\ torn' = TRUE /\ UNCHANGED native
  BY DEF Mirror
<1>2. i = 1 /\ queue[key] \in Seq(Values) /\ queue[key] /= <<>> /\ android
  BY DEF Due, Typed, Mirror
<1>3. /\ queue' = [queue EXCEPT ![key] = RemoveAt(@, 1)]
      /\ native' = [native EXCEPT ![key] = queue[key][1]]
      /\ local' = local /\ android' = android
  BY <1>1, <1>2 DEF Mirror
<1>4. /\ queue'[key] = RemoveAt(queue[key], 1) /\ native'[key] = queue[key][1]
      /\ \A k \in Keys \ {key} : queue'[k] = queue[k] /\ native'[k] = native[k]
  BY <1>3 DEF Typed, Storage
<1>5. /\ RemoveAt(queue[key], 1) \in Seq(Values)
      /\ Len(RemoveAt(queue[key], 1)) = Len(queue[key]) - 1
      /\ \A j \in 1 .. Len(queue[key]) - 1 : RemoveAt(queue[key], 1)[j] = queue[key][j + 1]
  BY <1>2, FirstRemoved
<1>6. queue[key][Len(queue[key])] = local[key]
  BY <1>2 DEF Synced
<1>7. IF queue'[key] = <<>> THEN native'[key] = local[key]
      ELSE queue'[key][Len(queue'[key])] = local[key]
  <2>1. CASE Len(queue[key]) = 1
    <3>1. RemoveAt(queue[key], 1) = <<>>
      BY <1>5, <2>1
    <3> QED
      BY <1>4, <1>6, <2>1, <3>1
  <2>2. CASE Len(queue[key]) /= 1
    <3>1. Len(queue[key]) \in Nat /\ Len(queue[key]) > 1
      <4>1. Len(queue[key]) \in Nat /\ Len(RemoveAt(queue[key], 1)) \in Nat
        BY <1>2, <1>5, LenProperties
      <4>2. \A m, n \in Nat : m = n - 1 /\ n /= 1 => n > 1
        OBVIOUS
      <4> QED
        BY <1>5, <2>2, <4>1, <4>2
    <3>2. RemoveAt(queue[key], 1) /= <<>>
      BY <1>5, <3>1
    <3>3. RemoveAt(queue[key], 1)[Len(queue[key]) - 1] = queue[key][Len(queue[key])]
      BY <1>5, <3>1
    <3> QED
      BY <1>4, <1>5, <1>6, <3>2, <3>3
  <2> QED
    BY <2>1, <2>2
<1> QED
  BY <1>3, <1>4, <1>7 DEF Synced

LEMMA MirrorStep == ASSUME DeviceInv, NEW key \in Keys, Mirror(key) PROVE DeviceInv'
<1>1. Typed'
  BY MirrorType DEF DeviceInv
<1>2. /\ UNCHANGED <<android, local, accounts, intent, late>> /\ torn \in BOOLEAN
      /\ ~torn' => ~torn
  BY DEF Mirror, DeviceInv, Typed
<1>3. /\ bearer' = bearer /\ Waiting({"list"})' = Waiting({"list"})
      /\ app'.auth = app.auth /\ app'.user = app.user /\ app'.shown = app.shown
      /\ \/ app'.access = "unlocked"
         \/ app'.access = app.access /\ app'.pin = app.pin /\ jobs' = jobs
  <2>1. CASE UNCHANGED <<app, bearer, jobs>>
    BY <2>1 DEF Waiting
  <2>2. CASE app' = [app EXCEPT !.saving.left = @ - 1] /\ UNCHANGED <<bearer, jobs>>
    BY <2>2 DEF DeviceInv, Typed, App, Waiting
  <2>3. CASE /\ app.saving /= <<>>
             /\ Rendered([app EXCEPT !.pin = app.saving.user, !.access = "unlocked",
                                     !.saving = <<>>], bearer, jobs)
    <3> DEFINE next == [app EXCEPT !.pin = app.saving.user, !.access = "unlocked",
                                   !.saving = <<>>]
    <3>1. app.saving.user \in Users
      BY <2>3 DEF DeviceInv, Typed, App
    <3>2. /\ next \in App /\ next.access = "unlocked" /\ next.auth = app.auth
          /\ next.user = app.user /\ next.shown = app.shown
      BY <3>1 DEF DeviceInv, Typed, App
    <3>3. Rendered(next, bearer, jobs)
      BY <2>3
    <3> HIDE DEF next
    <3> QED
      BY <3>2, <3>3, GateOpened DEF DeviceInv
  <2> QED
    BY <2>1, <2>2, <2>3 DEF Mirror, Resumed
<1>4. ASSUME ~torn' PROVE Synced' /\ Owned' /\ Held'
  <2>1. Synced /\ Owned /\ Held
    BY <1>2, <1>4 DEF DeviceInv
  <2>2. Synced'
    BY <1>4, <2>1, MirrorSynced DEF DeviceInv
  <2>3. Owned'
    BY <1>2, <2>1 DEF Owned
  <2>4. Held'
    BY <1>2, <1>3, <2>1 DEF Held
  <2> QED
    BY <2>2, <2>3, <2>4
<1>5. ASSUME ~torn', ~late' PROVE Single'
  <2>1. Single
    BY <1>2, <1>5 DEF DeviceInv
  <2> QED
    BY <1>2, <1>3, <2>1 DEF Single
<1> QED
  BY <1>1, <1>4, <1>5 DEF DeviceInv

\* A start from a whole mirror finds the local storage as it was left: every native
\* value that is read over it is the same, and every local one was mirrored.
LEMMA RestartKept ==
  ASSUME Typed, Synced, Restart, ~torn'
  PROVE  local' = local /\ \A k \in Keys : queue'[k] = <<>>
<1>1. queue = NoQueue
  BY DEF Restart
<1>2. PICK read : Hydrated(read) /\ read \in IF android THEN SUBSET Keys ELSE {{}}
  BY DEF Restart
<1>3. android => \A k \in Keys : native[k] = local[k]
  BY <1>1 DEF Synced, NoQueue
<1>4. \A k \in Keys : k \in read => native[k] = local[k]
  BY <1>2, <1>3
<1>5. \A k \in Keys : local'[k] = local[k] /\ queue'[k] = <<>>
  BY <1>2, <1>4 DEF Hydrated
<1>6. local' = [k \in Keys |-> local'[k]] /\ local = [k \in Keys |-> local[k]]
  BY <1>2 DEF Hydrated, Typed, Storage
<1> QED
  BY <1>5, <1>6

LEMMA RestartStep == ASSUME DeviceInv, Restart PROVE DeviceInv'
<1>1. Typed'
  BY RestartType DEF DeviceInv
<1>2. /\ app' = Started(local') /\ jobs' = {}
      /\ bearer' = IF Restorable(local') THEN local'.token ELSE None
      /\ UNCHANGED <<android, native, accounts, intent, late>>
      /\ ~torn' => ~torn /\ queue = NoQueue
  BY DEF Restart, DeviceInv, Typed
<1>3. Waiting({"list"})' = {}
  BY <1>2 DEF Waiting
<1>4. ASSUME ~torn' PROVE local' = local /\ \A k \in Keys : queue'[k] = <<>>
  BY <1>2, <1>4, RestartKept DEF DeviceInv
<1>5. ASSUME ~torn' PROVE Synced' /\ Owned' /\ Held'
  <2>1. Synced /\ Owned /\ Held /\ queue = NoQueue
    BY <1>2, <1>5 DEF DeviceInv
  <2>2. Synced'
    BY <1>2, <1>4, <1>5, <2>1 DEF Synced, NoQueue
  <2>3. Owned'
    BY <1>4, <1>5, <2>1 DEF Owned
  <2>4. Held'
    BY <1>2, <1>4, <1>5, <2>1 DEF Held, Owned, Started, Restorable
  <2> QED
    BY <2>2, <2>3, <2>4
<1>6. ASSUME ~torn', ~late' PROVE Single'
  <2>1. Single /\ Owned
    BY <1>2, <1>6 DEF DeviceInv
  <2> QED
    BY <1>2, <1>3, <1>4, <1>6, <2>1 DEF Single, Owned, Started, Restorable
<1> QED
  BY <1>1, <1>5, <1>6 DEF DeviceInv

-----------------------------------------------------------------------------
(* The theorems *)

LEMMA InvInit == Init => DeviceInv /\ Counted
<1> SUFFICES ASSUME Init PROVE DeviceInv /\ Counted
  OBVIOUS
<1>1. Typed
  BY TypeInit
<1>2. /\ \A k \in Keys : local[k] = None /\ native[k] = None /\ queue[k] = <<>>
      /\ app = Started(local) /\ bearer = None /\ jobs = {} /\ intent = None
  BY DEF Init, Empty, NoQueue
<1>3. ~app.auth
  BY <1>2 DEF Started, Restorable, Keys
<1>4. Synced /\ Owned /\ Held
  BY <1>2, <1>3 DEF Synced, Owned, Held, Keys
<1>5. Single
  BY <1>2, <1>3 DEF Single, Waiting, Keys
<1>6. Counted
  BY SessionAssumption DEF Init, Counted, Bounds
<1> QED
  BY <1>1, <1>4, <1>5, <1>6 DEF DeviceInv

LEMMA InvNext == DeviceInv /\ [Next]_vars => DeviceInv'
<1> SUFFICES ASSUME DeviceInv, [Next]_vars PROVE DeviceInv'
  OBVIOUS
<1>1. CASE Restart
  BY <1>1, RestartStep
<1>2. ASSUME NEW key \in Keys, Mirror(key) PROVE DeviceInv'
  BY <1>2, MirrorStep
<1>3. ASSUME NEW user \in Users, SubmitLogin(user) \/ SubmitRegistration(user) PROVE DeviceInv'
  BY <1>3, SubmitStep
<1>4. ASSUME NEW job \in jobs, Refused(job) \/ Dropped(job) \/ Continued(job) PROVE DeviceInv'
  BY <1>4, GoneStep
<1>5. ASSUME NEW job \in jobs, Accepted(job) PROVE DeviceInv'
  BY <1>5, AcceptedStep
<1>6. ASSUME NEW job \in jobs, Listed(job) PROVE DeviceInv'
  BY <1>6, ListedStep
<1>7. ASSUME NEW job \in jobs, Unlisted(job) \/ LoggedOut(job) PROVE DeviceInv'
  BY <1>7, LeavingStep
<1>8. CASE UseAnotherAccount
  BY <1>8, LeavingStep
<1>9. ASSUME NEW job \in jobs, Refreshed(job) \/ ProfileSaved(job) PROVE DeviceInv'
  BY <1>9, AnsweredStep
<1>10. CASE ChooseWorkspace
  BY <1>10, AnsweredStep
<1>11. CASE ConfigurePin \/ Unlock
  BY <1>11, ConfigureStep, UnlockStep
<1>12. CASE CreateWorkspace \/ JoinWorkspace \/ AcceptInvitation \/ ChangeMember
              \/ DeleteWorkspace \/ SaveProfile \/ ChangeCurrency \/ LogOut \/ LogOutAll
  <2>1. \E kind \in Kinds : Ask(kind)
    BY <1>12 DEF CreateWorkspace, JoinWorkspace, AcceptInvitation, ChangeMember, DeleteWorkspace,
       SaveProfile, ChangeCurrency, LogOut, LogOutAll, Kinds, Refreshing, Profiling
  <2> QED
    BY <2>1, AskStep
<1>13. CASE UNCHANGED vars
  <2>1. UNCHANGED <<android, local, native, queue, app, bearer, jobs, accounts, intent, torn, late>>
    BY <1>13 DEF vars
  <2>2. jobs' \subseteq Job /\ accounts' \subseteq Users
        /\ \A j \in jobs' : j.kind \in SignIns => j.user \in Users
    BY <2>1 DEF DeviceInv, Typed
  <2> QED
    BY <2>1, <2>2, JobsChange
<1> QED
  BY <1>1, <1>2, <1>3, <1>4, <1>5, <1>6, <1>7, <1>8, <1>9, <1>10, <1>11, <1>12, <1>13 DEF Next

\* The inductive invariant holds in every reachable state.
LEMMA Reachable == Spec => [](DeviceInv /\ Counted)
<1>1. Init => DeviceInv /\ Counted
  BY InvInit
<1>2. DeviceInv /\ Counted /\ [Next]_vars => (DeviceInv /\ Counted)'
  BY InvNext, CountedNext
<1> QED
  BY <1>1, <1>2, PTL DEF Spec

\* The state of a device is what its variables say it is; this is about
\* AppProvider, the preferences and the API client.
THEOREM SessionTyped == Spec => []TypeOK
<1>1. DeviceInv /\ Counted => TypeOK
  BY TypeParts DEF DeviceInv
<1> QED
  BY <1>1, Reachable, PTL

\* However sign-ins, requests and restarts interleave, the requests carry the token
\* of whoever is signed in, the workspaces listed are theirs, and no token is left
\* when nobody is (AppProvider's login, logout and refresh).
THEOREM IdentityIsOne == Spec => []OneIdentity
<1>1. DeviceInv => OneIdentity
  BY DEF DeviceInv, Single, OneIdentity
<1> QED
  BY <1>1, Reachable, PTL

\* A gate asks for the PIN of the account behind it, and the PIN that is stored is
\* that of the account whose token is stored (DeviceAccessGate, login).
THEOREM PinFollowsAccount == Spec => []PinIsOwners
<1>1. DeviceInv => PinIsOwners
  <2> SUFFICES ASSUME DeviceInv, ~torn PROVE PinIsOwners
    BY DEF PinIsOwners
  <2>1. Owned /\ Held
    BY DEF DeviceInv
  <2>2. local.pin /= None => local.pin = local.token
    BY <2>1 DEF Owned
  <2>3. app.auth /\ app.access = "locked" => app.pin = app.user /\ bearer = app.user
    BY <2>1 DEF Held
  <2> QED
    BY <2>2, <2>3 DEF PinIsOwners
<1> QED
  BY <1>1, Reachable, PTL

\* The queue of the native preferences loses and reorders nothing: once it is
\* through, they agree with the local storage (preferences.ts).
THEOREM MirrorAgrees == Spec => []Mirrored
<1>1. DeviceInv => Mirrored
  BY DEF DeviceInv, Synced, Mirrored
<1> QED
  BY <1>1, Reachable, PTL

\* What a start finds in the storage is what the last sign-in asked for: the account
\* to remember, behind its gate, or nobody (main.tsx, AppProvider's initial state).
THEOREM StartsRemembered == Spec => StartsAsRemembered
<1>1. DeviceInv /\ DeviceInv' /\ Restart /\ ~torn' =>
        /\ app'.auth <=> intent /= None
        /\ app'.auth => app'.user = intent /\ app'.access /= "unlocked"
  <2> SUFFICES ASSUME DeviceInv, DeviceInv', Restart, ~torn'
               PROVE  /\ app'.auth <=> intent /= None
                      /\ app'.auth => app'.user = intent /\ app'.access /= "unlocked"
    OBVIOUS
  <2>1. app' = Started(local') /\ intent' = intent
    BY DEF Restart
  <2>2. Owned' /\ Held'
    BY DEF DeviceInv
  <2>3. /\ local'["token"] = intent /\ local'["user"] = intent
        /\ local'["remember"] = intent
    BY <2>1, <2>2 DEF Owned, Held
  <2> QED
    BY <2>1, <2>3 DEF Started, Restorable
<1>2. DeviceInv /\ DeviceInv' /\ [Next]_vars =>
        [Restart /\ ~torn' =>
           /\ app'.auth <=> intent /= None
           /\ app'.auth => app'.user = intent /\ app'.access /= "unlocked"]_vars
  BY <1>1
<1> QED
  BY <1>2, Reachable, PTL DEF Spec, StartsAsRemembered

-----------------------------------------------------------------------------
(* Layers: the inductive invariant *)

Styles == [fixed : BOOLEAN, hidden : BOOLEAN]

Keeps == UNION {[D -> BOOLEAN] : D \in SUBSET (Layers \cup {"app"})}

Entries ==
  [name : Layers, kind : {"sheet", "dialog", "palette", "menu", "none"}, busy : BOOLEAN,
   framed : BOOLEAN, inert : BOOLEAN, lock : Styles, kept : Keeps]

Screens ==
  [stack : Seq(Entries), body : Styles, inert : BOOLEAN, count : Nat,
   original : Styles \cup {Unsaved}]

Sheets(u) == {i \in DOMAIN u.stack : u.stack[i].kind = "sheet"}

\* Whether a modal layer lies below the i-th, and the styles it found.
Low(u, i) == \E j \in 1 .. i - 1 : u.stack[j].kind /= "menu"

Below(u, i) == IF i <= Len(u.stack) THEN u.stack[i].lock ELSE u.body

\* A layer is there once; what opens over the page alone, or asks over itself.
Placed(u, w) ==
  /\ \A i, j \in DOMAIN u.stack : u.stack[i].name = u.stack[j].name => i = j
  /\ \A i \in DOMAIN u.stack : u.stack[i].kind = LayerOf[u.stack[i].name].kind[w]
  /\ \A i \in DOMAIN u.stack : u.stack[i].name \in {"record", "switcher"} => i = 1
  /\ \A i, j \in DOMAIN u.stack :
       u.stack[i].name = "record" /\ u.stack[i].busy => u.stack[j].name /= "share"

\* The styles each layer found are those that were right below it.
Styled(u, w) ==
  /\ u.count = Cardinality(Sheets(u))
  /\ u.body.fixed <=> Sheets(u) /= {}
  /\ Sheets(u) = {} => u.original = Unsaved
  /\ \A i \in Sheets(u) :
       (\A j \in Sheets(u) : i <= j) => u.original = u.stack[i].lock /\ ~u.stack[i].lock.fixed
  /\ \A i \in 1 .. Len(u.stack) + 1 : ~Low(u, i) => Below(u, i) = Free
  /\ \A i \in 1 .. Len(u.stack) + 1 :
       Low(u, i) => \/ Below(u, i).hidden
                    \/ w = "tablet" /\ \E j \in 1 .. i - 1 : u.stack[j].name = "manage"

\* So is what it found of the page; the new ones are on top.
PageIsolated(u) ==
  /\ \A i, j \in DOMAIN u.stack : i < j /\ u.stack[j].framed => u.stack[i].framed
  /\ \A i \in DOMAIN u.stack : u.stack[i].kind = "menu" => u.stack[i].framed
  /\ u.inert <=> \E i \in Modals(u) : u.stack[i].framed
  /\ \A i \in DOMAIN u.stack :
       IF i \in Modals(u) /\ u.stack[i].framed
       THEN "app" \in DOMAIN u.stack[i].kept /\ (u.stack[i].kept["app"] <=> Low(u, i))
       ELSE DOMAIN u.stack[i].kept = {}

\* And what it found of the layers below it, where one is new at a time.
LayersIsolated(u) ==
  /\ \A i \in DOMAIN u.stack : i < Len(u.stack) => u.stack[i].framed
  /\ \A i \in Modals(u) : u.stack[i].inert <=> \E j \in DOMAIN u.stack : i < j /\ u.stack[j].framed
  /\ \A i, j \in Modals(u) :
       j < i /\ u.stack[i].framed =>
         /\ u.stack[j].name \in DOMAIN u.stack[i].kept
         /\ u.stack[i].kept[u.stack[j].name] <=> j + 1 < i

Sound(u, w) == u \in Screens /\ Placed(u, w) /\ Styled(u, w) /\ PageIsolated(u)

LayersInv ==
  /\ width \in Widths
  /\ "crossed" \notin astray => Sound(ui, width)
  /\ astray = {} => LayersIsolated(ui)
-----------------------------------------------------------------------------
(* What the table says *)

LEMMA LayerNames ==
  /\ Layers = {"record", "edit", "share", "add", "contact", "picker", "quick", "search",
               "switcher", "manage", "detail"}
  /\ "app" \notin Layers
BY DEF Layers, LayerOf

LEMMA KindsOf ==
  ASSUME NEW name \in Layers, NEW w \in Widths
  PROVE  LayerOf[name].kind[w] =
           IF w = "phone" THEN "sheet"
           ELSE IF name \in {"record", "edit", "add", "contact", "manage"} THEN "dialog"
           ELSE IF name = "share" THEN "sheet"
           ELSE IF name \in {"picker", "detail"} THEN "none"
           ELSE IF w = "tablet" THEN "sheet"
           ELSE IF name = "quick" THEN "none"
           ELSE IF name = "search" THEN "palette" ELSE "menu"
<1> USE DEF LayerOf, Layer, Widths, OfShell, Asking, Anytime, DialogLayer
<1>1. CASE name = "record"
  BY <1>1 DEF RecordDrawerLayer
<1>2. CASE name = "edit"
  BY <1>2 DEF EditLayer
<1>3. CASE name = "share"
  BY <1>3 DEF ShareLayer
<1>4. CASE name = "add"
  BY <1>4 DEF AddLayer
<1>5. CASE name = "contact"
  BY <1>5 DEF ContactLayer
<1>6. CASE name = "picker"
  BY <1>6 DEF PickerLayer
<1>7. CASE name = "quick"
  BY <1>7 DEF QuickLayer
<1>8. CASE name = "search"
  BY <1>8 DEF SearchLayer
<1>9. CASE name = "switcher"
  BY <1>9 DEF SwitcherLayer
<1>10. CASE name = "manage"
  <2>1. ManageLayer.kind = Asking(DialogLayer({}, {"switcher"})).kind
    BY DEF ManageLayer
  <2>2. Asking(DialogLayer({}, {"switcher"})).kind
          = [phone |-> "sheet", tablet |-> "dialog", wide |-> "dialog"]
    OBVIOUS
  <2> QED
    BY <1>10, <2>1, <2>2
<1>11. CASE name = "detail"
  BY <1>11 DEF DetailLayer
<1> HIDE DEF LayerOf, Layer, Widths, OfShell, Asking, Anytime, DialogLayer
<1> QED
  BY <1>1, <1>2, <1>3, <1>4, <1>5, <1>6, <1>7, <1>8, <1>9, <1>10, <1>11, LayerNames

LEMMA Ways ==
  /\ LayerOf["record"].over = {"page"} /\ LayerOf["switcher"].over = {"page"}
  /\ LayerOf["share"].over = {} /\ LayerOf["share"].follows = {}
  /\ LayerOf["edit"].follows = {"record"} /\ LayerOf["manage"].follows = {"switcher"}
  /\ \A name \in Layers \ {"edit", "manage"} : LayerOf[name].follows = {}
<1>1. /\ LayerOf["record"].over = {"page"} /\ LayerOf["switcher"].over = {"page"}
      /\ LayerOf["share"].over = {}
  BY DEF LayerOf, Layer, OfShell, Asking, Anytime, DialogLayer, RecordDrawerLayer,
         ShareLayer, SwitcherLayer
<1>2. LayerOf["edit"].follows = {"record"} /\ LayerOf["manage"].follows = {"switcher"}
  BY DEF LayerOf, Layer, OfShell, Asking, DialogLayer, EditLayer, ManageLayer
<1>3. /\ LayerOf["record"].follows = {} /\ LayerOf["share"].follows = {}
      /\ LayerOf["add"].follows = {} /\ LayerOf["contact"].follows = {}
      /\ LayerOf["picker"].follows = {}
  BY DEF LayerOf, Layer, Asking, Anytime, DialogLayer, RecordDrawerLayer, ShareLayer,
         AddLayer, ContactLayer, PickerLayer
<1>4. /\ LayerOf["quick"].follows = {} /\ LayerOf["search"].follows = {}
      /\ LayerOf["switcher"].follows = {} /\ LayerOf["detail"].follows = {}
  BY DEF LayerOf, Layer, OfShell, QuickLayer, SearchLayer, SwitcherLayer, DetailLayer
<1> QED
  BY <1>1, <1>2, <1>3, <1>4, LayerNames

LEMMA StyleLaws ==
  /\ Free \in Styles /\ Fixed \in Styles /\ Unsaved \notin Styles
  /\ Free.fixed = FALSE /\ Free.hidden = FALSE /\ Fixed.fixed = TRUE /\ Fixed.hidden = TRUE
  /\ \A s \in Styles : s.fixed \in BOOLEAN /\ s.hidden \in BOOLEAN
  /\ \A s \in Styles : ~s.fixed /\ ~s.hidden => s = Free
  /\ \A s \in Styles, b \in BOOLEAN : [s EXCEPT !.hidden = b] \in Styles
<1>1. DOMAIN Unsaved = {}
  BY DEF Unsaved
<1>2. \A s \in Styles : DOMAIN s /= {}
  BY DEF Styles
<1> QED
  BY <1>1, <1>2 DEF Styles, Free, Fixed

LEMMA KeepLaws ==
  /\ <<>> \in Keeps /\ DOMAIN <<>> = {}
  /\ \A k \in Keeps, name \in Layers :
       /\ Without(k, name) \in Keeps /\ DOMAIN Without(k, name) = DOMAIN k \ {name}
       /\ \A x \in DOMAIN k \ {name} : Without(k, name)[x] = k[x]
  /\ \A k \in Keeps : \A x \in DOMAIN k : k[x] \in BOOLEAN
<1>1. <<>> \in Keeps /\ DOMAIN <<>> = {}
  <2>1. <<>> = [x \in {} |-> TRUE]
    OBVIOUS
  <2>2. [x \in {} |-> TRUE] \in [{} -> BOOLEAN]
    OBVIOUS
  <2> QED
    BY <2>1, <2>2 DEF Keeps
<1>2. ASSUME NEW k \in Keeps, NEW name \in Layers
      PROVE  /\ Without(k, name) \in Keeps /\ DOMAIN Without(k, name) = DOMAIN k \ {name}
             /\ \A x \in DOMAIN k \ {name} : Without(k, name)[x] = k[x]
  <2>1. PICK D \in SUBSET (Layers \cup {"app"}) : k \in [D -> BOOLEAN]
    BY DEF Keeps
  <2>2. Without(k, name) \in [D \ {name} -> BOOLEAN]
    BY <2>1 DEF Without
  <2> QED
    BY <2>1, <2>2 DEF Keeps, Without
<1>3. \A k \in Keeps : \A x \in DOMAIN k : k[x] \in BOOLEAN
  BY DEF Keeps
<1> QED
  BY <1>1, <1>2, <1>3

\* The least of a set of numbers.
LEMMA Least ==
  ASSUME NEW T \in SUBSET Nat, T /= {}
  PROVE  \E x \in T : \A y \in T : x <= y
<1>1. PICK x \in T : \A y \in T : <<y, x>> \notin OpToRel(<, Nat)
  BY NatLessThanWellFounded, WFMin
<1>2. \A y \in T : y < x => <<y, x>> \in OpToRel(<, Nat)
  <2> SUFFICES ASSUME NEW y \in T, y < x PROVE <<y, x>> \in OpToRel(<, Nat)
    OBVIOUS
  <2>1. <<y, x>> \in Nat \X Nat /\ <<y, x>>[1] < <<y, x>>[2]
    OBVIOUS
  <2>2. OpToRel(<, Nat) = {ss \in Nat \X Nat : ss[1] < ss[2]}
    BY Zenon DEF OpToRel
  <2> DEFINE p == <<y, x>>
  <2>3. p \in Nat \X Nat /\ p[1] < p[2]
    BY <2>1
  <2> HIDE DEF p
  <2>4. p \in {ss \in Nat \X Nat : ss[1] < ss[2]}
    BY <2>3
  <2> QED
    BY <2>2, <2>4, Zenon DEF p
<1>3. \A y \in T : ~(y < x)
  BY <1>1, <1>2, Zenon
<1> QED
  BY <1>3

-----------------------------------------------------------------------------
(* Opening *)

\* The layer that is opened.
Entry(u, name) ==
  [name |-> name, kind |-> Kind(name), busy |-> FALSE, framed |-> Kind(name) = "menu",
   inert |-> FALSE, lock |-> u.body, kept |-> <<>>]

LEMMA OpenedParts ==
  ASSUME width \in Widths, NEW u \in Screens, NEW name \in Layers,
         NEW read \in Styles \cup {Unsaved}
  PROVE  LET v == Opened(u, name, read) IN
         /\ v \in Screens
         /\ Len(v.stack) = Len(u.stack) + 1 /\ DOMAIN v.stack = 1 .. Len(u.stack) + 1
         /\ \A i \in 1 .. Len(u.stack) : v.stack[i] = u.stack[i]
         /\ v.stack[Len(u.stack) + 1] = Entry(u, name)
         /\ v.body = IF Kind(name) = "sheet" THEN Fixed
                     ELSE [u.body EXCEPT !.hidden = @ \/ Kind(name) /= "menu"]
         /\ v.inert = u.inert
         /\ v.count = IF Kind(name) = "sheet" THEN u.count + 1 ELSE u.count
         /\ v.original = IF Kind(name) = "sheet" THEN read ELSE u.original
<1> DEFINE v == Opened(u, name, read)
<1>1. u.stack \in Seq(Entries) /\ u.body \in Styles /\ u.inert \in BOOLEAN /\ u.count \in Nat
      /\ u.original \in Styles \cup {Unsaved}
  BY DEF Screens
<1>2. Kind(name) \in {"sheet", "dialog", "palette", "menu", "none"}
  BY KindsOf, LayerNames DEF Kind
<1>3. Entry(u, name) \in Entries
  BY <1>1, <1>2, KeepLaws DEF Entry, Entries
<1>4. v.stack = Append(u.stack, Entry(u, name))
  BY DEF Opened, Entry, Screens
<1>5. v.body = IF Kind(name) = "sheet" THEN Fixed
                     ELSE [u.body EXCEPT !.hidden = @ \/ Kind(name) /= "menu"]
  BY DEF Opened, Screens
<1>6. /\ v.inert = u.inert
      /\ v.count = IF Kind(name) = "sheet" THEN u.count + 1 ELSE u.count
      /\ v.original = IF Kind(name) = "sheet" THEN read ELSE u.original
      /\ v = [stack |-> v.stack, body |-> v.body, inert |-> v.inert, count |-> v.count,
              original |-> v.original]
  BY DEF Opened, Screens
<1>7. v.body \in Styles
  BY <1>1, <1>5, StyleLaws
<1> HIDE DEF v
<1>8. v \in Screens
  BY SMTT(60), <1>1, <1>3, <1>4, <1>6, <1>7 DEF Screens
<1> QED
  BY <1>1, <1>3, <1>4, <1>5, <1>6, <1>8 DEF v

LEMMA StackLaws ==
  ASSUME NEW u \in Screens
  PROVE  /\ u.stack \in Seq(Entries) /\ Len(u.stack) \in Nat
         /\ DOMAIN u.stack = 1 .. Len(u.stack)
         /\ \A i \in 1 .. Len(u.stack) :
              /\ u.stack[i] \in Entries /\ u.stack[i].name \in Layers
              /\ u.stack[i].lock \in Styles /\ u.stack[i].kept \in Keeps
         /\ u.body \in Styles /\ u.inert \in BOOLEAN /\ u.count \in Nat
         /\ u.original \in Styles \cup {Unsaved}
<1>1. u.stack \in Seq(Entries)
  BY DEF Screens
<1>2. \A e \in Entries : e.name \in Layers /\ e.lock \in Styles /\ e.kept \in Keeps
  BY DEF Entries
<1> QED
  BY <1>1, <1>2 DEF Screens

LEMMA SheetsFinite ==
  ASSUME NEW u \in Screens
  PROVE  IsFiniteSet(Sheets(u)) /\ (Cardinality(Sheets(u)) = 0 <=> Sheets(u) = {})
<1>1. Len(u.stack) \in Nat /\ Sheets(u) \subseteq 1 .. Len(u.stack)
  BY StackLaws DEF Sheets
<1>2. IsFiniteSet(1 .. Len(u.stack))
  BY <1>1, FS_Interval
<1> QED
  BY <1>1, <1>2, FS_Subset, FS_EmptySet

LEMMA OpenedPlaced ==
  ASSUME width \in Widths, NEW u, Sound(u, width), NEW name \in Layers \ Names(u),
         NEW read \in Styles \cup {Unsaved},
         name \in {"record", "switcher"} => u.stack = <<>>,
         name = "share" => \A i \in DOMAIN u.stack : u.stack[i].name = "record" => ~u.stack[i].busy
  PROVE  Placed(Opened(u, name, read), width)
<1> DEFINE v == Opened(u, name, read)
           n == Len(u.stack)
<1>1. u \in Screens /\ Placed(u, width) /\ u.stack \in Seq(Entries) /\ DOMAIN u.stack = 1 .. n
  BY StackLaws DEF Sound
<1>2. /\ v \in Screens
      /\ Len(v.stack) = n + 1 /\ DOMAIN v.stack = 1 .. n + 1
      /\ \A i \in 1 .. n : v.stack[i] = u.stack[i]
      /\ v.stack[n + 1] = Entry(u, name)
      /\ v.body = IF Kind(name) = "sheet" THEN Fixed
                     ELSE [u.body EXCEPT !.hidden = @ \/ Kind(name) /= "menu"]
      /\ v.inert = u.inert
      /\ v.count = IF Kind(name) = "sheet" THEN u.count + 1 ELSE u.count
      /\ v.original = IF Kind(name) = "sheet" THEN read ELSE u.original
  <2>1. u \in Screens /\ name \in Layers
    BY <1>1
  <2> QED
    BY SMTT(30), <2>1, OpenedParts
<1>3. /\ Entry(u, name).name = name /\ Entry(u, name).busy = FALSE
      /\ Entry(u, name).kind = LayerOf[name].kind[width]
  BY DEF Entry, Kind
<1>4. \A i \in 1 .. n : u.stack[i].name /= name
  BY <1>1 DEF Names
<1>5. n \in Nat /\ (u.stack = <<>> => n = 0)
  BY <1>1
<1> HIDE DEF v
<1>6. \A i, j \in DOMAIN v.stack : v.stack[i].name = v.stack[j].name => i = j
  <2>1. v.stack[n + 1].name = name /\ \A i \in 1 .. n : v.stack[i].name = u.stack[i].name
    BY <1>2, <1>3
  <2>2. \A i, j \in 1 .. n : u.stack[i].name = u.stack[j].name => i = j
    BY <1>1 DEF Placed
  <2>3. DOMAIN v.stack = 1 .. n + 1 /\ \A i \in 1 .. n + 1 : i \in 1 .. n \/ i = n + 1
    BY <1>2, <1>5
  <2> SUFFICES ASSUME NEW i \in 1 .. n + 1, NEW j \in 1 .. n + 1,
                      v.stack[i].name = v.stack[j].name
               PROVE  i = j
    BY <2>3
  <2>4. CASE i \in 1 .. n /\ j \in 1 .. n
    BY <2>1, <2>2, <2>4
  <2> QED
    BY <1>4, <2>1, <2>3, <2>4
<1>7. \A i \in DOMAIN v.stack : v.stack[i].kind = LayerOf[v.stack[i].name].kind[width]
  <2>1. \A i \in 1 .. n : v.stack[i].kind = LayerOf[v.stack[i].name].kind[width]
    BY <1>1, <1>2 DEF Placed
  <2>2. v.stack[n + 1].kind = LayerOf[v.stack[n + 1].name].kind[width]
    BY <1>2, <1>3
  <2> QED
    BY <1>2, <1>5, <2>1, <2>2
<1>8. \A i \in DOMAIN v.stack : v.stack[i].name \in {"record", "switcher"} => i = 1
  <2>1. \A i \in 1 .. n : v.stack[i].name \in {"record", "switcher"} => i = 1
    BY <1>1, <1>2 DEF Placed
  <2>2. v.stack[n + 1].name \in {"record", "switcher"} => n + 1 = 1
    BY <1>2, <1>3, <1>5
  <2> QED
    BY <1>2, <1>5, <2>1, <2>2
<1>9. \A i, j \in DOMAIN v.stack :
        v.stack[i].name = "record" /\ v.stack[i].busy => v.stack[j].name /= "share"
  <2>1. \A i, j \in 1 .. n :
          v.stack[i].name = "record" /\ v.stack[i].busy => v.stack[j].name /= "share"
    BY SMTT(60), <1>1, <1>2 DEF Placed
  <2>2. ~v.stack[n + 1].busy /\ v.stack[n + 1].name = name
    BY <1>2, <1>3
  <2>3. name = "share" => \A i \in 1 .. n : v.stack[i].name = "record" => ~v.stack[i].busy
    BY <1>1, <1>2
  <2>4. v.stack[n + 1].name = "share" => \A i \in 1 .. n + 1 : v.stack[i].name = "record" => ~v.stack[i].busy
    BY <1>5, <2>2, <2>3
  <2> SUFFICES ASSUME NEW i \in 1 .. n + 1, NEW j \in 1 .. n + 1,
                      v.stack[i].name = "record", v.stack[i].busy
               PROVE  v.stack[j].name /= "share"
    BY <1>2
  <2>5. i \in 1 .. n
    BY <1>5, <2>2
  <2>6. j \in 1 .. n \/ j = n + 1
    BY <1>5
  <2> QED
    BY <2>1, <2>4, <2>5, <2>6
<1> QED
  BY <1>6, <1>7, <1>8, <1>9 DEF Placed, v

\* A menu lies on the page.
LEMMA MenuIsFirst ==
  ASSUME width \in Widths, NEW u, Sound(u, width), NEW i \in DOMAIN u.stack,
         u.stack[i].kind = "menu"
  PROVE  i = 1
<1>1. u.stack[i].kind = LayerOf[u.stack[i].name].kind[width] /\ u.stack[i].name \in Layers
  BY StackLaws DEF Sound, Placed
<1>2. u.stack[i].name = "switcher"
  BY SMTT(30), <1>1, KindsOf, LayerNames
<1> QED
  BY <1>2 DEF Sound, Placed

LEMMA OpenedStyled ==
  ASSUME width \in Widths, NEW u, Sound(u, width), NEW name \in Layers \ Names(u),
         Kind(name) = "menu" => u.stack = <<>>
  PROVE  Styled(Opened(u, name, ReadBody(u)), width)
<1> DEFINE v == Opened(u, name, ReadBody(u))
           n == Len(u.stack)
<1>1. u \in Screens /\ Styled(u, width) /\ name \in Layers
  BY DEF Sound
<1>2. /\ n \in Nat /\ DOMAIN u.stack = 1 .. n /\ u.body \in Styles /\ u.count \in Nat
      /\ u.original \in Styles \cup {Unsaved} /\ (u.stack = <<>> => n = 0)
  BY <1>1, StackLaws
<1>3. ReadBody(u) \in Styles \cup {Unsaved}
  BY <1>2 DEF ReadBody
<1>4. /\ v \in Screens
      /\ Len(v.stack) = n + 1 /\ DOMAIN v.stack = 1 .. n + 1
      /\ \A i \in 1 .. n : v.stack[i] = u.stack[i]
      /\ v.stack[n + 1] = Entry(u, name)
      /\ v.body = IF Kind(name) = "sheet" THEN Fixed
                     ELSE [u.body EXCEPT !.hidden = @ \/ Kind(name) /= "menu"]
      /\ v.inert = u.inert
      /\ v.count = IF Kind(name) = "sheet" THEN u.count + 1 ELSE u.count
      /\ v.original = IF Kind(name) = "sheet" THEN ReadBody(u) ELSE u.original
  BY <1>1, <1>3, OpenedParts
<1> HIDE DEF v
<1>5. Entry(u, name).kind = Kind(name) /\ Entry(u, name).lock = u.body /\ Entry(u, name).name = name
  BY DEF Entry
<1>6. Sheets(v) = IF Kind(name) = "sheet" THEN Sheets(u) \cup {n + 1} ELSE Sheets(u)
  BY SMTT(60), <1>2, <1>4, <1>5 DEF Sheets
<1>7. n + 1 \notin Sheets(u) /\ Sheets(u) \subseteq 1 .. n
  BY <1>2 DEF Sheets
<1>8. IsFiniteSet(Sheets(u)) /\ (Cardinality(Sheets(u)) = 0 <=> Sheets(u) = {})
  BY <1>1, SheetsFinite
<1>9. Cardinality(Sheets(u) \cup {n + 1}) = Cardinality(Sheets(u)) + 1
  BY <1>7, <1>8, FS_AddElement
<1>10. u.body.fixed \in BOOLEAN /\ u.body.hidden \in BOOLEAN
  BY <1>2, StyleLaws
<1>11. v.count = Cardinality(Sheets(v))
  BY <1>1, <1>4, <1>6, <1>9 DEF Styled
<1>12. v.body.fixed <=> Sheets(v) /= {}
  <2>1. CASE Kind(name) = "sheet"
    BY <2>1, <1>4, <1>6, StyleLaws
  <2>2. CASE Kind(name) /= "sheet"
    <3>1. v.body.fixed = u.body.fixed
      BY <2>2, <1>2, <1>4 DEF Styles
    <3> QED
      BY <2>2, <3>1, <1>1, <1>6 DEF Styled
  <2> QED
    BY <2>1, <2>2
<1>13. Sheets(v) = {} => v.original = Unsaved
  BY <1>1, <1>4, <1>6 DEF Styled
<1>14. ASSUME NEW i \in Sheets(v), \A j \in Sheets(v) : i <= j
       PROVE  v.original = v.stack[i].lock /\ ~v.stack[i].lock.fixed
  <2>1. CASE Sheets(u) = {}
    <3>1. Kind(name) = "sheet" /\ i = n + 1
      BY <1>6, <2>1
    <3>2. u.count = 0 /\ ~u.body.fixed
      BY <1>1, <1>8, <2>1 DEF Styled
    <3> QED
      BY <1>4, <1>5, <3>1, <3>2 DEF ReadBody
  <2>2. CASE Sheets(u) /= {}
    <3>1. i \in Sheets(u) /\ \A j \in Sheets(u) : i <= j
      BY <1>2, <1>6, <1>7, <1>14, <2>2
    <3>2. u.original = u.stack[i].lock /\ ~u.stack[i].lock.fixed
      BY <1>1, <3>1 DEF Styled
    <3>3. v.original = u.original
      <4>1. u.count /= 0
        BY <1>1, <1>8, <2>2 DEF Styled
      <4> QED
        BY <1>4, <4>1 DEF ReadBody
    <3> QED
      BY <1>4, <1>7, <3>1, <3>2, <3>3
  <2> QED
    BY <2>1, <2>2
<1>15. \A i \in 1 .. n + 1 : Below(v, i) = Below(u, i) /\ (Low(v, i) <=> Low(u, i))
  <2> SUFFICES ASSUME NEW i \in 1 .. n + 1
               PROVE  Below(v, i) = Below(u, i) /\ (Low(v, i) <=> Low(u, i))
    OBVIOUS
  <2>1. 1 .. i - 1 \subseteq 1 .. n /\ \A j \in 1 .. i - 1 : v.stack[j] = u.stack[j]
    BY SMTT(30), <1>2, <1>4
  <2>2. Low(v, i) <=> Low(u, i)
    BY <2>1 DEF Low
  <2>3. CASE i = n + 1
    <3>1. v.stack[i].lock = u.body /\ i <= Len(v.stack) /\ ~(i <= n)
      BY <1>2, <1>4, <1>5, <2>3
    <3> QED
      BY <1>2, <1>4, <2>2, <3>1 DEF Below
  <2>4. CASE i \in 1 .. n
    BY <1>2, <1>4, <2>2, <2>4 DEF Below
  <2> QED
    BY <1>2, <2>3, <2>4
<1>16. Below(v, n + 2) = v.body /\ Below(u, n + 1) = u.body
  BY <1>2, <1>4 DEF Below
<1>17. Low(v, n + 2) <=> Low(u, n + 1) \/ Kind(name) /= "menu"
  BY <1>2, <1>4, <1>5 DEF Low
<1>18. \A i \in 1 .. n + 2 : ~Low(v, i) => Below(v, i) = Free
  <2>1. ASSUME ~Low(v, n + 2) PROVE v.body = Free
    <3>1. Kind(name) = "menu" /\ u.body = Free
      BY <1>1, <1>2, <1>16, <1>17, <2>1 DEF Styled
    <3>2. ~v.body.fixed /\ ~v.body.hidden
      <4>1. ~u.body.fixed /\ ~u.body.hidden
        BY <3>1, StyleLaws
      <4>2. v.body.fixed = u.body.fixed /\ (v.body.hidden <=> u.body.hidden)
        BY <1>2, <1>4, <3>1 DEF Styles
      <4> QED
        BY <4>1, <4>2
    <3> QED
      BY <1>4, <3>2, StackLaws, StyleLaws
  <2> QED
    BY <1>1, <1>2, <1>15, <1>16, <2>1 DEF Styled
<1>19. \A i \in 1 .. n + 2 :
         Low(v, i) => \/ Below(v, i).hidden
                      \/ width = "tablet" /\ \E j \in 1 .. i - 1 : v.stack[j].name = "manage"
  <2>1. ASSUME NEW i \in 1 .. n + 1, Low(v, i)
        PROVE  \/ Below(v, i).hidden
               \/ width = "tablet" /\ \E j \in 1 .. i - 1 : v.stack[j].name = "manage"
    <3>1. \/ Below(u, i).hidden
          \/ width = "tablet" /\ \E j \in 1 .. i - 1 : u.stack[j].name = "manage"
      BY <1>1, <1>15, <2>1 DEF Styled
    <3> QED
      BY SMTT(60), <1>2, <1>4, <1>15, <3>1
  <2>2. Low(v, n + 2) => v.body.hidden
    <3>1. CASE Kind(name) = "sheet"
      BY <1>4, <3>1, StyleLaws
    <3>2. CASE Kind(name) \notin {"sheet", "menu"}
      BY <1>2, <1>4, <3>2 DEF Styles
    <3>3. CASE Kind(name) = "menu"
      BY <1>2, <1>17, <3>3 DEF Low
    <3> QED
      BY <3>1, <3>2, <3>3
  <2> QED
    BY <1>2, <1>16, <2>1, <2>2
<1>20. 1 .. Len(v.stack) + 1 = 1 .. n + 2
  BY <1>2, <1>4
<1> QED
  BY <1>11, <1>12, <1>13, <1>14, <1>18, <1>19, <1>20 DEF Styled, v

\* What a new layer does to the isolation: nothing yet.
LEMMA OpenedIsolated ==
  ASSUME width \in Widths, NEW u, Sound(u, width), NEW name \in Layers \ Names(u),
         NEW read \in Styles \cup {Unsaved},
         Kind(name) = "menu" => u.stack = <<>>
  PROVE  LET v == Opened(u, name, read) IN
         /\ PageIsolated(v)
         /\ LayersIsolated(u) /\ (\A i \in DOMAIN u.stack : u.stack[i].framed) => LayersIsolated(v)
<1> DEFINE v == Opened(u, name, read)
           n == Len(u.stack)
<1>1. u \in Screens /\ PageIsolated(u) /\ name \in Layers
  BY DEF Sound
<1>2. n \in Nat /\ DOMAIN u.stack = 1 .. n /\ (u.stack = <<>> => n = 0) /\ u.inert \in BOOLEAN
  BY <1>1, StackLaws
<1>3. /\ v \in Screens
      /\ Len(v.stack) = n + 1 /\ DOMAIN v.stack = 1 .. n + 1
      /\ \A i \in 1 .. n : v.stack[i] = u.stack[i]
      /\ v.stack[n + 1] = Entry(u, name)
      /\ v.body = IF Kind(name) = "sheet" THEN Fixed
                     ELSE [u.body EXCEPT !.hidden = @ \/ Kind(name) /= "menu"]
      /\ v.inert = u.inert
      /\ v.count = IF Kind(name) = "sheet" THEN u.count + 1 ELSE u.count
      /\ v.original = IF Kind(name) = "sheet" THEN read ELSE u.original
  BY <1>1, OpenedParts
<1> HIDE DEF v
<1>4. /\ Entry(u, name).kind = Kind(name) /\ Entry(u, name).name = name
      /\ Entry(u, name).framed = (Kind(name) = "menu") /\ Entry(u, name).inert = FALSE
      /\ DOMAIN Entry(u, name).kept = {}
  BY KeepLaws DEF Entry
<1>5. v.stack[n + 1].framed <=> Kind(name) = "menu"
  BY <1>3, <1>4
<1>6. v.stack[n + 1].framed => n = 0
  BY <1>2, <1>5
<1>7. \A i \in 1 .. n : (i \in Modals(v) <=> i \in Modals(u)) /\ (Low(v, i) <=> Low(u, i))
  <2> SUFFICES ASSUME NEW i \in 1 .. n
               PROVE  (i \in Modals(v) <=> i \in Modals(u)) /\ (Low(v, i) <=> Low(u, i))
    OBVIOUS
  <2>1. 1 .. i - 1 \subseteq 1 .. n /\ \A j \in 1 .. i - 1 : v.stack[j] = u.stack[j]
    BY <1>2, <1>3
  <2>2. Low(v, i) <=> Low(u, i)
    BY <2>1 DEF Low
  <2>3. i \in Modals(v) <=> i \in Modals(u)
    BY <1>2, <1>3 DEF Modals
  <2> QED
    BY <2>2, <2>3
<1>8. n + 1 \in Modals(v) <=> Kind(name) /= "menu"
  BY <1>2, <1>3, <1>4 DEF Modals
<1>9. Modals(v) \subseteq 1 .. n + 1 /\ Modals(u) \subseteq 1 .. n
  BY <1>2, <1>3 DEF Modals
<1>10. PageIsolated(v)
  <2>1. \A i, j \in DOMAIN v.stack : i < j /\ v.stack[j].framed => v.stack[i].framed
    <3>1. \A i, j \in 1 .. n : i < j /\ v.stack[j].framed => v.stack[i].framed
      BY <1>1, <1>2, <1>3 DEF PageIsolated
    <3>2. \A i \in 1 .. n : ~v.stack[n + 1].framed
      BY <1>2, <1>6
    <3> QED
      BY <1>2, <1>3, <3>1, <3>2
  <2>2. v.inert <=> \E i \in Modals(v) : v.stack[i].framed
    <3>1. u.inert <=> \E i \in Modals(u) : u.stack[i].framed
      BY <1>1 DEF PageIsolated
    <3>2. n + 1 \in Modals(v) => ~v.stack[n + 1].framed
      BY <1>5, <1>8
    <3>3. \A i \in Modals(v) : v.stack[i].framed => i \in Modals(u) /\ u.stack[i].framed
      BY <1>2, <1>3, <1>7, <1>9, <3>2
    <3>4. \A i \in Modals(u) : u.stack[i].framed => i \in Modals(v) /\ v.stack[i].framed
      BY <1>3, <1>7, <1>9
    <3> QED
      BY <1>3, <3>1, <3>3, <3>4
  <2>3. ASSUME NEW i \in DOMAIN v.stack
        PROVE  IF i \in Modals(v) /\ v.stack[i].framed
               THEN "app" \in DOMAIN v.stack[i].kept /\ (v.stack[i].kept["app"] <=> Low(v, i))
               ELSE DOMAIN v.stack[i].kept = {}
    <3>1. CASE i \in 1 .. n
      BY <1>1, <1>2, <1>3, <1>7, <3>1 DEF PageIsolated
    <3>2. CASE i = n + 1
      BY <1>3, <1>4, <1>5, <1>8, <3>2
    <3> QED
      BY <1>2, <1>3, <3>1, <3>2
  <2>4. \A i \in DOMAIN v.stack : v.stack[i].kind = "menu" => v.stack[i].framed
    <3>1. \A i \in 1 .. n : u.stack[i].kind = "menu" => u.stack[i].framed
      BY <1>1, <1>2 DEF PageIsolated
    <3> QED
      BY <1>2, <1>3, <1>4, <1>5, <3>1
  <2> QED
    BY <2>1, <2>2, <2>3, <2>4 DEF PageIsolated
<1>11. ASSUME LayersIsolated(u), \A i \in DOMAIN u.stack : u.stack[i].framed
       PROVE  LayersIsolated(v)
  <2>1. \A i \in DOMAIN v.stack : i < Len(v.stack) => v.stack[i].framed
    BY <1>2, <1>3, <1>11
  <2>2. \A i \in Modals(v) :
          v.stack[i].inert <=> \E j \in DOMAIN v.stack : i < j /\ v.stack[j].framed
    <3>1. ASSUME NEW i \in 1 .. n, i \in Modals(v)
          PROVE  v.stack[i].inert <=> \E j \in DOMAIN v.stack : i < j /\ v.stack[j].framed
      <4>1. u.stack[i].inert <=> \E j \in DOMAIN u.stack : i < j /\ u.stack[j].framed
        BY <1>7, <1>11, <3>1 DEF LayersIsolated
      <4>2. ~v.stack[n + 1].framed
        BY <1>2, <1>6
      <4>3. \A j \in 1 .. n : v.stack[j] = u.stack[j]
        BY <1>3
      <4>4. (\E j \in DOMAIN v.stack : i < j /\ v.stack[j].framed)
              <=> \E j \in 1 .. n : i < j /\ u.stack[j].framed
        <5>1. \A j \in 1 .. n : j \in 1 .. n + 1
          BY <1>2
        <5>2. \A j \in 1 .. n + 1 : j \in 1 .. n \/ j = n + 1
          BY <1>2
        <5>3. DOMAIN v.stack = 1 .. n + 1
          BY <1>3
        <5> QED
          BY <4>2, <4>3, <5>1, <5>2, <5>3
      <4> QED
        BY <1>2, <3>1, <4>1, <4>3, <4>4
    <3>2. ~v.stack[n + 1].inert
      BY <1>3, <1>4
    <3> QED
      BY <1>2, <1>3, <1>9, <3>1, <3>2
  <2>3. \A i, j \in Modals(v) :
          j < i /\ v.stack[i].framed =>
            /\ v.stack[j].name \in DOMAIN v.stack[i].kept
            /\ v.stack[i].kept[v.stack[j].name] <=> j + 1 < i
    <3>1. \A i \in Modals(v) : v.stack[i].framed => i \in 1 .. n
      BY <1>2, <1>3, <1>5, <1>8, <1>9
    <3> QED
      BY SMTT(60), <1>2, <1>3, <1>7, <1>9, <1>11, <3>1 DEF LayersIsolated
  <2> QED
    BY <2>1, <2>2, <2>3 DEF LayersIsolated
<1> QED
  BY <1>10, <1>11 DEF v

LEMMA OpenedSound ==
  ASSUME width \in Widths, NEW u, Sound(u, width), NEW name \in Layers \ Names(u),
         name \in {"record", "switcher"} => u.stack = <<>>,
         name = "share" => \A i \in DOMAIN u.stack : u.stack[i].name = "record" => ~u.stack[i].busy
  PROVE  /\ Sound(Opened(u, name, ReadBody(u)), width)
         /\ LayersIsolated(u) /\ (\A i \in DOMAIN u.stack : u.stack[i].framed) =>
              LayersIsolated(Opened(u, name, ReadBody(u)))
<1>1. Kind(name) = "menu" => u.stack = <<>>
  BY KindsOf, LayerNames DEF Kind
<1>2. u \in Screens /\ name \in Layers
  BY DEF Sound
<1>3. ReadBody(u) \in Styles \cup {Unsaved}
  BY <1>2, StackLaws DEF ReadBody
<1>4. Opened(u, name, ReadBody(u)) \in Screens
  BY <1>2, <1>3, OpenedParts
<1>5. Placed(Opened(u, name, ReadBody(u)), width)
  BY <1>3, OpenedPlaced
<1>6. Styled(Opened(u, name, ReadBody(u)), width)
  BY <1>1, OpenedStyled
<1>7. /\ PageIsolated(Opened(u, name, ReadBody(u)))
      /\ LayersIsolated(u) /\ (\A i \in DOMAIN u.stack : u.stack[i].framed) =>
              LayersIsolated(Opened(u, name, ReadBody(u)))
  BY <1>1, <1>3, OpenedIsolated
<1> QED
  BY <1>4, <1>5, <1>6, <1>7 DEF Sound

-----------------------------------------------------------------------------
(* Closing the layer on top *)

\* What is left of the layers below the top.
Rest(u, j) == PutBack(u.stack[j], Top(u))

LEMMA RestLaws ==
  ASSUME NEW u \in Screens, Len(u.stack) > 0, NEW j \in 1 .. Len(u.stack) - 1
  PROVE  /\ Rest(u, j) \in Entries
         /\ Rest(u, j).name = u.stack[j].name /\ Rest(u, j).kind = u.stack[j].kind
         /\ Rest(u, j).busy = u.stack[j].busy /\ Rest(u, j).framed = u.stack[j].framed
         /\ Rest(u, j).lock = u.stack[j].lock
         /\ Rest(u, j).inert = IF u.stack[j].name \in DOMAIN Top(u).kept
                               THEN Top(u).kept[u.stack[j].name] ELSE u.stack[j].inert
         /\ Rest(u, j).kept = Without(u.stack[j].kept, Top(u).name)
<1> DEFINE top == u.stack[Len(u.stack)]
           e == u.stack[j]
           b == IF e.name \in DOMAIN top.kept THEN top.kept[e.name] ELSE e.inert
           k == Without(e.kept, top.name)
<1>1. top \in Entries /\ top.name \in Layers /\ top.kept \in Keeps /\ e \in Entries /\ e.kept \in Keeps
  BY StackLaws
<1>2. k \in Keeps
  BY <1>1, KeepLaws
<1>3. b \in BOOLEAN
  BY <1>1, KeepLaws DEF Entries
<1>4. Rest(u, j) = [[e EXCEPT !.inert = b] EXCEPT !.kept = k]
  BY DEF Rest, PutBack, Top
<1> HIDE DEF b, k, e
<1>5. Rest(u, j) = [name |-> e.name, kind |-> e.kind, busy |-> e.busy, framed |-> e.framed,
                    inert |-> b, lock |-> e.lock, kept |-> k]
  BY <1>1, <1>4 DEF Entries
<1>6. /\ e.name \in Layers /\ e.kind \in {"sheet", "dialog", "palette", "menu", "none"}
      /\ e.busy \in BOOLEAN /\ e.framed \in BOOLEAN /\ e.lock \in Styles
  BY <1>1 DEF Entries
<1>7. Rest(u, j) \in Entries
  BY <1>2, <1>3, <1>5, <1>6 DEF Entries
<1> QED
  BY <1>5, <1>7 DEF e, b, k, Top

LEMMA CleanedParts ==
  ASSUME width \in Widths, NEW u, Sound(u, width), Len(u.stack) > 0
  PROVE  LET v == Cleaned(u, Top(u).name)
             n == Len(u.stack)
             sheet == Top(u).kind = "sheet"
         IN
         /\ IndexOf(u, Top(u).name) = n
         /\ v \in Screens /\ Len(v.stack) = n - 1 /\ DOMAIN v.stack = 1 .. n - 1
         /\ \A j \in 1 .. n - 1 : v.stack[j] = Rest(u, j)
         /\ v.body = IF sheet THEN Top(u).lock
                     ELSE [u.body EXCEPT !.hidden = IF Top(u).kind = "menu" THEN @ ELSE Top(u).lock.hidden]
         /\ v.inert = IF "app" \in DOMAIN Top(u).kept THEN Top(u).kept["app"] ELSE u.inert
         /\ v.count = IF sheet THEN u.count - 1 ELSE u.count
         /\ v.original = u.original
<1> DEFINE n == Len(u.stack)
           name == Top(u).name
           v == Cleaned(u, name)
           rest == RemoveAt(u.stack, n)
<1>1. /\ u \in Screens /\ Placed(u, width) /\ Styled(u, width)
      /\ u.stack \in Seq(Entries) /\ n \in Nat /\ n > 0 /\ DOMAIN u.stack = 1 .. n
      /\ u.body \in Styles /\ u.inert \in BOOLEAN /\ u.count \in Nat
      /\ u.original \in Styles \cup {Unsaved}
  BY StackLaws DEF Sound
<1>2. /\ Top(u) \in Entries /\ name \in Layers /\ Top(u).lock \in Styles /\ Top(u).kept \in Keeps
  BY <1>1, StackLaws DEF Top
<1>3. IndexOf(u, name) = n
  <2>1. \A i \in DOMAIN u.stack : u.stack[i].name = name <=> i = n
    BY SMTT(30), <1>1 DEF Placed, Top
  <2>2. n \in DOMAIN u.stack
    BY <1>1
  <2> HIDE DEF name, n
  <2> QED
    BY <2>1, <2>2 DEF IndexOf
<1>4. Len(rest) = n - 1 /\ DOMAIN rest = 1 .. n - 1 /\ \A j \in 1 .. n - 1 : rest[j] = u.stack[j]
  <2>1. SubSeq(u.stack, n + 1, n) = <<>>
    BY <1>1
  <2>2. SubSeq(u.stack, 1, n - 1) \in Seq(Entries) /\ Len(SubSeq(u.stack, 1, n - 1)) = n - 1
        /\ \A j \in 1 .. n - 1 : SubSeq(u.stack, 1, n - 1)[j] = u.stack[j]
    BY <1>1
  <2>3. rest = SubSeq(u.stack, 1, n - 1) \o <<>>
    BY <2>1 DEF RemoveAt
  <2> HIDE DEF rest
  <2> QED
    BY <1>1, <2>2, <2>3
<1>5. v.stack = [j \in DOMAIN rest |-> Rest(u, j)]
  <2>1. v.stack = [j \in DOMAIN rest |-> PutBack(rest[j], Top(u))]
    BY <1>3 DEF Cleaned, Top
  <2>2. \A j \in DOMAIN rest : PutBack(rest[j], Top(u)) = Rest(u, j)
    <3> HIDE DEF rest
    <3> QED
      BY <1>4 DEF Rest
  <2> HIDE DEF rest, v
  <2> QED
    BY <2>1, <2>2
<1>6. \A j \in 1 .. n - 1 : Rest(u, j) \in Entries
  BY <1>1, RestLaws
<1>7. v.stack \in Seq(Entries) /\ Len(v.stack) = n - 1 /\ DOMAIN v.stack = 1 .. n - 1
      /\ \A j \in 1 .. n - 1 : v.stack[j] = Rest(u, j)
  <2> HIDE DEF v, rest
  <2> QED
    BY <1>1, <1>4, <1>5, <1>6
<1>8. /\ v.body = IF Top(u).kind = "sheet" THEN Top(u).lock
                  ELSE [u.body EXCEPT !.hidden = IF Top(u).kind = "menu" THEN @ ELSE Top(u).lock.hidden]
      /\ v.inert = IF "app" \in DOMAIN Top(u).kept THEN Top(u).kept["app"] ELSE u.inert
      /\ v.count = IF Top(u).kind = "sheet" THEN u.count - 1 ELSE u.count
      /\ v.original = u.original
      /\ v = [stack |-> v.stack, body |-> v.body, inert |-> v.inert, count |-> v.count,
              original |-> v.original]
  BY <1>3 DEF Cleaned, Top
<1>9. v.body \in Styles
  <2>1. Top(u).lock.hidden \in BOOLEAN /\ u.body.hidden \in BOOLEAN
    BY <1>1, <1>2, StyleLaws
  <2> QED
    BY <1>1, <1>2, <1>8, <2>1, StyleLaws
<1>10. v.inert \in BOOLEAN
  BY <1>1, <1>2, <1>8, KeepLaws
<1>11. v.count \in Nat
  <2>1. CASE Top(u).kind = "sheet"
    <3>1. n \in Sheets(u)
      BY <1>1, <2>1 DEF Sheets, Top
    <3>2. Cardinality(Sheets(u)) /= 0
      BY <1>1, <3>1, SheetsFinite
    <3> QED
      BY <1>1, <1>8, <3>2 DEF Styled
  <2> QED
    BY <1>1, <1>8, <2>1
<1> HIDE DEF v
<1>12. v \in Screens
  BY <1>1, <1>7, <1>8, <1>9, <1>10, <1>11 DEF Screens
<1> QED
  BY <1>3, <1>7, <1>8, <1>12 DEF v

\* What the closing of the top leaves.
Popped(u) ==
  LET v == Cleaned(u, Top(u).name)
  IN IF Top(u).kind = "sheet" THEN Settled(v) ELSE v

LEMMA PoppedParts ==
  ASSUME width \in Widths, NEW u, Sound(u, width), Len(u.stack) > 0
  PROVE  LET v == Popped(u)
             n == Len(u.stack)
             sheet == Top(u).kind = "sheet"
         IN
         /\ v \in Screens /\ Len(v.stack) = n - 1 /\ DOMAIN v.stack = 1 .. n - 1
         /\ \A j \in 1 .. n - 1 : v.stack[j] = Rest(u, j)
         /\ Sheets(v) = Sheets(u) \ {n}
         /\ v.inert = IF "app" \in DOMAIN Top(u).kept THEN Top(u).kept["app"] ELSE u.inert
         /\ v.count = Cardinality(Sheets(v))
         /\ ~sheet => /\ v.body.fixed = u.body.fixed
                      /\ v.body.hidden = IF Top(u).kind = "menu" THEN u.body.hidden
                                         ELSE Top(u).lock.hidden
                      /\ v.original = u.original
         /\ sheet /\ Sheets(v) /= {} => v.body = Fixed /\ v.original = u.original
         /\ sheet /\ Sheets(v) = {} =>
              v.body = Top(u).lock /\ ~v.body.fixed /\ v.original = Unsaved
<1> DEFINE n == Len(u.stack)
           c == Cleaned(u, Top(u).name)
           v == Popped(u)
<1>1. /\ u \in Screens /\ Placed(u, width) /\ Styled(u, width)
      /\ u.stack \in Seq(Entries) /\ n \in Nat /\ n > 0 /\ DOMAIN u.stack = 1 .. n
      /\ u.body \in Styles /\ u.inert \in BOOLEAN /\ u.count \in Nat
      /\ u.original \in Styles \cup {Unsaved}
      /\ Top(u).lock \in Styles
  BY StackLaws DEF Sound, Top
<1>2. /\ IndexOf(u, Top(u).name) = n
      /\ c \in Screens /\ Len(c.stack) = n - 1 /\ DOMAIN c.stack = 1 .. n - 1
      /\ \A j \in 1 .. n - 1 : c.stack[j] = Rest(u, j)
      /\ c.body = IF Top(u).kind = "sheet" THEN Top(u).lock
                  ELSE [u.body EXCEPT !.hidden = IF Top(u).kind = "menu" THEN @ ELSE Top(u).lock.hidden]
      /\ c.inert = IF "app" \in DOMAIN Top(u).kept THEN Top(u).kept["app"] ELSE u.inert
      /\ c.count = IF Top(u).kind = "sheet" THEN u.count - 1 ELSE u.count
      /\ c.original = u.original
  BY CleanedParts
<1> HIDE DEF c
<1>3. /\ \A j \in 1 .. n - 1 : Rest(u, j).kind = u.stack[j].kind
      /\ Top(u) = u.stack[n]
  BY <1>1, RestLaws DEF Top
<1>4. Sheets(c) = Sheets(u) \ {n}
  BY SMTT(30), <1>1, <1>2, <1>3 DEF Sheets
<1>5. n \in Sheets(u) <=> Top(u).kind = "sheet"
  BY <1>1, <1>3 DEF Sheets
<1>6. /\ IsFiniteSet(Sheets(u)) /\ IsFiniteSet(Sheets(c))
      /\ (Cardinality(Sheets(c)) = 0 <=> Sheets(c) = {})
  BY <1>1, <1>2, SheetsFinite
<1>7. c.count = Cardinality(Sheets(c)) /\ (c.count > 0 <=> Sheets(c) /= {})
  <2>1. u.count = Cardinality(Sheets(u))
    BY <1>1 DEF Styled
  <2>2. n \in Sheets(u) => Cardinality(Sheets(c)) = Cardinality(Sheets(u)) - 1
    BY <1>4, <1>6, FS_RemoveElement
  <2>3. n \notin Sheets(u) => Sheets(c) = Sheets(u)
    BY <1>4
  <2>4. c.count = Cardinality(Sheets(c))
    BY <1>2, <1>5, <2>1, <2>2, <2>3
  <2>5. c.count \in Nat
    BY <1>2 DEF Screens
  <2> QED
    BY <1>6, <2>4, <2>5
<1>8. CASE Top(u).kind /= "sheet"
  <2>1. v = c
    BY <1>8 DEF Popped, c
  <2> HIDE DEF v
  <2>2. /\ c.body.fixed = u.body.fixed
        /\ c.body.hidden = IF Top(u).kind = "menu" THEN u.body.hidden ELSE Top(u).lock.hidden
    <3> DEFINE b == IF Top(u).kind = "menu" THEN u.body.hidden ELSE Top(u).lock.hidden
    <3>1. c.body = [u.body EXCEPT !.hidden = b]
      BY <1>2, <1>8
    <3> HIDE DEF b
    <3>2. c.body.fixed = u.body.fixed /\ c.body.hidden = b
      BY <1>1, <3>1 DEF Styles
    <3> QED
      BY <3>2 DEF b
  <2>3. /\ c \in Screens /\ Len(c.stack) = n - 1 /\ DOMAIN c.stack = 1 .. n - 1
        /\ \A j \in 1 .. n - 1 : c.stack[j] = Rest(u, j)
        /\ c.inert = IF "app" \in DOMAIN Top(u).kept THEN Top(u).kept["app"] ELSE u.inert
        /\ c.original = u.original
    BY <1>2
  <2> QED
    BY <1>4, <1>7, <1>8, <2>1, <2>2, <2>3 DEF v
<1>9. CASE Top(u).kind = "sheet" /\ Sheets(c) /= {}
  <2>1. v = [c EXCEPT !.body = Fixed]
    BY <1>7, <1>9 DEF Popped, c, Settled
  <2>2. v = [stack |-> c.stack, body |-> Fixed, inert |-> c.inert, count |-> c.count,
             original |-> c.original]
    BY <1>2, <2>1 DEF Screens
  <2> HIDE DEF v
  <2>3. v \in Screens
    BY <1>2, <2>2, StyleLaws DEF Screens
  <2>4. Sheets(v) = Sheets(c)
    BY <2>2 DEF Sheets
  <2>5. v.stack = c.stack /\ v.body = Fixed /\ v.inert = c.inert /\ v.count = c.count
        /\ v.original = c.original
    BY <2>2
  <2> QED
    BY <1>2, <1>4, <1>7, <1>9, <2>3, <2>4, <2>5 DEF v
<1>10. CASE Top(u).kind = "sheet" /\ Sheets(c) = {}
  <2>1. u.original = Top(u).lock /\ ~Top(u).lock.fixed
    <3>1. n \in Sheets(u) /\ \A j \in Sheets(u) : n <= j
      BY <1>1, <1>4, <1>5, <1>10
    <3> QED
      BY <1>1, <1>3, <3>1 DEF Styled
  <2>2. c.original = Top(u).lock /\ c.original /= Unsaved /\ ~(c.count > 0)
    BY <1>1, <1>2, <1>7, <1>10, <2>1, StyleLaws
  <2>3. v = [c EXCEPT !.body = c.original, !.original = Unsaved]
    BY <1>10, <2>2 DEF Popped, c, Settled
  <2>4. v = [stack |-> c.stack, body |-> Top(u).lock, inert |-> c.inert, count |-> c.count,
             original |-> Unsaved]
    BY <1>2, <2>2, <2>3 DEF Screens
  <2> HIDE DEF v
  <2>5. v \in Screens
    BY <1>1, <1>2, <2>4 DEF Screens
  <2>6. Sheets(v) = Sheets(c)
    BY <2>4 DEF Sheets
  <2>7. v.stack = c.stack /\ v.body = Top(u).lock /\ v.inert = c.inert /\ v.count = c.count
        /\ v.original = Unsaved
    BY <2>4
  <2> QED
    BY <1>2, <1>4, <1>7, <1>10, <2>1, <2>5, <2>6, <2>7 DEF v
<1> QED
  BY <1>8, <1>9, <1>10

LEMMA PoppedStyled ==
  ASSUME width \in Widths, NEW u, Sound(u, width), Len(u.stack) > 0
  PROVE  Styled(Popped(u), width)
<1> DEFINE n == Len(u.stack)
           v == Popped(u)
<1>1. /\ u \in Screens /\ Styled(u, width) /\ n \in Nat /\ n > 0 /\ DOMAIN u.stack = 1 .. n
      /\ u.body \in Styles /\ Top(u).lock \in Styles /\ Top(u) = u.stack[n]
  BY StackLaws DEF Sound, Top
<1>2. /\ v \in Screens /\ Len(v.stack) = n - 1 /\ DOMAIN v.stack = 1 .. n - 1
      /\ \A j \in 1 .. n - 1 : v.stack[j] = Rest(u, j)
      /\ Sheets(v) = Sheets(u) \ {n}
      /\ v.inert = IF "app" \in DOMAIN Top(u).kept THEN Top(u).kept["app"] ELSE u.inert
      /\ v.count = Cardinality(Sheets(v))
      /\ Top(u).kind /= "sheet" =>
           /\ v.body.fixed = u.body.fixed
           /\ v.body.hidden = IF Top(u).kind = "menu" THEN u.body.hidden ELSE Top(u).lock.hidden
           /\ v.original = u.original
      /\ Top(u).kind = "sheet" /\ Sheets(v) /= {} => v.body = Fixed /\ v.original = u.original
      /\ Top(u).kind = "sheet" /\ Sheets(v) = {} =>
              v.body = Top(u).lock /\ ~v.body.fixed /\ v.original = Unsaved
  BY PoppedParts
<1> HIDE DEF v
<1>3. \A j \in 1 .. n - 1 : /\ v.stack[j].name = u.stack[j].name
                            /\ v.stack[j].kind = u.stack[j].kind
                            /\ v.stack[j].lock = u.stack[j].lock
  <2>1. \A j \in 1 .. n - 1 :
          /\ Rest(u, j).name = u.stack[j].name /\ Rest(u, j).kind = u.stack[j].kind
          /\ Rest(u, j).lock = u.stack[j].lock
    BY <1>1, RestLaws
  <2> QED
    BY SMTT(30), <1>2, <2>1
<1>4. Sheets(v) \subseteq 1 .. n - 1 /\ (n \in Sheets(u) <=> Top(u).kind = "sheet")
  BY <1>1, <1>2 DEF Sheets
<1>5. Top(u).kind /= "sheet" => Sheets(v) = Sheets(u)
  BY <1>2, <1>4
<1>6. Top(u).kind /= "sheet" =>
        /\ v.body.fixed = u.body.fixed
        /\ v.body.hidden = IF Top(u).kind = "menu" THEN u.body.hidden ELSE Top(u).lock.hidden
  BY <1>2
<1>7. v.body.fixed <=> Sheets(v) /= {}
  BY <1>1, <1>2, <1>5, <1>6, StyleLaws DEF Styled
<1>8. Sheets(v) = {} => v.original = Unsaved
  BY <1>1, <1>2, <1>5 DEF Styled
<1>9. ASSUME NEW i \in Sheets(v), \A j \in Sheets(v) : i <= j
      PROVE  v.original = v.stack[i].lock /\ ~v.stack[i].lock.fixed
  <2>1. i \in Sheets(u) /\ i \in 1 .. n - 1
    BY <1>2, <1>4
  <2>2. \A j \in Sheets(u) : i <= j
    BY <1>1, <1>2, <1>9, <2>1
  <2>3. u.original = u.stack[i].lock /\ ~u.stack[i].lock.fixed
    BY <1>1, <2>1, <2>2 DEF Styled
  <2>4. v.original = u.original
    BY <1>2, <1>9
  <2> QED
    BY <1>3, <2>1, <2>3, <2>4
<1>10. /\ \A i \in 1 .. n - 1 : Below(v, i) = Below(u, i)
       /\ \A i \in 1 .. n : Low(v, i) <=> Low(u, i)
       /\ Below(v, n) = v.body /\ Below(u, n) = Top(u).lock
  <2>1. Len(v.stack) = n - 1
    BY <1>2
  <2>2. \A i \in 1 .. n - 1 : Below(v, i) = Below(u, i)
    BY <1>1, <1>3, <2>1 DEF Below
  <2>3. \A i \in 1 .. n : Low(v, i) <=> Low(u, i)
    BY SMTT(30), <1>1, <1>3 DEF Low
  <2>4. Below(v, n) = v.body /\ Below(u, n) = Top(u).lock
    BY <1>1, <2>1 DEF Below
  <2> QED
    BY <2>2, <2>3, <2>4
<1>11. CASE Top(u).kind = "menu"
  <2>1. n = 1
    <3>1. n \in DOMAIN u.stack /\ u.stack[n].kind = "menu"
      BY <1>1, <1>11
    <3> HIDE DEF n
    <3> QED
      BY <3>1, MenuIsFirst
  <2>2. Below(u, 2) = u.body /\ ~Low(u, 2) /\ ~Low(u, 1)
    BY <1>1, <1>11, <2>1 DEF Below, Low
  <2>3. u.body = Free
    BY <1>1, <2>1, <2>2 DEF Styled
  <2>4. v.body = Free
    BY <1>2, <1>6, <1>11, <2>3, StackLaws, StyleLaws
  <2>5. 1 .. Len(v.stack) + 1 = {1}
    BY <1>2, <2>1
  <2>6. \A i \in 1 .. Len(v.stack) + 1 : ~Low(v, i) /\ Below(v, i) = Free
    BY <1>10, <2>1, <2>2, <2>4, <2>5
  <2>7. v.count = Cardinality(Sheets(v))
    BY <1>2
  <2> QED
    BY <1>7, <1>8, <1>9, <2>6, <2>7 DEF Styled, v
<1>12. CASE Top(u).kind /= "menu"
  <2>1. ~Low(v, n) => v.body = Free
    <3> SUFFICES ASSUME ~Low(v, n) PROVE v.body = Free
      OBVIOUS
    <3>1. Top(u).lock = Free
      BY <1>1, <1>10 DEF Styled
    <3>2. Sheets(v) = {}
      BY <1>2, <1>3, <1>4 DEF Low, Sheets
    <3>3. ~v.body.fixed /\ ~v.body.hidden
      <4>1. ~v.body.fixed
        BY <1>7, <3>2
      <4>2. ~v.body.hidden
        BY <1>2, <1>6, <1>12, <3>1, <3>2, StyleLaws
      <4> QED
        BY <4>1, <4>2
    <3> QED
      BY <1>2, <3>3, StackLaws, StyleLaws
  <2>2. Low(v, n) =>
          v.body.hidden \/ (width = "tablet" /\ \E j \in 1 .. n - 1 : v.stack[j].name = "manage")
    <3> SUFFICES ASSUME Low(v, n)
                 PROVE  v.body.hidden \/ (width = "tablet" /\ \E j \in 1 .. n - 1 : v.stack[j].name = "manage")
      OBVIOUS
    <3>1. Top(u).lock.hidden \/ (width = "tablet" /\ \E j \in 1 .. n - 1 : u.stack[j].name = "manage")
      BY <1>1, <1>10 DEF Styled
    <3>2. Top(u).lock.hidden => v.body.hidden
      BY <1>2, <1>6, <1>12, StyleLaws
    <3> QED
      BY <1>3, <3>1, <3>2
  <2>3. \A i \in 1 .. n : ~Low(v, i) => Below(v, i) = Free
    BY <1>1, <1>10, <2>1 DEF Styled
  <2>4. \A i \in 1 .. n :
          Low(v, i) => \/ Below(v, i).hidden
                       \/ width = "tablet" /\ \E j \in 1 .. i - 1 : v.stack[j].name = "manage"
    <3>1. ASSUME NEW i \in 1 .. n - 1, Low(v, i)
          PROVE  \/ Below(v, i).hidden
                 \/ width = "tablet" /\ \E j \in 1 .. i - 1 : v.stack[j].name = "manage"
      <4>1. \/ Below(u, i).hidden
            \/ width = "tablet" /\ \E j \in 1 .. i - 1 : u.stack[j].name = "manage"
        BY <1>1, <1>10, <3>1 DEF Styled
      <4> QED
        BY SMTT(30), <1>1, <1>3, <1>10, <4>1
    <3> QED
      BY <1>1, <1>10, <2>2, <3>1
  <2>5. Len(v.stack) + 1 = n
    BY <1>1, <1>2
  <2>6. v.count = Cardinality(Sheets(v))
    BY <1>2
  <2> QED
    BY <1>7, <1>8, <1>9, <2>3, <2>4, <2>5, <2>6 DEF Styled, v
<1> QED
  BY <1>11, <1>12 DEF v

LEMMA PoppedIsolated ==
  ASSUME width \in Widths, NEW u, Sound(u, width), Len(u.stack) > 0
  PROVE  PageIsolated(Popped(u)) /\ (LayersIsolated(u) => LayersIsolated(Popped(u)))
<1> DEFINE n == Len(u.stack)
           v == Popped(u)
<1>1. /\ u \in Screens /\ Placed(u, width) /\ PageIsolated(u) /\ n \in Nat /\ n > 0
      /\ DOMAIN u.stack = 1 .. n /\ Top(u) = u.stack[n]
      /\ \A i \in 1 .. n : u.stack[i].name \in Layers /\ u.stack[i].kept \in Keeps
  BY StackLaws DEF Sound, Top
<1>2. /\ v \in Screens /\ Len(v.stack) = n - 1 /\ DOMAIN v.stack = 1 .. n - 1
      /\ \A j \in 1 .. n - 1 : v.stack[j] = Rest(u, j)
      /\ Sheets(v) = Sheets(u) \ {n}
      /\ v.inert = IF "app" \in DOMAIN Top(u).kept THEN Top(u).kept["app"] ELSE u.inert
      /\ v.count = Cardinality(Sheets(v))
      /\ Top(u).kind /= "sheet" =>
           /\ v.body.fixed = u.body.fixed
           /\ v.body.hidden = IF Top(u).kind = "menu" THEN u.body.hidden ELSE Top(u).lock.hidden
           /\ v.original = u.original
      /\ Top(u).kind = "sheet" /\ Sheets(v) /= {} => v.body = Fixed /\ v.original = u.original
      /\ Top(u).kind = "sheet" /\ Sheets(v) = {} =>
              v.body = Top(u).lock /\ ~v.body.fixed /\ v.original = Unsaved
  BY PoppedParts
<1> HIDE DEF v
<1>3. \A j \in 1 .. n - 1 :
        /\ v.stack[j].name = u.stack[j].name /\ v.stack[j].kind = u.stack[j].kind
        /\ v.stack[j].framed = u.stack[j].framed
        /\ v.stack[j].inert = IF u.stack[j].name \in DOMAIN Top(u).kept
                              THEN Top(u).kept[u.stack[j].name] ELSE u.stack[j].inert
        /\ v.stack[j].kept = Without(u.stack[j].kept, Top(u).name)
  <2>1. \A j \in 1 .. n - 1 :
          /\ Rest(u, j).name = u.stack[j].name /\ Rest(u, j).kind = u.stack[j].kind
          /\ Rest(u, j).framed = u.stack[j].framed
          /\ Rest(u, j).inert = IF u.stack[j].name \in DOMAIN Top(u).kept
                                THEN Top(u).kept[u.stack[j].name] ELSE u.stack[j].inert
          /\ Rest(u, j).kept = Without(u.stack[j].kept, Top(u).name)
    BY <1>1, RestLaws
  <2>2. \A j \in 1 .. n - 1 : v.stack[j] = Rest(u, j)
    BY <1>2
  <2> QED
    BY <2>1, <2>2
<1>4. \A j \in 1 .. n - 1 :
        /\ DOMAIN v.stack[j].kept = DOMAIN u.stack[j].kept \ {Top(u).name}
        /\ \A x \in DOMAIN u.stack[j].kept \ {Top(u).name} : v.stack[j].kept[x] = u.stack[j].kept[x]
  <2>1. \A j \in 1 .. n - 1 : v.stack[j].kept = Without(u.stack[j].kept, Top(u).name)
    BY <1>3
  <2>2. Top(u).name \in Layers /\ \A j \in 1 .. n - 1 : u.stack[j].kept \in Keeps
    BY <1>1
  <2>3. \A k \in Keeps, name \in Layers :
          /\ DOMAIN Without(k, name) = DOMAIN k \ {name}
          /\ \A x \in DOMAIN k \ {name} : Without(k, name)[x] = k[x]
    BY KeepLaws
  <2> SUFFICES ASSUME NEW j \in 1 .. n - 1
               PROVE  /\ DOMAIN v.stack[j].kept = DOMAIN u.stack[j].kept \ {Top(u).name}
                      /\ \A x \in DOMAIN u.stack[j].kept \ {Top(u).name} :
                           v.stack[j].kept[x] = u.stack[j].kept[x]
    OBVIOUS
  <2> DEFINE k == u.stack[j].kept
             t == Top(u).name
  <2>4. v.stack[j].kept = Without(k, t) /\ k \in Keeps /\ t \in Layers
    BY <2>1, <2>2
  <2> HIDE DEF k, t
  <2>5. /\ DOMAIN Without(k, t) = DOMAIN k \ {t}
        /\ \A x \in DOMAIN k \ {t} : Without(k, t)[x] = k[x]
    BY <2>3, <2>4
  <2>6. /\ DOMAIN v.stack[j].kept = DOMAIN k \ {t}
        /\ \A x \in DOMAIN k \ {t} : v.stack[j].kept[x] = k[x]
    BY <2>4, <2>5
  <2> QED
    BY <2>6 DEF k, t
<1>5. Modals(v) = Modals(u) \ {n} /\ Modals(u) \subseteq 1 .. n
  BY SMTT(30), <1>1, <1>2, <1>3 DEF Modals
<1>6. \A i \in 1 .. n : Low(v, i) <=> Low(u, i)
  <2>1. \A j \in 1 .. n - 1 : v.stack[j].kind = u.stack[j].kind
    BY <1>3
  <2>2. \A i \in 1 .. n : 1 .. i - 1 \subseteq 1 .. n - 1
    BY <1>1
  <2> QED
    BY <2>1, <2>2 DEF Low
<1>7. n \in Modals(u) <=> Top(u).kind /= "menu"
  BY <1>1 DEF Modals
<1>8. "app" /= Top(u).name /\ \A j \in 1 .. n - 1 : u.stack[j].name /= Top(u).name
  BY SMTT(30), <1>1, LayerNames DEF Placed
<1>9. \A i \in 1 .. n :
        IF i \in Modals(u) /\ u.stack[i].framed
        THEN "app" \in DOMAIN u.stack[i].kept /\ (u.stack[i].kept["app"] <=> Low(u, i))
        ELSE DOMAIN u.stack[i].kept = {}
  BY <1>1 DEF PageIsolated
<1>10. PageIsolated(v)
  <2>1. \A i, j \in DOMAIN v.stack : i < j /\ v.stack[j].framed => v.stack[i].framed
    <3>1. \A i, j \in 1 .. n : i < j /\ u.stack[j].framed => u.stack[i].framed
      BY SMTT(30), <1>1 DEF PageIsolated
    <3>2. /\ 1 .. n - 1 \subseteq 1 .. n /\ DOMAIN v.stack = 1 .. n - 1
          /\ \A j \in 1 .. n - 1 : v.stack[j].framed = u.stack[j].framed
      BY <1>1, <1>2, <1>3
    <3> QED
      BY <3>1, <3>2
  <2>2. v.inert <=> \E i \in Modals(v) : v.stack[i].framed
    <3>1. CASE n \in Modals(u) /\ u.stack[n].framed
      <4>1. v.inert = Top(u).kept["app"] /\ (Top(u).kept["app"] <=> Low(u, n))
        BY <1>1, <1>2, <1>9, <3>1
      <4>2. \A i \in 1 .. n - 1 : u.stack[i].framed
        BY SMTT(30), <1>1, <3>1 DEF PageIsolated
      <4>3. Low(u, n) <=> \E i \in Modals(v) : v.stack[i].framed
        <5>1. Modals(v) = {i \in 1 .. n - 1 : u.stack[i].kind /= "menu"}
          BY <1>2, <1>3 DEF Modals
        <5> QED
          BY <1>3, <4>2, <5>1 DEF Low
      <4> QED
        BY <4>1, <4>3
    <3>2. CASE ~(n \in Modals(u) /\ u.stack[n].framed)
      <4>1. v.inert = u.inert
        BY <1>1, <1>2, <1>9, <3>2
      <4>2. u.inert <=> \E i \in Modals(u) : u.stack[i].framed
        BY <1>1 DEF PageIsolated
      <4> QED
        BY <1>1, <1>3, <1>5, <3>2, <4>1, <4>2
    <3> QED
      BY <3>1, <3>2
  <2>3. \A i \in DOMAIN v.stack :
          IF i \in Modals(v) /\ v.stack[i].framed
          THEN "app" \in DOMAIN v.stack[i].kept /\ (v.stack[i].kept["app"] <=> Low(v, i))
          ELSE DOMAIN v.stack[i].kept = {}
    <3> SUFFICES ASSUME NEW i \in 1 .. n - 1
                 PROVE  IF i \in Modals(v) /\ v.stack[i].framed
                        THEN /\ "app" \in DOMAIN v.stack[i].kept
                             /\ v.stack[i].kept["app"] <=> Low(v, i)
                        ELSE DOMAIN v.stack[i].kept = {}
      BY <1>2
    <3>1. i \in 1 .. n /\ i /= n
      BY <1>1
    <3>2. /\ v.stack[i].framed = u.stack[i].framed
          /\ DOMAIN v.stack[i].kept = DOMAIN u.stack[i].kept \ {Top(u).name}
          /\ \A x \in DOMAIN u.stack[i].kept \ {Top(u).name} :
               v.stack[i].kept[x] = u.stack[i].kept[x]
      BY <1>3, <1>4
    <3>3. (i \in Modals(v) <=> i \in Modals(u)) /\ (Low(v, i) <=> Low(u, i))
      BY <1>5, <1>6, <3>1
    <3> QED
      BY <1>8, <1>9, <3>1, <3>2, <3>3
  <2>4. \A i \in DOMAIN v.stack : v.stack[i].kind = "menu" => v.stack[i].framed
    <3>1. \A i \in 1 .. n : u.stack[i].kind = "menu" => u.stack[i].framed
      BY <1>1 DEF PageIsolated
    <3>2. 1 .. n - 1 \subseteq 1 .. n
      BY <1>1
    <3> QED
      BY <1>2, <1>3, <3>1, <3>2
  <2> QED
    BY <2>1, <2>2, <2>3, <2>4 DEF PageIsolated
<1>11. ASSUME LayersIsolated(u) PROVE LayersIsolated(v)
  <2>1. \A i \in 1 .. n - 1 : u.stack[i].framed
    BY <1>1, <1>11 DEF LayersIsolated
  <2>2. \A i \in Modals(u) : u.stack[i].inert <=> \E j \in 1 .. n : i < j /\ u.stack[j].framed
    BY <1>1, <1>11 DEF LayersIsolated
  <2>3. \A i, j \in Modals(u) :
          j < i /\ u.stack[i].framed =>
            /\ u.stack[j].name \in DOMAIN u.stack[i].kept
            /\ u.stack[i].kept[u.stack[j].name] <=> j + 1 < i
    BY <1>11 DEF LayersIsolated
  <2>4. ASSUME NEW i \in Modals(v)
        PROVE  v.stack[i].inert <=> \E j \in DOMAIN v.stack : i < j /\ v.stack[j].framed
    <3>1. i \in 1 .. n - 1 /\ i \in Modals(u)
      BY <1>1, <1>5
    <3>2. (\E j \in DOMAIN v.stack : i < j /\ v.stack[j].framed) <=> i + 1 < n
      <4>1. DOMAIN v.stack = 1 .. n - 1 /\ \A j \in 1 .. n - 1 : v.stack[j].framed
        BY <1>2, <1>3, <2>1
      <4>2. i + 1 < n => i + 1 \in 1 .. n - 1 /\ i < i + 1
        BY <1>1, <3>1
      <4>3. \A j \in 1 .. n - 1 : i < j => i + 1 < n
        BY <1>1, <3>1
      <4> QED
        BY <4>1, <4>2, <4>3
    <3>3. CASE n \in Modals(u) /\ u.stack[n].framed
      <4>1. /\ u.stack[i].name \in DOMAIN Top(u).kept
            /\ Top(u).kept[u.stack[i].name] <=> i + 1 < n
        BY <1>1, <2>3, <3>1, <3>3
      <4> QED
        BY <1>3, <3>1, <3>2, <4>1
    <3>4. CASE n \notin Modals(u)
      <4>1. n = 1
        <5>1. n \in DOMAIN u.stack /\ u.stack[n].kind = "menu"
          BY <1>1, <1>7, <3>4
        <5> HIDE DEF n
        <5> QED
          BY <5>1, MenuIsFirst
      <4> QED
        BY <3>1, <4>1
    <3>5. CASE ~u.stack[n].framed
      <4>1. v.stack[i].inert = u.stack[i].inert
        BY <1>1, <1>3, <1>9, <3>1, <3>5
      <4>2. (\E j \in 1 .. n : i < j /\ u.stack[j].framed) <=> i + 1 < n
        BY <1>1, <2>1, <3>1, <3>5
      <4> QED
        BY <2>2, <3>1, <3>2, <4>1, <4>2
    <3> QED
      BY <3>3, <3>4, <3>5
  <2>5. \A i, j \in Modals(v) :
          j < i /\ v.stack[i].framed =>
            /\ v.stack[j].name \in DOMAIN v.stack[i].kept
            /\ v.stack[i].kept[v.stack[j].name] <=> j + 1 < i
    <3> SUFFICES ASSUME NEW i \in Modals(v), NEW j \in Modals(v), j < i, v.stack[i].framed
                 PROVE  /\ v.stack[j].name \in DOMAIN v.stack[i].kept
                        /\ v.stack[i].kept[v.stack[j].name] <=> j + 1 < i
      OBVIOUS
    <3>1. i \in 1 .. n - 1 /\ i \in Modals(u) /\ j \in 1 .. n - 1 /\ j \in Modals(u)
      BY <1>1, <1>5
    <3>2. /\ u.stack[j].name \in DOMAIN u.stack[i].kept
          /\ u.stack[i].kept[u.stack[j].name] <=> j + 1 < i
      BY <1>3, <2>3, <3>1
    <3>3. v.stack[j].name = u.stack[j].name /\ u.stack[j].name /= Top(u).name
      BY SMTT(30), <1>3, <1>8, <3>1
    <3> QED
      BY SMTT(30), <1>4, <3>1, <3>2, <3>3
  <2>6. \A i \in DOMAIN v.stack : i < Len(v.stack) => v.stack[i].framed
    BY <1>1, <1>2, <1>3, <2>1
  <2> QED
    BY <2>4, <2>5, <2>6 DEF LayersIsolated
<1> QED
  BY <1>10, <1>11 DEF v

LEMMA PoppedSound ==
  ASSUME width \in Widths, NEW u, Sound(u, width), Len(u.stack) > 0
  PROVE  /\ Sound(Popped(u), width)
         /\ LayersIsolated(u) => LayersIsolated(Popped(u))
         /\ Len(Popped(u).stack) = Len(u.stack) - 1
         /\ \A j \in 1 .. Len(u.stack) - 1 : /\ Popped(u).stack[j].name = u.stack[j].name
                                             /\ Popped(u).stack[j].kind = u.stack[j].kind
<1> DEFINE n == Len(u.stack)
           v == Popped(u)
<1>1. u \in Screens /\ Placed(u, width) /\ n \in Nat /\ DOMAIN u.stack = 1 .. n
  BY StackLaws DEF Sound
<1>2. /\ v \in Screens /\ Len(v.stack) = n - 1 /\ DOMAIN v.stack = 1 .. n - 1
      /\ \A j \in 1 .. n - 1 : v.stack[j] = Rest(u, j)
  <2>1. LET sheet == Top(u).kind = "sheet" IN
        /\ v \in Screens /\ Len(v.stack) = n - 1 /\ DOMAIN v.stack = 1 .. n - 1
        /\ \A j \in 1 .. n - 1 : v.stack[j] = Rest(u, j)
        /\ Sheets(v) = Sheets(u) \ {n}
        /\ v.inert = IF "app" \in DOMAIN Top(u).kept THEN Top(u).kept["app"] ELSE u.inert
        /\ v.count = Cardinality(Sheets(v))
        /\ ~sheet => /\ v.body.fixed = u.body.fixed
                     /\ v.body.hidden = IF Top(u).kind = "menu" THEN u.body.hidden
                                        ELSE Top(u).lock.hidden
                     /\ v.original = u.original
        /\ sheet /\ Sheets(v) /= {} => v.body = Fixed /\ v.original = u.original
        /\ sheet /\ Sheets(v) = {} =>
             v.body = Top(u).lock /\ ~v.body.fixed /\ v.original = Unsaved
    BY PoppedParts
  <2> HIDE DEF v
  <2> QED
    BY <2>1
<1> HIDE DEF v
<1>3. \A j \in 1 .. n - 1 :
        /\ v.stack[j].name = u.stack[j].name /\ v.stack[j].kind = u.stack[j].kind
        /\ v.stack[j].busy = u.stack[j].busy
  BY SMTT(30), <1>1, <1>2, RestLaws
<1>4. Placed(v, width)
  <2>1. \A i, j \in 1 .. n : u.stack[i].name = u.stack[j].name => i = j
    BY <1>1 DEF Placed
  <2>2. \A i \in 1 .. n : u.stack[i].kind = LayerOf[u.stack[i].name].kind[width]
    BY <1>1 DEF Placed
  <2>3. \A i \in 1 .. n : u.stack[i].name \in {"record", "switcher"} => i = 1
    BY <1>1 DEF Placed
  <2>4. \A i, j \in 1 .. n : u.stack[i].name = "record" /\ u.stack[i].busy => u.stack[j].name /= "share"
    BY <1>1 DEF Placed
  <2>5. 1 .. n - 1 \subseteq 1 .. n
    BY <1>1
  <2>6. \A i, j \in 1 .. n - 1 : v.stack[i].name = v.stack[j].name => i = j
    BY <1>3, <2>1, <2>5
  <2>7. \A i \in 1 .. n - 1 : v.stack[i].kind = LayerOf[v.stack[i].name].kind[width]
    BY <1>3, <2>2, <2>5
  <2>8. \A i \in 1 .. n - 1 : v.stack[i].name \in {"record", "switcher"} => i = 1
    BY <1>3, <2>3, <2>5
  <2>9. \A i, j \in 1 .. n - 1 :
          v.stack[i].name = "record" /\ v.stack[i].busy => v.stack[j].name /= "share"
    BY ZenonT(30), <1>3, <2>4, <2>5
  <2> QED
    BY <1>2, <2>6, <2>7, <2>8, <2>9 DEF Placed
<1>5. Styled(v, width) /\ PageIsolated(v) /\ (LayersIsolated(u) => LayersIsolated(v))
  BY PoppedStyled, PoppedIsolated DEF v
<1> QED
  BY <1>2, <1>3, <1>4, <1>5 DEF Sound, v

-----------------------------------------------------------------------------
(* Closing layers *)

\* One layer closed by a render.
LEMMA ClosedOne ==
  ASSUME NEW u, NEW name
  PROVE  ClosedTogether(u, <<name>>) =
           IF u.stack[IndexOf(u, name)].kind = "sheet" THEN Settled(Cleaned(u, name))
           ELSE Cleaned(u, name)
<1> DEFINE Step(f) == [i \in 0 .. Len(<<name>>) |->
                         IF i = 0 THEN u ELSE Cleaned(f[i - 1], <<name>>[i])]
           after == CHOOSE f : f = Step(f)
           w == [i \in 0 .. 1 |-> IF i = 0 THEN u ELSE Cleaned(u, name)]
<1>1. Len(<<name>>) = 1 /\ <<name>>[1] = name /\ Range(<<name>>) = {name}
  BY DEF Range
<1>2. 0 .. Len(<<name>>) = {0, 1} /\ 0 .. 1 = {0, 1}
  BY <1>1
<1>3. w = Step(w)
  BY <1>1, <1>2
<1>4. after = Step(after)
  <2> HIDE DEF w, Step
  <2> QED
    BY <1>3
<1>5. after[0] = u /\ after[1] = Cleaned(u, name)
  <2> HIDE DEF after
  <2>1. Step(after)[0] = u
    BY <1>2
  <2>2. Step(after)[1] = Cleaned(after[0], name)
    BY <1>1, <1>2
  <2> HIDE DEF Step
  <2> QED
    BY <1>4, <2>1, <2>2
<1>6. ClosedTogether(u, <<name>>) =
        IF \E x \in Range(<<name>>) : u.stack[IndexOf(u, x)].kind = "sheet"
        THEN Settled(after[Len(<<name>>)]) ELSE after[Len(<<name>>)]
  BY DEF ClosedTogether
<1> HIDE DEF after
<1> QED
  BY <1>1, <1>5, <1>6

LEMMA ClosedTop ==
  ASSUME width \in Widths, NEW u, Sound(u, width), Len(u.stack) > 0
  PROVE  ClosedTogether(u, <<Top(u).name>>) = Popped(u)
<1>1. IndexOf(u, Top(u).name) = Len(u.stack)
  BY CleanedParts
<1> QED
  BY <1>1, ClosedOne DEF Popped, Top

LEMMA ClosedNone ==
  ASSUME NEW u
  PROVE  ClosedTogether(u, <<>>) = u
<1> DEFINE Step(f) == [i \in 0 .. Len(<<>>) |->
                         IF i = 0 THEN u ELSE Cleaned(f[i - 1], <<>>[i])]
           after == CHOOSE f : f = Step(f)
           w == [i \in {0} |-> u]
<1>1. Len(<<>>) = 0 /\ Range(<<>>) = {} /\ 0 .. 0 = {0}
  BY DEF Range
<1>2. w = Step(w)
  BY <1>1
<1>3. after = Step(after)
  <2> HIDE DEF w, Step
  <2> QED
    BY <1>2
<1>4. after[0] = u
  <2> HIDE DEF after
  <2>1. Step(after)[0] = u
    BY <1>1
  <2> HIDE DEF Step
  <2> QED
    BY <1>3, <2>1
<1>5. ClosedTogether(u, <<>>) =
        IF \E x \in Range(<<>>) : u.stack[IndexOf(u, x)].kind = "sheet"
        THEN Settled(after[Len(<<>>)]) ELSE after[Len(<<>>)]
  BY DEF ClosedTogether
<1> HIDE DEF after
<1> QED
  BY <1>1, <1>4, <1>5

\* The layers closed one after the other.
LEMMA TurnsOf ==
  ASSUME NEW u, NEW names, Len(names) \in Nat
  PROVE  \E after :
           /\ ClosedInTurn(u, names) = after[Len(names)]
           /\ after[0] = u
           /\ \A i \in 1 .. Len(names) : after[i] = ClosedTogether(after[i - 1], <<names[i]>>)
<1> DEFINE L == Len(names)
           Step(f) == [i \in 0 .. L |-> IF i = 0 THEN u ELSE ClosedTogether(f[i - 1], <<names[i]>>)]
           after == CHOOSE f : f = Step(f)
           StepTo(f, k) == [i \in 0 .. k |-> IF i = 0 THEN u ELSE ClosedTogether(f[i - 1], <<names[i]>>)]
           Bad == {k \in Nat : ~\E f : f = StepTo(f, k)}
<1>1. \E f : f = StepTo(f, 0)
  <2> DEFINE w == [i \in {0} |-> u]
  <2>1. w = StepTo(w, 0)
    OBVIOUS
  <2> HIDE DEF StepTo, w
  <2> QED
    BY <2>1
<1>2. ASSUME NEW k \in Nat, NEW f, f = StepTo(f, k)
      PROVE  \E g : g = StepTo(g, k + 1)
  <2> DEFINE g == [i \in 0 .. k + 1 |-> IF i <= k THEN f[i] ELSE ClosedTogether(f[k], <<names[k + 1]>>)]
  <2>1. \A i \in 0 .. k : f[i] = IF i = 0 THEN u ELSE ClosedTogether(f[i - 1], <<names[i]>>)
    BY <1>2
  <2>2. \A i \in 0 .. k + 1 : g[i] = IF i = 0 THEN u ELSE ClosedTogether(g[i - 1], <<names[i]>>)
    <3>1. ASSUME NEW i \in 0 .. k
          PROVE  g[i] = IF i = 0 THEN u ELSE ClosedTogether(g[i - 1], <<names[i]>>)
      <4>1. g[i] = f[i] /\ (i /= 0 => g[i - 1] = f[i - 1])
        OBVIOUS
      <4> HIDE DEF g
      <4> QED
        BY <2>1, <4>1
    <3>2. g[k + 1] = ClosedTogether(g[k], <<names[k + 1]>>)
      OBVIOUS
    <3> HIDE DEF g
    <3>3. g[k + 1] = ClosedTogether(g[(k + 1) - 1], <<names[k + 1]>>) /\ k + 1 /= 0
      <4>1. (k + 1) - 1 = k /\ k + 1 /= 0
        OBVIOUS
      <4> QED
        BY <3>2, <4>1
    <3> QED
      BY <3>1, <3>3
  <2>3. g = StepTo(g, k + 1)
    <3>1. DOMAIN g = 0 .. k + 1 /\ g = [i \in 0 .. k + 1 |-> g[i]]
      OBVIOUS
    <3> HIDE DEF g
    <3> QED
      BY <2>2, <3>1
  <2> HIDE DEF g, StepTo
  <2> QED
    BY <2>3
<1>3. Bad = {}
  <2> SUFFICES ASSUME Bad /= {} PROVE FALSE
    OBVIOUS
  <2>1. PICK k \in Bad : \A j \in Bad : k <= j
    <3> HIDE DEF Bad
    <3>1. Bad \in SUBSET Nat
      BY DEF Bad
    <3> QED
      BY <3>1, Least
  <2>2. k \in Nat /\ ~\E f : f = StepTo(f, k)
    BY <2>1
  <2> HIDE DEF StepTo
  <2>3. k /= 0
    BY <1>1, <2>2
  <2>4. k - 1 \in Nat /\ k - 1 \notin Bad /\ (k - 1) + 1 = k
    <3> HIDE DEF Bad
    <3> QED
      BY <2>1, <2>2, <2>3
  <2>5. PICK f : f = StepTo(f, k - 1)
    BY <2>4
  <2>6. \E g : g = StepTo(g, (k - 1) + 1)
    BY <1>2, <2>4, <2>5
  <2> QED
    BY <2>2, <2>4, <2>6
<1>4. PICK f : f = StepTo(f, L)
  <2> HIDE DEF StepTo
  <2> QED
    BY <1>3
<1>5. after = Step(after)
  <2>1. f = Step(f)
    BY <1>4
  <2> HIDE DEF Step
  <2> QED
    BY <2>1
<1>6. after[0] = u /\ \A i \in 1 .. L : after[i] = ClosedTogether(after[i - 1], <<names[i]>>)
  <2> HIDE DEF after
  <2>1. \A h : Step(h)[0] = u
    OBVIOUS
  <2>2. \A h : \A i \in 1 .. L : Step(h)[i] = ClosedTogether(h[i - 1], <<names[i]>>)
    OBVIOUS
  <2> HIDE DEF Step
  <2> QED
    BY <1>5, <2>1, <2>2
<1>7. ClosedInTurn(u, names) = after[L]
  BY DEF ClosedInTurn
<1> HIDE DEF after
<1> QED
  BY <1>6, <1>7

LEMMA IndexLaws ==
  ASSUME NEW w, NEW u, Placed(u, w)
  PROVE  /\ \A i \in DOMAIN u.stack : IndexOf(u, u.stack[i].name) = i
         /\ \A name \in Names(u) :
              IndexOf(u, name) \in DOMAIN u.stack /\ u.stack[IndexOf(u, name)].name = name
<1>1. \A name \in Names(u) : \E i \in DOMAIN u.stack : u.stack[i].name = name
  BY DEF Names
<1>2. \A name \in Names(u) :
        IndexOf(u, name) \in DOMAIN u.stack /\ u.stack[IndexOf(u, name)].name = name
  BY <1>1 DEF IndexOf
<1>3. \A i \in DOMAIN u.stack : u.stack[i].name \in Names(u)
  BY DEF Names
<1>4. ASSUME NEW i \in DOMAIN u.stack PROVE IndexOf(u, u.stack[i].name) = i
  <2>1. /\ IndexOf(u, u.stack[i].name) \in DOMAIN u.stack
        /\ u.stack[IndexOf(u, u.stack[i].name)].name = u.stack[i].name
    BY <1>2, <1>3
  <2> QED
    BY <2>1 DEF Placed
<1> QED
  BY <1>2, <1>4

\* In an order that crosses nothing the layers close from the top.
LEMMA FromTheTop ==
  ASSUME width \in Widths, Sound(ui, width), NEW names \in Seq(Names(ui)),
         \A m, k \in DOMAIN names : m < k => names[m] /= names[k],
         ~CrossingInTurn(names)
  PROVE  \A m \in 1 .. Len(names) :
           m <= Len(ui.stack) /\ names[m] = ui.stack[Len(ui.stack) - m + 1].name
<1> DEFINE n == Len(ui.stack)
           c == Len(names)
           idx(m) == IndexOf(ui, names[m])
           Bad == {m \in 1 .. c : ~(idx(m) = n - m + 1)}
<1>1. n \in Nat /\ DOMAIN ui.stack = 1 .. n /\ Placed(ui, width) /\ c \in Nat /\ DOMAIN names = 1 .. c
  BY StackLaws DEF Sound
<1>2. \A m \in 1 .. c : idx(m) \in 1 .. n /\ ui.stack[idx(m)].name = names[m]
  <2>1. \A m \in 1 .. c : names[m] \in Names(ui)
    BY <1>1
  <2> QED
    BY <1>1, <2>1, IndexLaws
<1> HIDE DEF idx
<1>3. \A m, k \in 1 .. c : m < k => idx(k) < idx(m)
  <2>1. \A m, k \in 1 .. c : m < k => ~(idx(m) < idx(k))
    BY <1>1 DEF CrossingInTurn, idx
  <2>2. \A m, k \in 1 .. c : m < k => idx(m) /= idx(k)
    BY SMTT(60), <1>1, <1>2
  <2>3. \A m \in 1 .. c : idx(m) \in Nat
    BY <1>1, <1>2
  <2> QED
    BY <2>1, <2>2, <2>3
<1>4. \A m \in 1 .. c : \A j \in 1 .. n : idx(m) < j => \E k \in 1 .. c : idx(k) = j
  <2> SUFFICES ASSUME NEW m \in 1 .. c, NEW j \in 1 .. n, idx(m) < j
               PROVE  \E k \in 1 .. c : idx(k) = j
    OBVIOUS
  <2>1. ~Crossing(Range(names))
    BY DEF CrossingInTurn
  <2>2. names[m] \in Range(names)
    BY <1>1 DEF Range
  <2>3. ui.stack[j].name \in Range(names)
    BY <1>1, <1>2, <2>1, <2>2 DEF Crossing
  <2>4. PICK k \in 1 .. c : names[k] = ui.stack[j].name
    BY <1>1, <2>3 DEF Range
  <2>5. idx(k) = j
    BY <1>1, <2>4, IndexLaws DEF idx
  <2> QED
    BY <2>5
<1>5. Bad = {}
  <2> SUFFICES ASSUME Bad /= {} PROVE FALSE
    OBVIOUS
  <2>1. PICK m \in Bad : \A k \in Bad : m <= k
    <3>1. Bad \in SUBSET Nat
      BY <1>1
    <3> HIDE DEF Bad
    <3> QED
      BY <3>1, Least
  <2>2. m \in 1 .. c /\ idx(m) /= n - m + 1
    BY <2>1
  <2>3. \A k \in 1 .. c : k < m => idx(k) = n - k + 1
    <3> SUFFICES ASSUME NEW k \in 1 .. c, k < m, k \in Bad PROVE FALSE
      OBVIOUS
    <3> HIDE DEF Bad
    <3> QED
      BY <1>1, <2>1, <2>2
  <2> HIDE DEF Bad
  <2>4. idx(m) < n - m + 1
    <3>1. CASE m = 1
      BY <1>1, <1>2, <2>2, <3>1
    <3>2. CASE m > 1
      <4>1. m - 1 \in 1 .. c /\ m - 1 < m
        BY <1>1, <2>2, <3>2
      <4>2. idx(m - 1) = n - (m - 1) + 1 /\ idx(m) < idx(m - 1)
        BY <1>3, <2>2, <2>3, <4>1
      <4>3. idx(m) \in 1 .. n
        BY <1>2, <2>2
      <4> QED
        BY SMTT(30), <1>1, <2>2, <4>2, <4>3
    <3> QED
      BY <1>1, <2>2, <3>1, <3>2
  <2>5. n - m + 1 \in 1 .. n
    BY SMTT(30), <1>1, <1>2, <2>2, <2>4
  <2>6. PICK k \in 1 .. c : idx(k) = n - m + 1
    BY <1>4, <2>2, <2>4, <2>5
  <2>7. CASE k < m
    BY <1>1, <2>2, <2>3, <2>6, <2>7
  <2>8. CASE k = m
    BY <2>2, <2>6, <2>8
  <2>9. CASE m < k
    <3>1. idx(k) < idx(m) /\ idx(m) \in 1 .. n /\ idx(k) \in 1 .. n
      BY <1>2, <1>3, <2>2, <2>9
    <3> QED
      BY <1>1, <2>2, <2>4, <2>6, <3>1
  <2> QED
    BY <1>1, <2>2, <2>7, <2>8, <2>9
<1>6. \A m \in 1 .. c : idx(m) = n - m + 1
  BY <1>5
<1> HIDE DEF Bad
<1> SUFFICES ASSUME NEW m \in 1 .. c
             PROVE  m <= n /\ names[m] = ui.stack[n - m + 1].name
  OBVIOUS
<1>7. idx(m) = n - m + 1 /\ idx(m) \in 1 .. n /\ ui.stack[idx(m)].name = names[m]
  BY <1>2, <1>6
<1> QED
  BY <1>1, <1>7

LEMMA ClosedInTurnSound ==
  ASSUME width \in Widths, Sound(ui, width), NEW names \in Seq(Names(ui)),
         \A m, k \in DOMAIN names : m < k => names[m] /= names[k],
         ~CrossingInTurn(names)
  PROVE  /\ Sound(ClosedInTurn(ui, names), width)
         /\ LayersIsolated(ui) => LayersIsolated(ClosedInTurn(ui, names))
<1> DEFINE n == Len(ui.stack)
           c == Len(names)
<1>1. n \in Nat /\ DOMAIN ui.stack = 1 .. n /\ c \in Nat /\ DOMAIN names = 1 .. c
  BY StackLaws DEF Sound
<1>2. PICK after :
        /\ ClosedInTurn(ui, names) = after[c]
        /\ after[0] = ui
        /\ \A i \in 1 .. c : after[i] = ClosedTogether(after[i - 1], <<names[i]>>)
  BY <1>1, TurnsOf
<1>3. \A m \in 1 .. c : m <= n /\ names[m] = ui.stack[n - m + 1].name
  BY FromTheTop
<1> DEFINE Good(i) == /\ Sound(after[i], width)
                      /\ LayersIsolated(ui) => LayersIsolated(after[i])
                      /\ Len(after[i].stack) = n - i
                      /\ \A j \in 1 .. n - i : after[i].stack[j].name = ui.stack[j].name
           Bad == {i \in 0 .. c : ~Good(i)}
<1>4. Good(0)
  BY <1>1, <1>2
<1>5. ASSUME NEW i \in 0 .. c - 1, Good(i) PROVE Good(i + 1)
  <2> DEFINE v == after[i]
  <2>1. i + 1 \in 1 .. c /\ (i + 1) - 1 = i /\ i < n /\ n - i \in Nat
        /\ names[i + 1] = ui.stack[n - i].name
    <3>1. i + 1 \in 1 .. c
      BY <1>1
    <3>2. i + 1 <= n /\ names[i + 1] = ui.stack[n - (i + 1) + 1].name
      BY <1>3, <3>1
    <3> HIDE DEF n, c
    <3>3. n - (i + 1) + 1 = n - i
      BY <1>1
    <3>4. (i + 1) - 1 = i /\ i < n /\ n - i \in Nat
      BY <1>1, <3>2
    <3>5. names[i + 1] = ui.stack[n - i].name
      BY <3>2, <3>3
    <3> QED
      BY <3>1, <3>4, <3>5
  <2>2. Sound(v, width) /\ Len(v.stack) = n - i /\ Len(v.stack) > 0
        /\ (LayersIsolated(ui) => LayersIsolated(v))
        /\ \A j \in 1 .. n - i : v.stack[j].name = ui.stack[j].name
    BY <1>1, <1>5, <2>1
  <2>3. Top(v).name = names[i + 1]
    <3>1. n - i \in 1 .. n - i /\ Len(v.stack) = n - i
      BY <1>1, <2>1, <2>2
    <3>2. v.stack[n - i].name = ui.stack[n - i].name
      BY <2>2, <3>1
    <3> HIDE DEF v
    <3> QED
      BY <2>1, <3>1, <3>2 DEF Top
  <2>4. after[i + 1] = ClosedTogether(v, <<Top(v).name>>)
    BY <1>2, <2>1, <2>3
  <2> HIDE DEF v, Good
  <2>5. after[i + 1] = Popped(v)
    BY <2>2, <2>4, ClosedTop
  <2>6. /\ Sound(Popped(v), width)
        /\ LayersIsolated(v) => LayersIsolated(Popped(v))
        /\ Len(Popped(v).stack) = Len(v.stack) - 1
        /\ \A j \in 1 .. Len(v.stack) - 1 : /\ Popped(v).stack[j].name = v.stack[j].name
                                            /\ Popped(v).stack[j].kind = v.stack[j].kind
    BY <2>2, PoppedSound
  <2>7. n - (i + 1) = Len(v.stack) - 1 /\ 1 .. n - (i + 1) \subseteq 1 .. n - i
    BY <1>1, <2>1, <2>2
  <2> QED
    BY <2>2, <2>5, <2>6, <2>7 DEF Good
<1>6. Bad = {}
  <2> SUFFICES ASSUME Bad /= {} PROVE FALSE
    OBVIOUS
  <2> HIDE DEF Good
  <2>1. PICK m \in Bad : \A k \in Bad : m <= k
    <3>1. Bad \in SUBSET Nat
      BY <1>1
    <3> HIDE DEF Bad
    <3> QED
      BY <3>1, Least
  <2>2. m \in 0 .. c /\ ~Good(m)
    BY <2>1
  <2>3. m /= 0
    BY <1>4, <2>2
  <2>4. m - 1 \in 0 .. c - 1 /\ (m - 1) + 1 = m /\ m - 1 \in 0 .. c /\ m - 1 < m
    BY <1>1, <2>2, <2>3
  <2>5. Good(m - 1)
    <3> SUFFICES ASSUME m - 1 \in Bad PROVE FALSE
      BY <2>4
    <3> HIDE DEF Bad
    <3> QED
      BY <1>1, <2>1, <2>2
  <2>6. Good((m - 1) + 1)
    BY <1>5, <2>4, <2>5
  <2> QED
    BY <2>2, <2>4, <2>6
<1>7. Good(c)
  <2> HIDE DEF Good
  <2> QED
    BY <1>1, <1>6
<1> QED
  BY <1>2, <1>7

-----------------------------------------------------------------------------
(* Requests and frames *)

\* The styles depend on nothing else.
LEMMA StyledSame ==
  ASSUME NEW w, NEW u \in Screens, NEW v \in Screens, Styled(u, w), Len(v.stack) = Len(u.stack),
         \A i \in 1 .. Len(u.stack) :
           /\ v.stack[i].name = u.stack[i].name /\ v.stack[i].kind = u.stack[i].kind
           /\ v.stack[i].lock = u.stack[i].lock,
         v.body = u.body, v.count = u.count, v.original = u.original
  PROVE  Styled(v, w)
<1> DEFINE n == Len(u.stack)
<1>1. n \in Nat /\ DOMAIN u.stack = 1 .. n /\ DOMAIN v.stack = 1 .. n
  BY StackLaws
<1>2. Sheets(v) = Sheets(u) /\ Sheets(u) \subseteq 1 .. n
  BY <1>1 DEF Sheets
<1>3. \A i \in 1 .. n + 1 : 1 .. i - 1 \subseteq 1 .. n
  BY <1>1
<1>4. \A i \in 1 .. n + 1 : Low(v, i) <=> Low(u, i)
  BY <1>3 DEF Low
<1>5. \A i \in 1 .. n + 1 : Below(v, i) = Below(u, i)
  BY <1>1 DEF Below
<1>6. \A i \in 1 .. n + 1 :
        (\E j \in 1 .. i - 1 : v.stack[j].name = "manage") <=>
        (\E j \in 1 .. i - 1 : u.stack[j].name = "manage")
  BY <1>3
<1>7. \A i \in 1 .. n + 1 : ~Low(v, i) => Below(v, i) = Free
  BY <1>4, <1>5 DEF Styled
<1>8. \A i \in 1 .. n + 1 :
        Low(v, i) => \/ Below(v, i).hidden
                     \/ w = "tablet" /\ \E j \in 1 .. i - 1 : v.stack[j].name = "manage"
  BY <1>4, <1>5, <1>6 DEF Styled
<1>9. \A i \in Sheets(v) :
        (\A j \in Sheets(v) : i <= j) => v.original = v.stack[i].lock /\ ~v.stack[i].lock.fixed
  BY <1>2 DEF Styled
<1>10. /\ v.count = Cardinality(Sheets(v))
       /\ v.body.fixed <=> Sheets(v) /= {}
       /\ Sheets(v) = {} => v.original = Unsaved
  BY <1>2 DEF Styled
<1> QED
  BY <1>7, <1>8, <1>9, <1>10 DEF Styled

LEMMA PlacedSame ==
  ASSUME NEW w, NEW u \in Screens, NEW v \in Screens, Placed(u, w), Len(v.stack) = Len(u.stack),
         \A i \in 1 .. Len(u.stack) :
           v.stack[i].name = u.stack[i].name /\ v.stack[i].kind = u.stack[i].kind,
         \A i, j \in 1 .. Len(u.stack) :
           v.stack[i].name = "record" /\ v.stack[i].busy => v.stack[j].name /= "share"
  PROVE  Placed(v, w) /\ Modals(v) = Modals(u) /\ (\A i \in 1 .. Len(u.stack) + 1 : Low(v, i) <=> Low(u, i))
<1>1. Len(u.stack) \in Nat /\ DOMAIN u.stack = 1 .. Len(u.stack) /\ DOMAIN v.stack = 1 .. Len(u.stack)
  BY StackLaws
<1>2. \A i \in 1 .. Len(u.stack) + 1 : 1 .. i - 1 \subseteq 1 .. Len(u.stack)
  BY <1>1
<1>3. Placed(v, w)
  BY ZenonT(30), <1>1 DEF Placed
<1> QED
  BY <1>1, <1>2, <1>3 DEF Modals, Low

\* The layers as they are, but one busy or not.
Marked(u, name, busy) == [u EXCEPT !.stack[IndexOf(u, name)].busy = busy]

LEMMA MarkedSound ==
  ASSUME width \in Widths, NEW u, Sound(u, width), NEW name \in Names(u), NEW busy \in BOOLEAN,
         busy /\ name = "record" => "share" \notin Names(u)
  PROVE  /\ Sound(Marked(u, name, busy), width)
         /\ LayersIsolated(u) => LayersIsolated(Marked(u, name, busy))
         /\ Len(Marked(u, name, busy).stack) = Len(u.stack)
         /\ \A i \in 1 .. Len(u.stack) :
              /\ Marked(u, name, busy).stack[i].name = u.stack[i].name
              /\ Marked(u, name, busy).stack[i].framed = u.stack[i].framed
              /\ Marked(u, name, busy).stack[i].busy =
                   IF u.stack[i].name = name THEN busy ELSE u.stack[i].busy
         /\ ReadBody(Marked(u, name, busy)) = ReadBody(u)
<1> DEFINE n == Len(u.stack)
           k == IndexOf(u, name)
           v == Marked(u, name, busy)
           e == [u.stack[k] EXCEPT !.busy = busy]
<1>1. /\ u \in Screens /\ Placed(u, width) /\ Styled(u, width) /\ PageIsolated(u)
      /\ u.stack \in Seq(Entries) /\ n \in Nat /\ DOMAIN u.stack = 1 .. n
      /\ u.body \in Styles /\ u.inert \in BOOLEAN /\ u.count \in Nat
      /\ u.original \in Styles \cup {Unsaved}
  BY StackLaws DEF Sound
<1>2. k \in 1 .. n /\ u.stack[k].name = name /\ \A i \in 1 .. n : u.stack[i].name = name => i = k
  BY <1>1, IndexLaws
<1> HIDE DEF k
<1>3. v = [stack |-> [u.stack EXCEPT ![k] = e], body |-> u.body, inert |-> u.inert,
           count |-> u.count, original |-> u.original]
  <2>1. v = [u EXCEPT !.stack = [u.stack EXCEPT ![k] = e]]
    BY DEF Marked, k
  <2> HIDE DEF v, e
  <2> QED
    BY <1>1, <2>1 DEF Screens
<1>4. /\ e \in Entries /\ e.name = u.stack[k].name /\ e.kind = u.stack[k].kind /\ e.busy = busy
      /\ e.framed = u.stack[k].framed /\ e.inert = u.stack[k].inert /\ e.lock = u.stack[k].lock
      /\ e.kept = u.stack[k].kept
  <2>1. u.stack[k] \in Entries
    BY <1>1, <1>2
  <2> QED
    BY <2>1 DEF Entries
<1> HIDE DEF e, v
<1>5. v \in Screens /\ Len(v.stack) = n /\ DOMAIN v.stack = 1 .. n
      /\ \A i \in 1 .. n : v.stack[i] = IF i = k THEN e ELSE u.stack[i]
  BY <1>1, <1>2, <1>3, <1>4 DEF Screens
<1>6. v.body = u.body /\ v.inert = u.inert /\ v.count = u.count /\ v.original = u.original
  BY <1>3
<1>7. \A i \in 1 .. n :
        /\ v.stack[i].name = u.stack[i].name /\ v.stack[i].kind = u.stack[i].kind
        /\ v.stack[i].lock = u.stack[i].lock /\ v.stack[i].framed = u.stack[i].framed
        /\ v.stack[i].inert = u.stack[i].inert /\ v.stack[i].kept = u.stack[i].kept
        /\ v.stack[i].busy = IF u.stack[i].name = name THEN busy ELSE u.stack[i].busy
  BY <1>2, <1>4, <1>5
<1>8. \A i, j \in 1 .. n : v.stack[i].name = "record" /\ v.stack[i].busy => v.stack[j].name /= "share"
  <2>1. \A i, j \in 1 .. n : u.stack[i].name = "record" /\ u.stack[i].busy => u.stack[j].name /= "share"
    BY <1>1 DEF Placed
  <2>2. "share" \notin Names(u) => \A j \in 1 .. n : u.stack[j].name /= "share"
    BY <1>1 DEF Names
  <2> QED
    BY SMTT(30), <1>7, <2>1, <2>2
<1>9. Placed(v, width) /\ Modals(v) = Modals(u) /\ (\A i \in 1 .. n + 1 : Low(v, i) <=> Low(u, i))
  BY <1>1, <1>5, <1>7, <1>8, PlacedSame
<1>10. Styled(v, width)
  BY <1>1, <1>5, <1>6, <1>7, StyledSame
<1>11. Modals(u) \subseteq 1 .. n
  BY <1>1 DEF Modals
<1>12. PageIsolated(v)
  <2>1. /\ \A i, j \in 1 .. n : i < j /\ u.stack[j].framed => u.stack[i].framed
        /\ \A i \in 1 .. n : u.stack[i].kind = "menu" => u.stack[i].framed
        /\ u.inert <=> \E i \in Modals(u) : u.stack[i].framed
    BY <1>1 DEF PageIsolated
  <2>2. \A i \in 1 .. n :
          IF i \in Modals(u) /\ u.stack[i].framed
          THEN "app" \in DOMAIN u.stack[i].kept /\ (u.stack[i].kept["app"] <=> Low(u, i))
          ELSE DOMAIN u.stack[i].kept = {}
    BY <1>1 DEF PageIsolated
  <2>3. /\ \A i, j \in DOMAIN v.stack : i < j /\ v.stack[j].framed => v.stack[i].framed
        /\ \A i \in DOMAIN v.stack : v.stack[i].kind = "menu" => v.stack[i].framed
        /\ v.inert <=> \E i \in Modals(v) : v.stack[i].framed
    BY <1>5, <1>6, <1>7, <1>9, <1>11, <2>1
  <2>4. \A i \in DOMAIN v.stack :
          IF i \in Modals(v) /\ v.stack[i].framed
          THEN "app" \in DOMAIN v.stack[i].kept /\ (v.stack[i].kept["app"] <=> Low(v, i))
          ELSE DOMAIN v.stack[i].kept = {}
    <3>1. \A i \in 1 .. n : Low(v, i) <=> Low(u, i)
      BY <1>1, <1>9
    <3>2. \A i \in 1 .. n : v.stack[i].kept = u.stack[i].kept /\ v.stack[i].framed = u.stack[i].framed
      BY <1>7
    <3> QED
      BY <1>5, <1>9, <2>2, <3>1, <3>2
  <2> QED
    BY <2>3, <2>4 DEF PageIsolated
<1>13. LayersIsolated(u) => LayersIsolated(v)
  <2> SUFFICES ASSUME LayersIsolated(u) PROVE LayersIsolated(v)
    OBVIOUS
  <2>1. \A i \in DOMAIN v.stack : i < Len(v.stack) => v.stack[i].framed
    BY <1>1, <1>5, <1>7 DEF LayersIsolated
  <2>2. \A i \in 1 .. n : v.stack[i].framed = u.stack[i].framed
    BY <1>7
  <2>3. ASSUME NEW i \in Modals(v)
        PROVE  v.stack[i].inert <=> \E j \in DOMAIN v.stack : i < j /\ v.stack[j].framed
    <3>1. i \in 1 .. n /\ v.stack[i].inert = u.stack[i].inert
      BY <1>7, <1>9, <1>11, <2>3
    <3>2. u.stack[i].inert <=> \E j \in 1 .. n : i < j /\ u.stack[j].framed
      BY <1>1, <1>9, <2>3 DEF LayersIsolated
    <3> QED
      BY <1>5, <2>2, <3>1, <3>2
  <2>4. ASSUME NEW i \in Modals(v), NEW j \in Modals(v), j < i, v.stack[i].framed
        PROVE  /\ v.stack[j].name \in DOMAIN v.stack[i].kept
               /\ v.stack[i].kept[v.stack[j].name] <=> j + 1 < i
    <3>1. i \in Modals(u) /\ j \in Modals(u) /\ i \in 1 .. n /\ j \in 1 .. n
      BY <1>9, <1>11, <2>4
    <3>2. /\ v.stack[i].framed = u.stack[i].framed /\ v.stack[i].kept = u.stack[i].kept
          /\ v.stack[j].name = u.stack[j].name
      BY <1>7, <3>1
    <3> QED
      BY <2>4, <3>1, <3>2 DEF LayersIsolated
  <2> QED
    BY <2>1, <2>3, <2>4 DEF LayersIsolated
<1>14. ReadBody(v) = ReadBody(u)
  BY <1>6 DEF ReadBody
<1> QED
  BY <1>5, <1>7, <1>9, <1>10, <1>12, <1>13, <1>14 DEF Sound, v

LEMMA KeptLaws ==
  ASSUME NEW u \in Screens, NEW w, Placed(u, w), NEW i \in DOMAIN u.stack
  PROVE  /\ Kept(u, i) \in Keeps
         /\ DOMAIN Kept(u, i) = {"app"} \cup {u.stack[j].name : j \in Modals(u) \ {i}}
         /\ Kept(u, i)["app"] <=> u.inert \/ \E j \in New(u) : j < i
         /\ \A j \in Modals(u) \ {i} :
              Kept(u, i)[u.stack[j].name] <=>
                u.stack[j].inert \/ \E m \in New(u) : m < i /\ m /= j
<1> DEFINE D == {"app"} \cup {u.stack[j].name : j \in Modals(u) \ {i}}
           V(k) == IF k = "app" THEN u.inert \/ \E j \in New(u) : j < i
                   ELSE \/ u.stack[IndexOf(u, k)].inert
                        \/ \E j \in New(u) : j < i /\ u.stack[j].name /= k
<1>1. /\ DOMAIN u.stack = 1 .. Len(u.stack) /\ u.inert \in BOOLEAN
      /\ \A j \in DOMAIN u.stack : u.stack[j].name \in Layers /\ u.stack[j].inert \in BOOLEAN
      /\ Modals(u) \subseteq DOMAIN u.stack /\ New(u) \subseteq DOMAIN u.stack
  <2>1. \A j \in DOMAIN u.stack : u.stack[j] \in Entries
    BY StackLaws
  <2> QED
    BY <2>1, StackLaws DEF Entries, Modals, New
<1>2. Kept(u, i) = [k \in D |-> V(k)]
  BY DEF Kept
<1>3. D \subseteq Layers \cup {"app"}
  BY <1>1
<1>4. \A j \in DOMAIN u.stack : u.stack[j].name /= "app" /\ IndexOf(u, u.stack[j].name) = j
  BY <1>1, LayerNames, IndexLaws
<1>5. \A k \in D : V(k) \in BOOLEAN
  <2>1. V("app") \in BOOLEAN
    BY <1>1
  <2>2. \A j \in Modals(u) : V(u.stack[j].name) \in BOOLEAN
    BY <1>1, <1>4
  <2> HIDE DEF V
  <2> QED
    BY <2>1, <2>2
<1>6. Kept(u, i) \in [D -> BOOLEAN]
  <2> HIDE DEF V, D
  <2> QED
    BY <1>2, <1>5
<1>7. Kept(u, i) \in Keeps
  BY <1>3, <1>6 DEF Keeps
<1>8. V("app") <=> u.inert \/ \E j \in New(u) : j < i
  OBVIOUS
<1>9. \A j \in Modals(u) \ {i} :
        V(u.stack[j].name) <=> u.stack[j].inert \/ \E m \in New(u) : m < i /\ m /= j
  <2> SUFFICES ASSUME NEW j \in Modals(u) \ {i}
               PROVE  V(u.stack[j].name) <=> u.stack[j].inert \/ \E m \in New(u) : m < i /\ m /= j
    OBVIOUS
  <2>1. u.stack[j].name /= "app" /\ IndexOf(u, u.stack[j].name) = j
    BY <1>1, <1>4
  <2>2. \A m \in New(u) : u.stack[m].name = u.stack[j].name <=> m = j
    BY <1>1, <1>4, <2>1
  <2>3. V(u.stack[j].name) <=> u.stack[j].inert \/ \E m \in New(u) : m < i /\ u.stack[m].name /= u.stack[j].name
    BY <2>1
  <2> HIDE DEF V
  <2> QED
    BY <2>2, <2>3
<1>10. DOMAIN Kept(u, i) = D /\ \A k \in D : Kept(u, i)[k] = V(k)
  <2> HIDE DEF V, D
  <2> QED
    BY <1>2
<1>11. "app" \in D /\ \A j \in Modals(u) \ {i} : u.stack[j].name \in D
  OBVIOUS
<1> HIDE DEF V
<1> QED
  BY <1>7, <1>8, <1>9, <1>10, <1>11

\* After their frames the layers are as they were, but for the isolation.
LEMMA IsolatedParts ==
  ASSUME NEW u \in Screens, NEW w, Placed(u, w)
  PROVE  LET v == Isolated(u) IN
         /\ v \in Screens /\ Len(v.stack) = Len(u.stack) /\ DOMAIN v.stack = 1 .. Len(u.stack)
         /\ v.body = u.body /\ v.count = u.count /\ v.original = u.original
         /\ v.inert <=> u.inert \/ New(u) /= {}
         /\ \A i \in 1 .. Len(u.stack) :
              /\ v.stack[i].name = u.stack[i].name /\ v.stack[i].kind = u.stack[i].kind
              /\ v.stack[i].lock = u.stack[i].lock /\ v.stack[i].busy = u.stack[i].busy
              /\ v.stack[i].framed
              /\ v.stack[i].inert <=> u.stack[i].inert \/ (i \in Modals(u) /\ New(u) \ {i} /= {})
              /\ v.stack[i].kept = IF i \in New(u) THEN Kept(u, i) ELSE u.stack[i].kept
<1> DEFINE n == Len(u.stack)
           v == Isolated(u)
           b(i) == u.stack[i].inert \/ (i \in Modals(u) /\ New(u) \ {i} /= {})
           k(i) == IF i \in New(u) THEN Kept(u, i) ELSE u.stack[i].kept
           E(i) == [u.stack[i] EXCEPT !.inert = b(i), !.kept = k(i), !.framed = TRUE]
<1>1. /\ u.stack \in Seq(Entries) /\ n \in Nat /\ DOMAIN u.stack = 1 .. n
      /\ u.inert \in BOOLEAN /\ u.body \in Styles /\ u.count \in Nat
      /\ u.original \in Styles \cup {Unsaved}
      /\ \A i \in 1 .. n : u.stack[i] \in Entries /\ u.stack[i].kept \in Keeps
  BY StackLaws
<1>2. v = [u EXCEPT !.inert = u.inert \/ New(u) /= {}, !.stack = [i \in DOMAIN u.stack |-> E(i)]]
  BY DEF Isolated
<1> HIDE DEF E
<1>3. v = [stack |-> [i \in 1 .. n |-> E(i)], body |-> u.body, inert |-> u.inert \/ New(u) /= {},
           count |-> u.count, original |-> u.original]
  <2> DEFINE s == [i \in DOMAIN u.stack |-> E(i)]
             x == (u.inert \/ New(u) /= {})
  <2>1. v = [u EXCEPT !.inert = x, !.stack = s]
    BY <1>2
  <2>2. s = [i \in 1 .. n |-> E(i)]
    BY <1>1
  <2> HIDE DEF s, v, x
  <2>3. v = [stack |-> s, body |-> u.body, inert |-> x, count |-> u.count, original |-> u.original]
    BY <2>1 DEF Screens
  <2> QED
    BY <2>2, <2>3 DEF x
<1>4. ASSUME NEW i \in 1 .. n
      PROVE  /\ E(i) \in Entries
             /\ E(i).name = u.stack[i].name /\ E(i).kind = u.stack[i].kind
             /\ E(i).lock = u.stack[i].lock /\ E(i).busy = u.stack[i].busy
             /\ E(i).framed = TRUE /\ E(i).inert = b(i) /\ E(i).kept = k(i)
  <2> DEFINE e == u.stack[i]
             bi == b(i)
             ki == k(i)
  <2>1. e \in Entries /\ e.inert \in BOOLEAN /\ e.kept \in Keeps
    BY <1>1 DEF Entries
  <2>2. bi \in BOOLEAN
    BY <2>1
  <2>3. ki \in Keeps
    <3>1. Kept(u, i) \in Keeps
      BY <1>1, KeptLaws
    <3> QED
      BY <2>1, <3>1
  <2>4. E(i) = [e EXCEPT !.inert = bi, !.kept = ki, !.framed = TRUE]
    BY DEF E
  <2> HIDE DEF e, bi, ki
  <2>5. E(i) = [name |-> e.name, kind |-> e.kind, busy |-> e.busy, framed |-> TRUE, inert |-> bi,
                lock |-> e.lock, kept |-> ki]
    BY <2>1, <2>4 DEF Entries
  <2>6. /\ e.name \in Layers /\ e.kind \in {"sheet", "dialog", "palette", "menu", "none"}
        /\ e.busy \in BOOLEAN /\ e.lock \in Styles
    BY <2>1 DEF Entries
  <2>7. E(i) \in Entries
    BY <2>2, <2>3, <2>5, <2>6 DEF Entries
  <2>8. /\ E(i).name = e.name /\ E(i).kind = e.kind /\ E(i).lock = e.lock /\ E(i).busy = e.busy
        /\ E(i).framed = TRUE /\ E(i).inert = bi /\ E(i).kept = ki
    BY <2>5
  <2> QED
    BY <2>7, <2>8 DEF e, bi, ki
<1>5. [i \in 1 .. n |-> E(i)] \in Seq(Entries) /\ Len([i \in 1 .. n |-> E(i)]) = n
  <2>1. \A i \in 1 .. n : E(i) \in Entries
    BY <1>4
  <2>2. n \in Nat
    BY <1>1
  <2> HIDE DEF n
  <2> QED
    BY <2>1, <2>2
<1> HIDE DEF v
<1>6. v.inert = (u.inert \/ New(u) /= {})
  BY <1>3
<1>7. v.stack = [i \in 1 .. n |-> E(i)] /\ v.body = u.body /\ v.count = u.count
      /\ v.original = u.original
  BY <1>3
<1>8. v \in Screens
  <2> DEFINE x == (u.inert \/ New(u) /= {})
             s == [i \in 1 .. n |-> E(i)]
  <2>1. x \in BOOLEAN /\ s \in Seq(Entries)
    BY <1>1, <1>5
  <2>2. v = [stack |-> s, body |-> u.body, inert |-> x, count |-> u.count, original |-> u.original]
    BY <1>3
  <2> HIDE DEF x, s
  <2> QED
    BY <1>1, <2>1, <2>2 DEF Screens
<1>9. Len(v.stack) = n /\ DOMAIN v.stack = 1 .. n /\ \A i \in 1 .. n : v.stack[i] = E(i)
  BY <1>5, <1>7
<1>10. \A i \in 1 .. n :
        /\ v.stack[i].name = u.stack[i].name /\ v.stack[i].kind = u.stack[i].kind
        /\ v.stack[i].lock = u.stack[i].lock /\ v.stack[i].busy = u.stack[i].busy
        /\ v.stack[i].framed = TRUE /\ v.stack[i].inert = b(i) /\ v.stack[i].kept = k(i)
  <2> HIDE DEF b, k
  <2> QED
    BY ZenonT(30), <1>4, <1>9
<1> QED
  BY <1>6, <1>7, <1>8, <1>9, <1>10 DEF v

LEMMA IsolatedSound ==
  ASSUME width \in Widths, NEW u, Sound(u, width), New(u) /= {}
  PROVE  /\ Sound(Isolated(u), width)
         /\ LayersIsolated(u) => LayersIsolated(Isolated(u))
<1> DEFINE n == Len(u.stack)
           v == Isolated(u)
<1>1. /\ u \in Screens /\ Placed(u, width) /\ Styled(u, width) /\ PageIsolated(u)
      /\ n \in Nat /\ DOMAIN u.stack = 1 .. n
      /\ Modals(u) = {i \in 1 .. n : u.stack[i].kind /= "menu"}
      /\ New(u) = {i \in 1 .. n : ~u.stack[i].framed}
  BY StackLaws DEF Sound, Modals, New
<1>2. /\ v \in Screens /\ Len(v.stack) = n /\ DOMAIN v.stack = 1 .. n
      /\ v.body = u.body /\ v.count = u.count /\ v.original = u.original
      /\ v.inert <=> u.inert \/ New(u) /= {}
      /\ \A i \in 1 .. n :
           /\ v.stack[i].name = u.stack[i].name /\ v.stack[i].kind = u.stack[i].kind
           /\ v.stack[i].lock = u.stack[i].lock /\ v.stack[i].busy = u.stack[i].busy
           /\ v.stack[i].framed
           /\ v.stack[i].inert <=> u.stack[i].inert \/ (i \in Modals(u) /\ New(u) \ {i} /= {})
           /\ v.stack[i].kept = IF i \in New(u) THEN Kept(u, i) ELSE u.stack[i].kept
  BY <1>1, IsolatedParts
<1>3. \A i \in 1 .. n :
        /\ Kept(u, i) \in Keeps
        /\ DOMAIN Kept(u, i) = {"app"} \cup {u.stack[j].name : j \in Modals(u) \ {i}}
        /\ Kept(u, i)["app"] <=> u.inert \/ \E j \in New(u) : j < i
        /\ \A j \in Modals(u) \ {i} :
             Kept(u, i)[u.stack[j].name] <=>
               u.stack[j].inert \/ \E m \in New(u) : m < i /\ m /= j
  BY <1>1, KeptLaws
<1> HIDE DEF v
<1>4. \A i, j \in 1 .. n : v.stack[i].name = "record" /\ v.stack[i].busy => v.stack[j].name /= "share"
  <2>1. \A i, j \in 1 .. n : u.stack[i].name = "record" /\ u.stack[i].busy => u.stack[j].name /= "share"
    BY <1>1 DEF Placed
  <2>2. \A i \in 1 .. n : v.stack[i].name = u.stack[i].name /\ v.stack[i].busy = u.stack[i].busy
    BY <1>2
  <2> QED
    BY <2>1, <2>2
<1>5. Placed(v, width) /\ Modals(v) = Modals(u) /\ (\A i \in 1 .. n + 1 : Low(v, i) <=> Low(u, i))
  <2>1. \A i \in 1 .. n : v.stack[i].name = u.stack[i].name /\ v.stack[i].kind = u.stack[i].kind
    BY <1>2
  <2> QED
    BY <1>1, <1>2, <1>4, <2>1, PlacedSame
<1>6. Styled(v, width)
  <2>1. \A i \in 1 .. n : /\ v.stack[i].name = u.stack[i].name /\ v.stack[i].kind = u.stack[i].kind
                          /\ v.stack[i].lock = u.stack[i].lock
    BY <1>2
  <2> QED
    BY <1>1, <1>2, <2>1, StyledSame
<1>7. /\ \A i, j \in 1 .. n : i < j /\ u.stack[j].framed => u.stack[i].framed
      /\ \A i \in 1 .. n : u.stack[i].kind = "menu" => u.stack[i].framed
      /\ u.inert <=> \E i \in Modals(u) : u.stack[i].framed
      /\ \A i \in 1 .. n :
           IF i \in Modals(u) /\ u.stack[i].framed
           THEN "app" \in DOMAIN u.stack[i].kept /\ (u.stack[i].kept["app"] <=> Low(u, i))
           ELSE DOMAIN u.stack[i].kept = {}
  BY <1>1 DEF PageIsolated
<1>8. New(u) \subseteq Modals(u)
  BY <1>1, <1>7
<1>9. PageIsolated(v)
  <2>1. v.inert <=> \E i \in Modals(v) : v.stack[i].framed
    BY <1>1, <1>2, <1>5, <1>8
  <2>2. ASSUME NEW i \in 1 .. n
        PROVE  IF i \in Modals(v) /\ v.stack[i].framed
               THEN "app" \in DOMAIN v.stack[i].kept /\ (v.stack[i].kept["app"] <=> Low(v, i))
               ELSE DOMAIN v.stack[i].kept = {}
    <3>1. (Low(v, i) <=> Low(u, i)) /\ v.stack[i].framed /\ (i \in Modals(v) <=> i \in Modals(u))
      BY <1>1, <1>2, <1>5
    <3>2. CASE i \in New(u)
      <4>1. i \in Modals(u) /\ v.stack[i].kept = Kept(u, i) /\ "app" \in DOMAIN Kept(u, i)
        BY <1>2, <1>3, <1>8, <3>2
      <4>2. Low(u, i) => u.inert \/ \E j \in New(u) : j < i
        <5> SUFFICES ASSUME NEW j \in 1 .. i - 1, u.stack[j].kind /= "menu"
                     PROVE  u.inert \/ \E m \in New(u) : m < i
          BY DEF Low
        <5>1. j \in 1 .. n /\ j < i /\ j \in Modals(u)
          BY <1>1
        <5> QED
          BY <1>1, <1>7, <5>1
      <4>3. u.inert => Low(u, i)
        <5> SUFFICES ASSUME NEW j \in Modals(u), u.stack[j].framed PROVE Low(u, i)
          BY <1>7
        <5>1. j \in 1 .. n /\ j < i /\ u.stack[j].kind /= "menu"
          BY <1>1, <1>7, <3>2
        <5> QED
          BY <5>1 DEF Low
      <4>4. (\E j \in New(u) : j < i) => Low(u, i)
        <5> SUFFICES ASSUME NEW j \in New(u), j < i PROVE Low(u, i)
          OBVIOUS
        <5>1. j \in 1 .. i - 1 /\ u.stack[j].kind /= "menu"
          BY <1>1, <1>8
        <5> QED
          BY <5>1 DEF Low
      <4>5. Kept(u, i)["app"] <=> Low(u, i)
        BY <1>3, <4>2, <4>3, <4>4
      <4> QED
        BY <3>1, <4>1, <4>5
    <3>3. CASE i \notin New(u)
      <4>1. v.stack[i].kept = u.stack[i].kept /\ u.stack[i].framed
        BY <1>1, <1>2, <3>3
      <4>2. IF i \in Modals(u) /\ u.stack[i].framed
            THEN "app" \in DOMAIN u.stack[i].kept /\ (u.stack[i].kept["app"] <=> Low(u, i))
            ELSE DOMAIN u.stack[i].kept = {}
        BY <1>7
      <4> QED
        BY <3>1, <4>1, <4>2
    <3> QED
      BY <3>2, <3>3
  <2>3. \A i \in 1 .. n : v.stack[i].framed
    BY <1>2
  <2> QED
    BY <1>2, <2>1, <2>2, <2>3 DEF PageIsolated
<1>10. ASSUME LayersIsolated(u) PROVE LayersIsolated(v)
  <2>1. n > 0 /\ New(u) = {n} /\ \A i \in 1 .. n : i < n => u.stack[i].framed
    <3>1. \A i \in 1 .. n : i < n => u.stack[i].framed
      BY <1>1, <1>10 DEF LayersIsolated
    <3> QED
      BY <1>1, <3>1
  <2>2. \A i \in Modals(u) : u.stack[i].inert <=> \E j \in 1 .. n : i < j /\ u.stack[j].framed
    BY <1>1, <1>10 DEF LayersIsolated
  <2>3. \A i, j \in Modals(u) :
          j < i /\ u.stack[i].framed =>
            /\ u.stack[j].name \in DOMAIN u.stack[i].kept
            /\ u.stack[i].kept[u.stack[j].name] <=> j + 1 < i
    BY <1>10 DEF LayersIsolated
  <2>4. Modals(u) \subseteq 1 .. n
    BY <1>1
  <2>5. ASSUME NEW i \in Modals(u)
        PROVE  v.stack[i].inert <=> \E j \in 1 .. n : i < j /\ v.stack[j].framed
    <3>1. i \in 1 .. n
      BY <2>4
    <3>2. (\E j \in 1 .. n : i < j /\ v.stack[j].framed) <=> i < n
      BY <1>1, <1>2, <3>1
    <3>3. v.stack[i].inert <=> u.stack[i].inert \/ New(u) \ {i} /= {}
      BY <1>2, <3>1
    <3>4. CASE i < n
      BY <1>1, <2>1, <3>2, <3>3, <3>4
    <3>5. CASE i = n
      <4>1. ~u.stack[i].inert
        BY SMTT(30), <1>1, <2>2, <3>5
      <4> QED
        BY <2>1, <3>2, <3>3, <3>5, <4>1
    <3> QED
      BY <1>1, <3>1, <3>4, <3>5
  <2>6. ASSUME NEW i \in Modals(u), NEW j \in Modals(u), j < i
        PROVE  /\ v.stack[j].name \in DOMAIN v.stack[i].kept
               /\ v.stack[i].kept[v.stack[j].name] <=> j + 1 < i
    <3>1. i \in 1 .. n /\ j \in 1 .. n /\ v.stack[j].name = u.stack[j].name
      BY <1>2, <2>4
    <3>2. CASE i < n
      <4>1. v.stack[i].kept = u.stack[i].kept /\ u.stack[i].framed
        BY <1>2, <2>1, <3>1, <3>2
      <4> QED
        BY <2>3, <2>6, <3>1, <4>1
    <3>3. CASE i = n
      <4>1. v.stack[i].kept = Kept(u, i) /\ j \in Modals(u) \ {i}
        BY <1>1, <1>2, <2>1, <2>6, <3>1, <3>3
      <4>2. u.stack[j].name \in DOMAIN Kept(u, i)
        <5>1. DOMAIN Kept(u, i) = {"app"} \cup {u.stack[m].name : m \in Modals(u) \ {i}}
          BY <1>3, <3>1
        <5> QED
          BY <4>1, <5>1
      <4>3. Kept(u, i)[u.stack[j].name] <=> u.stack[j].inert \/ \E m \in New(u) : m < i /\ m /= j
        BY <1>3, <3>1, <4>1
      <4>4. ~\E m \in New(u) : m < i /\ m /= j
        BY <1>1, <2>1, <3>3
      <4>5. u.stack[j].inert <=> j + 1 < i
        <5>1. u.stack[j].inert <=> \E m \in 1 .. n : j < m /\ u.stack[m].framed
          BY <2>2
        <5>2. ~u.stack[n].framed
          BY <1>1, <2>1
        <5>3. j + 1 < n => j + 1 \in 1 .. n /\ j < j + 1 /\ u.stack[j + 1].framed
          BY SMTT(30), <1>1, <2>1, <3>1
        <5>4. \A m \in 1 .. n : j < m /\ u.stack[m].framed => j + 1 < n
          BY <1>1, <3>1, <5>2
        <5> QED
          BY <3>3, <5>1, <5>3, <5>4
      <4> QED
        BY <3>1, <4>1, <4>2, <4>3, <4>4, <4>5
    <3> QED
      BY <1>1, <3>1, <3>2, <3>3
  <2>7. \A i \in 1 .. n : v.stack[i].framed
    BY <1>2
  <2> QED
    BY <1>2, <1>5, <2>5, <2>6, <2>7 DEF LayersIsolated
<1> QED
  BY <1>2, <1>5, <1>6, <1>9, <1>10 DEF Sound, v

-----------------------------------------------------------------------------
(* One layer handing over to another *)

\* The only layer, closed, leaves a free screen.
LEMMA CleanedAlone ==
  ASSUME width \in Widths, NEW u, Sound(u, width), Len(u.stack) = 1
  PROVE  LET v == Cleaned(u, Top(u).name) IN
         /\ v \in Screens /\ v.stack = <<>> /\ v.body = Free /\ v.inert = FALSE /\ v.count = 0
         /\ Top(u).kind = "sheet" => v.original = Free /\ ReadBody(u) = Free
         /\ Top(u).kind /= "sheet" => v.original = Unsaved
<1> DEFINE v == Cleaned(u, Top(u).name)
<1>1. /\ u \in Screens /\ Styled(u, width) /\ PageIsolated(u) /\ DOMAIN u.stack = {1}
      /\ Top(u) = u.stack[1] /\ u.body \in Styles /\ u.count \in Nat /\ u.inert \in BOOLEAN
      /\ Top(u).lock \in Styles
  BY StackLaws DEF Sound, Top
<1>2. LET n == Len(u.stack)
          sheet == Top(u).kind = "sheet"
      IN
      /\ IndexOf(u, Top(u).name) = n
      /\ v \in Screens /\ Len(v.stack) = n - 1 /\ DOMAIN v.stack = 1 .. n - 1
      /\ \A j \in 1 .. n - 1 : v.stack[j] = Rest(u, j)
      /\ v.body = IF sheet THEN Top(u).lock
                  ELSE [u.body EXCEPT !.hidden = IF Top(u).kind = "menu" THEN @ ELSE Top(u).lock.hidden]
      /\ v.inert = IF "app" \in DOMAIN Top(u).kept THEN Top(u).kept["app"] ELSE u.inert
      /\ v.count = IF sheet THEN u.count - 1 ELSE u.count
      /\ v.original = u.original
  <2>1. Len(u.stack) > 0
    OBVIOUS
  <2> QED
    BY <2>1, CleanedParts
<1> HIDE DEF v
<1>3. ~Low(u, 1) /\ Below(u, 1) = Top(u).lock /\ Below(u, 2) = u.body
  BY <1>1 DEF Low, Below
<1>4. Top(u).lock = Free
  BY <1>1, <1>3 DEF Styled
<1>5. Sheets(u) = IF Top(u).kind = "sheet" THEN {1} ELSE {}
  BY <1>1 DEF Sheets
<1>6. v \in Screens /\ v.stack = <<>>
  <2>1. v \in Screens /\ Len(v.stack) = 0
    BY <1>2
  <2> QED
    BY <2>1, StackLaws
<1>7. v.body = Free
  <2>1. CASE Top(u).kind = "sheet"
    BY <1>2, <1>4, <2>1
  <2>2. CASE Top(u).kind = "menu"
    <3>1. ~Low(u, 2)
      BY <1>1, <2>2 DEF Low
    <3>2. u.body = Free
      BY <1>1, <1>3, <3>1 DEF Styled
    <3>3. v.body = [u.body EXCEPT !.hidden = u.body.hidden]
      BY <1>2, <2>2
    <3> QED
      BY <3>2, <3>3 DEF Free
  <2>3. CASE Top(u).kind \notin {"sheet", "menu"}
    <3>1. v.body = [u.body EXCEPT !.hidden = FALSE]
      BY <1>2, <1>4, <2>3, StyleLaws
    <3>2. ~u.body.fixed
      BY <1>1, <1>5, <2>3 DEF Styled
    <3>3. ~v.body.fixed /\ ~v.body.hidden
      BY <1>1, <3>1, <3>2 DEF Styles
    <3> QED
      BY <1>6, <3>3, StackLaws, StyleLaws
  <2> QED
    BY <2>1, <2>2, <2>3
<1>8. v.inert = FALSE
  <2>1. v.inert = IF "app" \in DOMAIN Top(u).kept THEN Top(u).kept["app"] ELSE u.inert
    BY <1>2
  <2>2. CASE 1 \in Modals(u) /\ u.stack[1].framed
    <3>1. "app" \in DOMAIN Top(u).kept /\ ~Top(u).kept["app"]
      BY <1>1, <1>3, <2>2 DEF PageIsolated
    <3>2. v.inert \in BOOLEAN
      BY <1>6, StackLaws
    <3> QED
      BY <2>1, <3>1, <3>2
  <2>3. CASE ~(1 \in Modals(u) /\ u.stack[1].framed)
    <3>1. DOMAIN Top(u).kept = {} /\ ~u.inert
      BY <1>1, <2>3 DEF PageIsolated, Modals
    <3> QED
      BY <1>1, <2>1, <3>1
  <2> QED
    BY <2>2, <2>3
<1>9. u.count = IF Top(u).kind = "sheet" THEN 1 ELSE 0
  <2>1. Cardinality({1}) = 1 /\ Cardinality({}) = 0
    BY FS_Singleton, FS_EmptySet
  <2> QED
    BY <1>1, <1>5, <2>1 DEF Styled
<1>10. v.count = 0
  BY <1>2, <1>9
<1>11. Top(u).kind = "sheet" => v.original = Free /\ ReadBody(u) = Free
  <2> SUFFICES ASSUME Top(u).kind = "sheet" PROVE v.original = Free /\ ReadBody(u) = Free
    OBVIOUS
  <2>1. u.original = u.stack[1].lock
    BY <1>1, <1>5 DEF Styled
  <2> QED
    BY <1>1, <1>2, <1>4, <1>9, <2>1 DEF ReadBody
<1>12. Top(u).kind /= "sheet" => v.original = Unsaved
  BY <1>1, <1>2, <1>5 DEF Styled
<1> QED
  BY <1>6, <1>7, <1>8, <1>10, <1>11, <1>12 DEF v

\* The layer that takes over from the only one is as good as the first.
LEMMA HandedOver ==
  ASSUME width \in Widths, NEW u, Sound(u, width), Len(u.stack) = 1, NEW to \in Layers,
         to \in {"edit", "manage"}, to = "edit" <=> Top(u).name = "record",
         to = "manage" <=> Top(u).name = "switcher"
  PROVE  LET next == Opened(Cleaned(u, Top(u).name), to, ReadBody(u))
             v == IF Top(u).kind = "sheet" THEN Settled(next) ELSE next
         IN Sound(v, width) /\ LayersIsolated(v)
<1> DEFINE c == Cleaned(u, Top(u).name)
           next == Opened(c, to, ReadBody(u))
           v == IF Top(u).kind = "sheet" THEN Settled(next) ELSE next
           e == Entry(c, to)
<1>1. /\ c \in Screens /\ c.stack = <<>> /\ c.body = Free /\ c.inert = FALSE /\ c.count = 0
      /\ Top(u).kind = "sheet" => c.original = Free /\ ReadBody(u) = Free
      /\ Top(u).kind /= "sheet" => c.original = Unsaved
  BY CleanedAlone
<1>2. /\ u \in Screens /\ DOMAIN u.stack = {1} /\ Top(u) = u.stack[1] /\ Top(u).name \in Layers
      /\ Top(u).kind = LayerOf[Top(u).name].kind[width]
  BY StackLaws DEF Sound, Placed, Top
<1>3. /\ Kind(to) = IF width = "phone" THEN "sheet" ELSE "dialog"
      /\ Kind(to) = "sheet" => Top(u).kind = "sheet"
      /\ Top(u).kind = "sheet" /\ Kind(to) /= "sheet" => width = "tablet" /\ to = "manage"
  BY <1>2, KindsOf DEF Kind, Widths
<1>4. ReadBody(u) \in Styles \cup {Unsaved}
  BY <1>2, StackLaws DEF ReadBody
<1> HIDE DEF c
<1>5. /\ next \in Screens
      /\ Len(next.stack) = Len(c.stack) + 1 /\ DOMAIN next.stack = 1 .. Len(c.stack) + 1
      /\ \A i \in 1 .. Len(c.stack) : next.stack[i] = c.stack[i]
      /\ next.stack[Len(c.stack) + 1] = Entry(c, to)
      /\ next.body = IF Kind(to) = "sheet" THEN Fixed
                  ELSE [c.body EXCEPT !.hidden = @ \/ Kind(to) /= "menu"]
      /\ next.inert = c.inert
      /\ next.count = IF Kind(to) = "sheet" THEN c.count + 1 ELSE c.count
      /\ next.original = IF Kind(to) = "sheet" THEN ReadBody(u) ELSE c.original
  BY ZenonT(60), <1>1, <1>4, OpenedParts
<1> HIDE DEF next
<1>6. /\ e.name = to /\ e.kind = Kind(to) /\ e.busy = FALSE /\ e.framed = FALSE /\ e.inert = FALSE
      /\ e.lock = Free /\ DOMAIN e.kept = {}
  BY <1>1, <1>3, KeepLaws DEF Entry
<1>7. /\ next \in Screens /\ Len(next.stack) = 1 /\ DOMAIN next.stack = {1} /\ next.stack[1] = e
      /\ next.inert = FALSE /\ next.count = (IF Kind(to) = "sheet" THEN 1 ELSE 0)
      /\ next.original = (IF Top(u).kind = "sheet" THEN Free ELSE Unsaved)
  BY <1>1, <1>3, <1>5
<1>8. next.body = IF Kind(to) = "sheet" THEN Fixed ELSE [Free EXCEPT !.hidden = TRUE]
  BY <1>1, <1>3, <1>5 DEF Free
<1> HIDE DEF e
<1>9. /\ v \in Screens /\ Len(v.stack) = 1 /\ DOMAIN v.stack = {1} /\ v.stack[1] = e
      /\ v.inert = FALSE /\ v.count = (IF Kind(to) = "sheet" THEN 1 ELSE 0)
      /\ v.original = (IF Kind(to) = "sheet" THEN Free ELSE Unsaved)
      /\ v.body.fixed <=> Kind(to) = "sheet"
      /\ v.body.hidden \/ (width = "tablet" /\ to = "manage")
  <2>1. CASE Top(u).kind /= "sheet"
    <3>1. v = next
      BY <2>1
    <3>2. next.body = [Free EXCEPT !.hidden = TRUE]
      BY <1>3, <1>8, <2>1
    <3>3. next.body.hidden = TRUE /\ next.body.fixed = FALSE
      BY <3>2 DEF Free
    <3> QED
      BY <1>3, <1>7, <2>1, <3>1, <3>3
  <2>2. CASE Kind(to) = "sheet"
    <3>1. v = [next EXCEPT !.body = Fixed]
      BY <1>3, <1>7, <2>2 DEF Settled
    <3>2. v = [stack |-> next.stack, body |-> Fixed, inert |-> next.inert, count |-> next.count,
               original |-> next.original]
      BY <1>7, <3>1 DEF Screens
    <3> HIDE DEF v
    <3>3. v \in Screens
      BY <1>7, <3>2, StyleLaws DEF Screens
    <3>4. v.stack = next.stack /\ v.body = Fixed /\ v.inert = next.inert /\ v.count = next.count
          /\ v.original = next.original
      BY <3>2
    <3> QED
      BY <1>3, <1>7, <2>2, <3>3, <3>4, StyleLaws
  <2>3. CASE Top(u).kind = "sheet" /\ Kind(to) /= "sheet"
    <3>1. next.count = 0 /\ next.original = Free /\ Free /= Unsaved
      BY <1>7, <2>3, StyleLaws
    <3>2. v = [next EXCEPT !.body = Free, !.original = Unsaved]
      BY <2>3, <3>1 DEF Settled
    <3>3. v = [stack |-> next.stack, body |-> Free, inert |-> next.inert, count |-> next.count,
               original |-> Unsaved]
      BY <1>7, <3>2 DEF Screens
    <3> HIDE DEF v
    <3>4. v \in Screens
      BY <1>7, <3>3, StyleLaws DEF Screens
    <3>5. v.stack = next.stack /\ v.body = Free /\ v.inert = next.inert /\ v.count = next.count
          /\ v.original = Unsaved
      BY <3>3
    <3> QED
      BY <1>3, <1>7, <2>3, <3>4, <3>5, StyleLaws
  <2> QED
    BY <2>1, <2>2, <2>3
<1> HIDE DEF v
<1>10. Sheets(v) = IF Kind(to) = "sheet" THEN {1} ELSE {}
  BY <1>6, <1>9 DEF Sheets
<1>11. Placed(v, width)
  <2>1. e.kind = LayerOf[e.name].kind[width]
    BY <1>6 DEF Kind
  <2> QED
    BY <1>6, <1>9, <2>1 DEF Placed
<1>12. Styled(v, width)
  <2>1. Cardinality({1}) = 1 /\ Cardinality({}) = 0
    BY FS_Singleton, FS_EmptySet
  <2>2. v.count = Cardinality(Sheets(v))
    BY <1>9, <1>10, <2>1
  <2>3. (v.body.fixed <=> Sheets(v) /= {}) /\ (Sheets(v) = {} => v.original = Unsaved)
    BY <1>9, <1>10
  <2>4. \A i \in Sheets(v) : v.original = v.stack[i].lock /\ ~v.stack[i].lock.fixed
    BY <1>6, <1>9, <1>10, StyleLaws
  <2>5. 1 .. Len(v.stack) + 1 = {1, 2}
    BY <1>9
  <2>6. ~Low(v, 1) /\ Low(v, 2) /\ Below(v, 1) = Free /\ Below(v, 2) = v.body
    BY <1>3, <1>6, <1>9 DEF Low, Below
  <2>7. v.body.hidden \/ (width = "tablet" /\ \E j \in 1 .. 2 - 1 : v.stack[j].name = "manage")
    BY <1>6, <1>9
  <2> QED
    BY <2>2, <2>3, <2>4, <2>5, <2>6, <2>7 DEF Styled
<1>13. PageIsolated(v) /\ LayersIsolated(v)
  <2>1. Modals(v) = {1} /\ ~v.stack[1].framed /\ ~v.stack[1].inert /\ DOMAIN v.stack[1].kept = {}
    BY <1>3, <1>6, <1>9 DEF Modals
  <2>2. PageIsolated(v)
    BY <1>3, <1>6, <1>9, <2>1 DEF PageIsolated
  <2>3. LayersIsolated(v)
    BY <1>9, <2>1 DEF LayersIsolated
  <2> QED
    BY <2>2, <2>3
<1> QED
  BY <1>9, <1>11, <1>12, <1>13 DEF Sound, v, next, c

-----------------------------------------------------------------------------
(* The actions *)

LEMMA ClosingKeeps ==
  ASSUME width \in Widths, Sound(ui, width), NEW names \in Seq(Names(ui)),
         \A m, k \in DOMAIN names : m < k => names[m] /= names[k],
         CloseInTurn(names), "crossed" \notin astray'
  PROVE  Sound(ui', width) /\ (LayersIsolated(ui) => LayersIsolated(ui'))
<1>1. ui' = ClosedInTurn(ui, names) /\ ~CrossingInTurn(names)
  BY DEF CloseInTurn
<1> QED
  BY <1>1, ClosedInTurnSound

LEMMA ClosingTopKeeps ==
  ASSUME width \in Widths, Sound(ui, width), ui.stack /= <<>>,
         CloseInTurn(<<Top(ui).name>>), "crossed" \notin astray'
  PROVE  Sound(ui', width) /\ (LayersIsolated(ui) => LayersIsolated(ui'))
<1>1. ui \in Screens /\ Len(ui.stack) \in DOMAIN ui.stack
  BY StackLaws DEF Sound
<1>2. Top(ui).name \in Names(ui)
  BY <1>1 DEF Names, Top
<1> DEFINE names == <<Top(ui).name>>
<1>3. names \in Seq(Names(ui)) /\ DOMAIN names = {1}
  BY <1>2
<1>4. CloseInTurn(names)
  OBVIOUS
<1> HIDE DEF names
<1>5. \A m, k \in DOMAIN names : m < k => names[m] /= names[k]
  BY <1>3
<1> QED
  BY <1>3, <1>4, <1>5, ClosingKeeps

\* Names in an order that puts none before itself are told apart by it.
LEMMA TurnsApart ==
  ASSUME width \in Widths, Sound(ui, width), NEW S \in SUBSET DOMAIN ui.stack,
         NEW names \in [1 .. Cardinality(S) -> {ui.stack[i].name : i \in S}]
  PROVE  names \in Seq(Names(ui)) /\ DOMAIN names = 1 .. Len(names)
<1>1. Len(ui.stack) \in Nat /\ S \subseteq 1 .. Len(ui.stack)
  BY StackLaws DEF Sound
<1>2. Cardinality(S) \in Nat
  <2>1. IsFiniteSet(1 .. Len(ui.stack))
    BY <1>1, FS_Interval
  <2>2. IsFiniteSet(S)
    BY <1>1, <2>1, FS_Subset
  <2> QED
    BY <2>2, FS_CardinalityType
<1>3. names \in [1 .. Cardinality(S) -> Names(ui)]
  BY DEF Names
<1> QED
  BY <1>2, <1>3, SeqDef

LEMMA OpeningKeeps ==
  ASSUME width \in Widths, NEW u, Sound(u, width), NEW name \in Layers \ Names(u),
         name \in {"record", "switcher"} => u.stack = <<>>,
         name = "share" => \A i \in DOMAIN u.stack : u.stack[i].name = "record" => ~u.stack[i].busy,
         Sound(ui, width), Len(u.stack) = Len(ui.stack),
         \A i \in 1 .. Len(u.stack) :
           u.stack[i].name = ui.stack[i].name /\ u.stack[i].framed = ui.stack[i].framed,
         Opens(Opened(u, name, ReadBody(u)))
  PROVE  Sound(ui', width) /\ (LayersIsolated(u) /\ astray' = {} => LayersIsolated(ui'))
<1> DEFINE v == Opened(u, name, ReadBody(u))
           n == Len(u.stack)
<1>1. /\ Sound(v, width)
      /\ LayersIsolated(u) /\ (\A i \in DOMAIN u.stack : u.stack[i].framed) => LayersIsolated(v)
  BY OpenedSound
<1>2. ui' = v
  BY DEF Opens
<1>3. /\ n \in Nat /\ DOMAIN u.stack = 1 .. n /\ DOMAIN ui.stack = 1 .. n
  BY StackLaws DEF Sound
<1>4. DOMAIN v.stack = 1 .. n + 1 /\ \A i \in 1 .. n : v.stack[i] = u.stack[i]
  <2>1. u \in Screens /\ name \in Layers /\ ReadBody(u) \in Styles \cup {Unsaved}
    BY StackLaws DEF Sound, ReadBody
  <2>2. /\ v \in Screens
        /\ Len(v.stack) = n + 1 /\ DOMAIN v.stack = 1 .. n + 1
        /\ \A i \in 1 .. n : v.stack[i] = u.stack[i]
        /\ v.stack[n + 1] = Entry(u, name)
        /\ v.body = IF Kind(name) = "sheet" THEN Fixed
                    ELSE [u.body EXCEPT !.hidden = @ \/ Kind(name) /= "menu"]
        /\ v.inert = u.inert
        /\ v.count = IF Kind(name) = "sheet" THEN u.count + 1 ELSE u.count
        /\ v.original = IF Kind(name) = "sheet" THEN ReadBody(u) ELSE u.original
    BY SMTT(30), <2>1, OpenedParts
  <2> HIDE DEF v
  <2> QED
    BY <2>2
<1>5. ASSUME astray' = {} PROVE \A i \in DOMAIN u.stack : u.stack[i].framed
  <2>1. ~\E e \in Range(ui.stack) : ~e.framed /\ e.name \in {f.name : f \in Range(v.stack)}
    BY <1>5 DEF Opens
  <2> HIDE DEF v
  <2> SUFFICES ASSUME NEW i \in 1 .. n, ~u.stack[i].framed PROVE FALSE
    BY <1>3
  <2>2. ui.stack[i] \in Range(ui.stack) /\ ~ui.stack[i].framed
    BY <1>3 DEF Range
  <2>3. v.stack[i] \in Range(v.stack) /\ v.stack[i].name = ui.stack[i].name
    BY SMTT(60), <1>3, <1>4 DEF Range
  <2> QED
    BY <2>1, <2>2, <2>3
<1> QED
  BY <1>1, <1>2, <1>5

LEMMA OpenKeeps ==
  ASSUME width \in Widths, Sound(ui, width), NEW name \in Layers, Open(name)
  PROVE  Sound(ui', width) /\ (LayersIsolated(ui) /\ astray' = {} => LayersIsolated(ui'))
<1>1. name \notin Names(ui) /\ Opens(Opened(ui, name, ReadBody(ui)))
  BY DEF Open
<1>2. PICK opener \in LayerOf[name].over : OnTop(opener)
  BY DEF Open
<1>3. name \in {"record", "switcher"} => ui.stack = <<>>
  BY <1>2, Ways DEF OnTop
<1>4. name /= "share"
  BY <1>2, Ways
<1> QED
  BY <1>1, <1>3, <1>4, OpeningKeeps

LEMMA LoadKeeps ==
  ASSUME width \in Widths, Sound(ui, width), Load
  PROVE  Sound(ui', width) /\ (LayersIsolated(ui) /\ astray' = {} => LayersIsolated(ui'))
<1>1. "add" \in Layers \ Names(ui) /\ Opens(Opened(ui, "add", ReadBody(ui)))
  BY LayerNames DEF Load
<1> QED
  BY <1>1, OpeningKeeps

LEMMA TopLaws ==
  ASSUME width \in Widths, Sound(ui, width), NEW name \in Layers, OnTop(name)
  PROVE  /\ name \in Names(ui) /\ Top(ui).name = name /\ Len(ui.stack) > 0
         /\ name \in {"record", "switcher"} => Len(ui.stack) = 1 /\ Names(ui) = {name}
<1>1. ui.stack /= <<>> /\ Top(ui).name = name
  BY LayerNames DEF OnTop
<1>2. /\ Len(ui.stack) \in Nat /\ Len(ui.stack) > 0 /\ DOMAIN ui.stack = 1 .. Len(ui.stack)
      /\ Placed(ui, width)
  BY <1>1, StackLaws DEF Sound
<1>3. Len(ui.stack) \in DOMAIN ui.stack /\ ui.stack[Len(ui.stack)].name = name
  BY <1>1, <1>2 DEF Top
<1>4. name \in {"record", "switcher"} => Len(ui.stack) = 1
  BY <1>2, <1>3 DEF Placed
<1>5. Len(ui.stack) = 1 => Names(ui) = {name}
  BY <1>2, <1>3 DEF Names
<1> QED
  BY <1>1, <1>2, <1>3, <1>4, <1>5 DEF Names

LEMMA HandOverKeeps ==
  ASSUME width \in Widths, Sound(ui, width), NEW from \in Layers, NEW to \in Layers, HandOver(from, to)
  PROVE  Sound(ui', width) /\ LayersIsolated(ui')
<1>1. from \in LayerOf[to].follows /\ OnTop(from)
  BY DEF HandOver
<1>2. \/ to = "edit" /\ from = "record"
      \/ to = "manage" /\ from = "switcher"
  BY <1>1, Ways
<1>3. Top(ui).name = from /\ Len(ui.stack) = 1
  BY <1>1, <1>2, TopLaws
<1> DEFINE next == Opened(Cleaned(ui, Top(ui).name), to, ReadBody(ui))
<1>4. ui' = IF Top(ui).kind = "sheet" THEN Settled(next) ELSE next
  BY <1>3 DEF HandOver, Opens
<1>5. LET v == IF Top(ui).kind = "sheet" THEN Settled(next) ELSE next
      IN Sound(v, width) /\ LayersIsolated(v)
  BY <1>2, <1>3, HandedOver
<1> QED
  BY <1>4, <1>5

LEMMA FrameKeeps ==
  ASSUME width \in Widths, Sound(ui, width), Frame
  PROVE  Sound(ui', width) /\ (LayersIsolated(ui) => LayersIsolated(ui'))
BY IsolatedSound DEF Frame

LEMMA RequestKeeps ==
  ASSUME width \in Widths, Sound(ui, width), NEW name \in Layers, Request(name)
  PROVE  Sound(ui', width) /\ (LayersIsolated(ui) => LayersIsolated(ui'))
<1>1. ui' = Marked(ui, name, TRUE) /\ OnTop(name)
  BY DEF Request, SetBusy, Marked
<1>2. name \in Names(ui) /\ (name = "record" => "share" \notin Names(ui))
  BY <1>1, TopLaws
<1> QED
  BY <1>1, <1>2, MarkedSound

LEMMA AnswerKeeps ==
  ASSUME width \in Widths, Sound(ui, width), NEW name \in Layers, Answer(name), "crossed" \notin astray'
  PROVE  Sound(ui', width) /\ (LayersIsolated(ui) /\ astray' = {} => LayersIsolated(ui'))
<1>1. name \in Names(ui) /\ ui.stack[IndexOf(ui, name)].busy
  BY DEF Answer
<1>2. /\ Sound(Marked(ui, name, FALSE), width)
      /\ LayersIsolated(ui) => LayersIsolated(Marked(ui, name, FALSE))
      /\ Len(Marked(ui, name, FALSE).stack) = Len(ui.stack)
      /\ \A i \in 1 .. Len(ui.stack) :
           /\ Marked(ui, name, FALSE).stack[i].name = ui.stack[i].name
           /\ Marked(ui, name, FALSE).stack[i].framed = ui.stack[i].framed
           /\ Marked(ui, name, FALSE).stack[i].busy =
                IF ui.stack[i].name = name THEN FALSE ELSE ui.stack[i].busy
      /\ ReadBody(Marked(ui, name, FALSE)) = ReadBody(ui)
  BY <1>1, MarkedSound
<1>3. CASE SetBusy(name, FALSE)
  <2>1. ui' = Marked(ui, name, FALSE)
    BY <1>3 DEF SetBusy, Marked
  <2> QED
    BY <1>2, <2>1
<1>4. CASE CloseInTurn(<<name>>)
  <2> DEFINE names == <<name>>
  <2>1. names \in Seq(Names(ui)) /\ DOMAIN names = {1}
    BY <1>1
  <2>2. CloseInTurn(names)
    BY <1>4
  <2> HIDE DEF names
  <2>3. \A m, k \in DOMAIN names : m < k => names[m] /= names[k]
    BY <2>1
  <2> QED
    BY <2>1, <2>2, <2>3, ClosingKeeps
<1>5. CASE /\ name = "record"
           /\ Opens(Opened([ui EXCEPT !.stack[IndexOf(ui, name)].busy = FALSE], "share", ReadBody(ui)))
  <2> DEFINE u == Marked(ui, name, FALSE)
  <2>1. Opens(Opened(u, "share", ReadBody(u)))
    BY <1>2, <1>5 DEF Marked
  <2> HIDE DEF u
  <2>2. /\ Sound(u, width) /\ Len(u.stack) = Len(ui.stack)
        /\ LayersIsolated(ui) => LayersIsolated(u)
        /\ \A i \in 1 .. Len(ui.stack) :
             /\ u.stack[i].name = ui.stack[i].name /\ u.stack[i].framed = ui.stack[i].framed
             /\ u.stack[i].busy = IF ui.stack[i].name = name THEN FALSE ELSE ui.stack[i].busy
    BY <1>2 DEF u
  <2>3. DOMAIN u.stack = 1 .. Len(ui.stack) /\ DOMAIN ui.stack = 1 .. Len(ui.stack)
        /\ Placed(ui, width)
    BY <2>2, StackLaws DEF Sound
  <2>4. \A i \in DOMAIN u.stack : u.stack[i].name = "record" => ~u.stack[i].busy
    BY <1>5, <2>2, <2>3
  <2>5. "share" \notin Names(u)
    <3>1. /\ IndexOf(ui, name) \in DOMAIN ui.stack /\ ui.stack[IndexOf(ui, name)].name = name
      BY <1>1, <2>3, IndexLaws
    <3>2. \A j \in DOMAIN ui.stack : ui.stack[j].name /= "share"
      BY <1>1, <1>5, <2>3, <3>1 DEF Placed
    <3> SUFFICES ASSUME "share" \in Names(u) PROVE FALSE
      OBVIOUS
    <3>3. PICK j \in DOMAIN u.stack : u.stack[j].name = "share"
      BY DEF Names
    <3>4. j \in 1 .. Len(ui.stack) /\ u.stack[j].name = ui.stack[j].name
      BY <2>2, <2>3
    <3> QED
      BY <2>3, <3>2, <3>3, <3>4
  <2>6. "share" \in Layers \ Names(u)
    BY <2>5, LayerNames
  <2>7. Sound(ui', width) /\ (LayersIsolated(u) /\ astray' = {} => LayersIsolated(ui'))
    BY <2>1, <2>2, <2>4, <2>6, OpeningKeeps
  <2> QED
    BY <2>2, <2>7
<1> QED
  BY <1>3, <1>4, <1>5 DEF Answer

LEMMA EscapeKeeps ==
  ASSUME width \in Widths, Sound(ui, width), Escape, "crossed" \notin astray'
  PROVE  Sound(ui', width) /\ (LayersIsolated(ui) => LayersIsolated(ui'))
<1> DEFINE heard == {i \in DOMAIN ui.stack : ~ui.stack[i].busy}
           Turn(i) == IF ui.stack[i].name = "add" THEN 3
                      ELSE IF ui.stack[i].kind = "dialog" THEN 1 ELSE 2
           Before(i, j) == Turn(i) < Turn(j) \/ (Turn(i) = Turn(j) /\ i < j)
<1>1. \E names \in {names \in [1 .. Cardinality(heard) -> {ui.stack[i].name : i \in heard}] :
                      \A m, n \in DOMAIN names :
                        m < n => Before(IndexOf(ui, names[m]), IndexOf(ui, names[n]))} :
        CloseInTurn(names)
  BY DEF Escape, Turns
<1>2. PICK names \in [1 .. Cardinality(heard) -> {ui.stack[i].name : i \in heard}] :
        /\ \A m, n \in DOMAIN names : m < n => Before(IndexOf(ui, names[m]), IndexOf(ui, names[n]))
        /\ CloseInTurn(names)
  <2> HIDE DEF heard, Before
  <2> QED
    BY <1>1
<1>3. names \in Seq(Names(ui)) /\ DOMAIN names = 1 .. Len(names)
  <2>1. heard \in SUBSET DOMAIN ui.stack
    OBVIOUS
  <2> HIDE DEF heard
  <2> QED
    BY <1>2, <2>1, TurnsApart
<1>4. \A i \in DOMAIN ui.stack : ~Before(i, i)
  <2>1. \A i \in DOMAIN ui.stack : i \in Nat /\ Turn(i) \in Nat
    BY StackLaws DEF Sound
  <2> HIDE DEF Turn
  <2> QED
    BY <2>1
<1> HIDE DEF Before, heard
<1>5. \A m, k \in DOMAIN names : m < k => names[m] /= names[k]
  <2> SUFFICES ASSUME NEW m \in DOMAIN names, NEW k \in DOMAIN names, m < k, names[m] = names[k]
               PROVE  FALSE
    OBVIOUS
  <2>1. names[m] \in Names(ui)
    <3>1. \A x \in Seq(Names(ui)) : \A j \in 1 .. Len(x) : x[j] \in Names(ui)
      OBVIOUS
    <3> QED
      BY <1>3, <3>1
  <2>2. IndexOf(ui, names[m]) \in DOMAIN ui.stack
    BY <2>1, IndexLaws DEF Sound
  <2>3. Before(IndexOf(ui, names[m]), IndexOf(ui, names[k]))
    BY <1>2
  <2> QED
    BY <1>4, <2>2, <2>3
<1> QED
  BY <1>2, <1>3, <1>5, ClosingKeeps

\* In the order of opening no more than the top closes without crossing.
LEMMA ClosedTogetherKeeps ==
  ASSUME width \in Widths, Sound(ui, width), NEW names \in Seq(Names(ui)),
         \A m, n \in DOMAIN names : m < n => IndexOf(ui, names[m]) < IndexOf(ui, names[n]),
         ~CrossingInTurn(names), ui' = ClosedTogether(ui, names)
  PROVE  Sound(ui', width) /\ (LayersIsolated(ui) => LayersIsolated(ui'))
<1>1. DOMAIN names = 1 .. Len(names) /\ Len(names) \in Nat
  OBVIOUS
<1>2. \A m, k \in DOMAIN names : ~(m < k)
  BY DEF CrossingInTurn
<1>3. Len(names) \in {0, 1}
  BY <1>1, <1>2
<1>4. CASE Len(names) = 0
  <2>1. names = <<>>
    BY <1>1, <1>4
  <2> QED
    BY <2>1, ClosedNone
<1>5. CASE Len(names) = 1
  <2>1. 1 \in 1 .. Len(names) /\ \A m, k \in DOMAIN names : m < k => names[m] /= names[k]
    BY <1>2, <1>5
  <2>2. 1 <= Len(ui.stack) /\ names[1] = ui.stack[Len(ui.stack) - 1 + 1].name
    BY <2>1, FromTheTop
  <2>3. Len(ui.stack) \in Nat
    BY StackLaws DEF Sound
  <2>4. names = <<Top(ui).name>> /\ Len(ui.stack) > 0
    <3>1. names = <<names[1]>>
      BY <1>1, <1>5
    <3>2. Len(ui.stack) - 1 + 1 = Len(ui.stack)
      BY <2>3
    <3> QED
      BY <2>2, <2>3, <3>1, <3>2 DEF Top
  <2>5. ui' = Popped(ui)
    BY <2>4, ClosedTop
  <2> QED
    BY <2>4, <2>5, PoppedSound
<1> QED
  BY <1>3, <1>4, <1>5

LEMMA BrowserBackKeeps ==
  ASSUME width \in Widths, Sound(ui, width), BrowserBack, "crossed" \notin astray'
  PROVE  Sound(ui', width) /\ (LayersIsolated(ui) => LayersIsolated(ui'))
<1> DEFINE before == trail[Len(trail) - 1]
           gone == {i \in DOMAIN ui.stack :
                      \/ before.page /= Here.page /\ LayerOf[ui.stack[i].name].held = "page"
                      \/ ~before.add /\ ui.stack[i].name \in {"add", "contact"}}
<1>1. \E names \in {names \in [1 .. Cardinality(gone) -> {ui.stack[i].name : i \in gone}] :
                      \A m, n \in DOMAIN names :
                        m < n => IndexOf(ui, names[m]) < IndexOf(ui, names[n])} :
        /\ ui' = ClosedTogether(ui, names)
        /\ astray' = IF CrossingInTurn(names) THEN astray \cup {"crossed"} ELSE astray
  BY DEF BrowserBack, Turns
<1>2. PICK names \in [1 .. Cardinality(gone) -> {ui.stack[i].name : i \in gone}] :
        /\ \A m, n \in DOMAIN names : m < n => IndexOf(ui, names[m]) < IndexOf(ui, names[n])
        /\ ui' = ClosedTogether(ui, names)
        /\ ~CrossingInTurn(names)
  <2> HIDE DEF gone
  <2> QED
    BY <1>1
<1>3. names \in Seq(Names(ui)) /\ DOMAIN names = 1 .. Len(names)
  <2>1. gone \in SUBSET DOMAIN ui.stack
    OBVIOUS
  <2> HIDE DEF gone
  <2> QED
    BY <1>2, <2>1, TurnsApart
<1> HIDE DEF gone
<1>4. \A m, n \in DOMAIN names : m < n => IndexOf(ui, names[m]) < IndexOf(ui, names[n])
  BY <1>2
<1> QED
  BY <1>2, <1>3, <1>4, ClosedTogetherKeeps

LEMMA StrayGrows ==
  ASSUME LayersNext
  PROVE  astray \subseteq astray' /\ UNCHANGED <<inAndroid, width>>
<1>1. \A name \in Layers : Open(name) \/ Request(name) => astray \subseteq astray' /\ UNCHANGED <<inAndroid, width>>
  BY DEF Open, Request, Opens
<1>2. \A name \in Layers : Answer(name) => astray \subseteq astray' /\ UNCHANGED <<inAndroid, width>>
  BY DEF Answer, Opens, CloseInTurn
<1>3. \A from, to \in Layers : HandOver(from, to) => astray \subseteq astray' /\ UNCHANGED <<inAndroid, width>>
  BY DEF HandOver, Opens
<1>4. Load \/ Frame \/ Touch \/ Navigate \/ BackPress => astray \subseteq astray' /\ UNCHANGED <<inAndroid, width>>
  BY DEF Load, Frame, Touch, Navigate, BackPress, Opens, CloseInTurn
<1>5. Escape => astray \subseteq astray' /\ UNCHANGED <<inAndroid, width>>
  BY DEF Escape, CloseInTurn
<1>6. BrowserBack => astray \subseteq astray' /\ UNCHANGED <<inAndroid, width>>
  BY DEF BrowserBack
<1> QED
  BY <1>1, <1>2, <1>3, <1>4, <1>5, <1>6 DEF LayersNext

LEMMA StepKeeps ==
  ASSUME width \in Widths, Sound(ui, width), LayersNext, "crossed" \notin astray'
  PROVE  Sound(ui', width) /\ (LayersIsolated(ui) /\ astray' = {} => LayersIsolated(ui'))
<1>1. CASE \E name \in Layers : Open(name) \/ Request(name) \/ Answer(name)
  BY <1>1, OpenKeeps, RequestKeeps, AnswerKeeps
<1>2. CASE \E from, to \in Layers : HandOver(from, to)
  BY <1>2, HandOverKeeps
<1>3. CASE Load
  BY <1>3, LoadKeeps
<1>4. CASE Frame
  BY <1>4, FrameKeeps
<1>5. CASE Touch
  <2>1. ui.stack /= <<>> /\ CloseInTurn(<<Top(ui).name>>)
    BY <1>5 DEF Touch
  <2> QED
    BY <2>1, ClosingTopKeeps
<1>6. CASE Escape
  BY <1>6, EscapeKeeps
<1>7. CASE Navigate
  <2>1. ui' = ui \/ (ui.stack /= <<>> /\ CloseInTurn(<<Top(ui).name>>))
    BY <1>7 DEF Navigate
  <2> QED
    BY <2>1, ClosingTopKeeps
<1>8. CASE BrowserBack
  BY <1>8, BrowserBackKeeps
<1>9. CASE BackPress
  <2>1. ui' = ui \/ (ui.stack /= <<>> /\ CloseInTurn(<<Top(ui).name>>))
    BY <1>9 DEF BackPress
  <2> QED
    BY <2>1, ClosingTopKeeps
<1> QED
  BY <1>1, <1>2, <1>3, <1>4, <1>5, <1>6, <1>7, <1>8, <1>9 DEF LayersNext

\* The screen before anything is opened.
LEMMA FirstScreen ==
  ASSUME NEW w
  PROVE  LET u == [stack |-> <<>>, body |-> Free, inert |-> FALSE, count |-> 0, original |-> Unsaved]
         IN Sound(u, w) /\ LayersIsolated(u)
<1> DEFINE u == [stack |-> <<>>, body |-> Free, inert |-> FALSE, count |-> 0, original |-> Unsaved]
<1>1. u.stack = <<>> /\ Len(u.stack) = 0 /\ DOMAIN u.stack = {} /\ u.body = Free /\ u.inert = FALSE
      /\ u.count = 0 /\ u.original = Unsaved
  OBVIOUS
<1>2. u \in Screens
  BY StyleLaws DEF Screens
<1> HIDE DEF u
<1>3. Sheets(u) = {} /\ Modals(u) = {} /\ Cardinality({}) = 0 /\ 1 .. Len(u.stack) + 1 = {1}
  BY <1>1, FS_EmptySet DEF Sheets, Modals
<1>4. Placed(u, w)
  BY <1>1 DEF Placed
<1>5. Styled(u, w)
  <2>1. ~Low(u, 1) /\ Below(u, 1) = Free
    BY <1>1 DEF Low, Below
  <2>2. \A i \in 1 .. Len(u.stack) + 1 : ~Low(u, i) /\ Below(u, i) = Free
    BY <1>3, <2>1
  <2>3. u.count = Cardinality(Sheets(u)) /\ ~u.body.fixed
    BY <1>1, <1>3, StyleLaws
  <2> QED
    BY <1>1, <1>3, <2>2, <2>3 DEF Styled
<1>6. PageIsolated(u) /\ LayersIsolated(u)
  BY <1>1, <1>3 DEF PageIsolated, LayersIsolated
<1> QED
  BY <1>2, <1>4, <1>5, <1>6 DEF Sound, u

LEMMA LayersStart ==
  ASSUME LayersInit
  PROVE  LayersInv
BY FirstScreen DEF LayersInit, LayersInv

LEMMA LayersStep ==
  ASSUME LayersInv, [LayersNext]_shown
  PROVE  LayersInv'
<1>1. CASE UNCHANGED shown
  BY <1>1 DEF LayersInv, shown
<1>2. CASE LayersNext
  <2>1. astray \subseteq astray' /\ width' = width
    BY <1>2, StrayGrows
  <2>2. width' \in Widths
    BY <2>1 DEF LayersInv
  <2>3. "crossed" \notin astray' => Sound(ui', width')
    BY <1>2, <2>1, StepKeeps DEF LayersInv
  <2>4. astray' = {} => LayersIsolated(ui')
    BY <1>2, <2>1, StepKeeps DEF LayersInv
  <2> QED
    BY <2>2, <2>3, <2>4 DEF LayersInv
<1> QED
  BY <1>1, <1>2

-----------------------------------------------------------------------------
(* What holds *)

LEMMA InvRestored ==
  ASSUME LayersInv
  PROVE  Restored
<1> SUFFICES ASSUME ui.stack = <<>>, "crossed" \notin astray PROVE Clean
  BY DEF Restored
<1>1. Sound(ui, width) /\ Len(ui.stack) = 0 /\ DOMAIN ui.stack = {} /\ ui.inert \in BOOLEAN
  BY StackLaws DEF LayersInv, Sound
<1>2. Below(ui, 1) = ui.body /\ ~Low(ui, 1)
  BY <1>1 DEF Below, Low
<1>3. ui.body = Free
  BY <1>1, <1>2 DEF Sound, Styled
<1>4. ~ui.inert
  BY <1>1 DEF Sound, PageIsolated, Modals
<1> QED
  BY <1>3, <1>4 DEF Clean

LEMMA ModalLaws ==
  ASSUME Sound(ui, width)
  PROVE  /\ Len(ui.stack) \in Nat /\ DOMAIN ui.stack = 1 .. Len(ui.stack)
         /\ Modals(ui) \subseteq 1 .. Len(ui.stack)
         /\ \A i \in Modals(ui) : ui.stack[i] \in Modal
         /\ Modal /= {} => Modals(ui) /= {}
<1>1. Len(ui.stack) \in Nat /\ DOMAIN ui.stack = 1 .. Len(ui.stack)
  BY StackLaws DEF Sound
<1> QED
  BY <1>1 DEF Modals, Modal, Range

LEMMA InvTopIsLive ==
  ASSUME LayersInv
  PROVE  TopIsLive
<1> SUFFICES ASSUME astray = {}, Modal /= {}, \A e \in Modal : e.framed
             PROVE  /\ ui.inert
                    /\ \A i \in DOMAIN ui.stack :
                         ui.stack[i].kind /= "menu" => (ui.stack[i].inert <=> i < Len(ui.stack))
  BY DEF TopIsLive
<1>1. Sound(ui, width) /\ LayersIsolated(ui) /\ width \in Widths
  BY DEF LayersInv
<1>2. /\ Len(ui.stack) \in Nat /\ DOMAIN ui.stack = 1 .. Len(ui.stack)
      /\ Modals(ui) \subseteq 1 .. Len(ui.stack)
      /\ \A i \in Modals(ui) : ui.stack[i] \in Modal
      /\ Modals(ui) /= {}
  BY <1>1, ModalLaws
<1>3. \A i \in DOMAIN ui.stack : ui.stack[i].framed
  <2>1. \A i \in Modals(ui) : ui.stack[i].framed
    BY <1>2
  <2>2. \A i \in DOMAIN ui.stack : ui.stack[i].kind = "menu" => ui.stack[i].framed
    BY <1>1 DEF Sound, PageIsolated
  <2> QED
    BY <2>1, <2>2 DEF Modals
<1>4. ui.inert
  <2>1. ui.inert <=> \E i \in Modals(ui) : ui.stack[i].framed
    BY <1>1 DEF Sound, PageIsolated
  <2> QED
    BY <1>2, <1>3, <2>1
<1>5. ASSUME NEW i \in DOMAIN ui.stack, ui.stack[i].kind /= "menu"
      PROVE  ui.stack[i].inert <=> i < Len(ui.stack)
  <2>1. i \in Modals(ui)
    BY <1>5 DEF Modals
  <2>2. ui.stack[i].inert <=> \E j \in DOMAIN ui.stack : i < j /\ ui.stack[j].framed
    BY <1>1, <2>1 DEF LayersIsolated
  <2>3. i < Len(ui.stack) => Len(ui.stack) \in DOMAIN ui.stack
    BY <1>2
  <2> QED
    BY <1>2, <1>3, <2>2, <2>3
<1> QED
  BY <1>4, <1>5

LEMMA InvLockHeld ==
  ASSUME LayersInv
  PROVE  LockHeld
<1> SUFFICES ASSUME Modal /= {}, astray = {}
             PROVE  ui.body.hidden \/ (width = "tablet" /\ "manage" \in Names(ui))
  BY DEF LockHeld
<1>1. Sound(ui, width)
  BY DEF LayersInv
<1> DEFINE n == Len(ui.stack)
<1>2. /\ n \in Nat /\ DOMAIN ui.stack = 1 .. n
      /\ Modals(ui) \subseteq 1 .. n
      /\ Modals(ui) /= {}
  BY <1>1, ModalLaws
<1>3. (n + 1) - 1 = n /\ n + 1 \in 1 .. n + 1 /\ ~(n + 1 <= n)
  BY <1>2
<1>4. Low(ui, n + 1) /\ Below(ui, n + 1) = ui.body
  BY <1>2, <1>3 DEF Low, Below, Modals
<1>5. \/ Below(ui, n + 1).hidden
      \/ width = "tablet" /\ \E j \in 1 .. (n + 1) - 1 : ui.stack[j].name = "manage"
  BY <1>1, <1>3, <1>4 DEF Sound, Styled
<1> QED
  BY <1>2, <1>3, <1>4, <1>5 DEF Names

\* Until a layer closes beneath another, what each open layer found of the styles
\* and of the isolation is what was right below it (bottom-sheet.tsx, ui.tsx,
\* modal-isolation.ts).
THEOREM LayersInvariant == LayersSpec => []LayersInv
<1>1. LayersInit => LayersInv
  BY LayersStart
<1>2. LayersInv /\ [LayersNext]_shown => LayersInv'
  BY LayersStep
<1> QED
  BY <1>1, <1>2, PTL DEF LayersSpec

\* However many layers opened, handed over and closed, the page under the last of
\* them scrolls and answers as before, unless one closed beneath another (the
\* cleanups of DesktopDialog and BottomSheet, isolateBodySiblings).
THEOREM LeftAsFound == LayersSpec => []Restored
<1>1. LayersInv => Restored
  BY InvRestored
<1> QED
  BY <1>1, LayersInvariant, PTL

\* Of layers that came one frame apart and closed from the top, the top one answers
\* and nothing below it does (isolateBodySiblings).
THEOREM TopAnswers == LayersSpec => []TopIsLive
<1>1. LayersInv => TopIsLive
  BY InvTopIsLive
<1> QED
  BY <1>1, LayersInvariant, PTL

\* No closing lifts the lock that a layer still open needs, but for the microtask of
\* the tablet's menu sheet (the effects of DesktopDialog and BottomSheet).
THEOREM PageStaysLocked == LayersSpec => []LockHeld
<1>1. LayersInv => LockHeld
  BY InvLockHeld
<1> QED
  BY <1>1, LayersInvariant, PTL

-----------------------------------------------------------------------------
(* The way out of Android, whether or not layers closed beneath others *)

\* The layers are a sequence, and each has its name.
Layered(u) ==
  /\ "stack" \in DOMAIN u
  /\ \E S : u.stack \in Seq(S)
  /\ \A i \in DOMAIN u.stack : "name" \in DOMAIN u.stack[i]

Visited == [page : {"landing", "login", "home", "work"}, add : BOOLEAN]

OnTheWay ==
  /\ inAndroid => Layered(ui)
  /\ trail \in Seq(Visited) /\ trail /= <<>>

LEMMA LayeredLaws ==
  ASSUME NEW u, Layered(u)
  PROVE  /\ Len(u.stack) \in Nat /\ DOMAIN u.stack = 1 .. Len(u.stack)
         /\ u.stack = <<>> <=> Len(u.stack) = 0
         /\ \A name \in Names(u) : /\ IndexOf(u, name) \in 1 .. Len(u.stack)
                                   /\ u.stack[IndexOf(u, name)].name = name
         /\ Len(u.stack) > 0 => Top(u).name \in Names(u)
<1>1. PICK S : u.stack \in Seq(S)
  BY DEF Layered
<1>2. /\ Len(u.stack) \in Nat /\ DOMAIN u.stack = 1 .. Len(u.stack)
      /\ u.stack = <<>> <=> Len(u.stack) = 0
  BY <1>1
<1>3. ASSUME NEW name \in Names(u)
      PROVE  IndexOf(u, name) \in DOMAIN u.stack /\ u.stack[IndexOf(u, name)].name = name
  <2>1. \E i \in DOMAIN u.stack : u.stack[i].name = name
    BY DEF Names
  <2> QED
    BY <2>1 DEF IndexOf
<1>4. Len(u.stack) > 0 => Top(u).name \in Names(u)
  <2>1. Len(u.stack) > 0 => Len(u.stack) \in DOMAIN u.stack
    BY <1>2
  <2> QED
    BY <2>1 DEF Top, Names
<1> QED
  BY <1>2, <1>3, <1>4

\* One layer goes, the others stay.
LEMMA CleanedLayers ==
  ASSUME NEW u, Layered(u), NEW name \in Names(u)
  PROVE  LET v == Cleaned(u, name) IN
         /\ Layered(v) /\ Len(v.stack) = Len(u.stack) - 1
         /\ Names(u) \ {name} \subseteq Names(v)
<1> DEFINE n == Len(u.stack)
           i == IndexOf(u, name)
           e == u.stack[i]
           rest == RemoveAt(u.stack, i)
           v == Cleaned(u, name)
<1>1. n \in Nat /\ DOMAIN u.stack = 1 .. n /\ i \in 1 .. n /\ e.name = name
  BY LayeredLaws
<1>2. PICK S : u.stack \in Seq(S)
  BY DEF Layered
<1>3. DOMAIN rest = 1 .. n - 1
      /\ \A j \in 1 .. n - 1 : rest[j] = IF j < i THEN u.stack[j] ELSE u.stack[j + 1]
  BY <1>1, <1>2, TakenOut
<1>4. v.stack = [j \in DOMAIN rest |-> PutBack(rest[j], e)] /\ "stack" \in DOMAIN v
  BY DEF Cleaned
<1> HIDE DEF v, rest, i, e, n
<1>5. DOMAIN v.stack = 1 .. n - 1 /\ v.stack \in Seq({v.stack[j] : j \in 1 .. n - 1})
      /\ Len(v.stack) = n - 1
  <2>1. v.stack \in [1 .. n - 1 -> {v.stack[j] : j \in 1 .. n - 1}] /\ n - 1 \in Nat
    BY <1>1, <1>3, <1>4
  <2> QED
    BY <2>1, SeqDef
<1>6. \A j \in 1 .. n : "name" \in DOMAIN u.stack[j]
  BY <1>1 DEF Layered
<1>7. ASSUME NEW j \in 1 .. n - 1
      PROVE  /\ "name" \in DOMAIN v.stack[j] /\ v.stack[j].name = rest[j].name
             /\ rest[j] = IF j < i THEN u.stack[j] ELSE u.stack[j + 1]
  <2>1. v.stack[j] = PutBack(rest[j], e)
    BY <1>3, <1>4
  <2>2. rest[j] = IF j < i THEN u.stack[j] ELSE u.stack[j + 1]
    BY <1>3
  <2>3. "name" \in DOMAIN rest[j]
    BY <1>1, <1>6, <2>2
  <2> QED
    BY <2>1, <2>2, <2>3 DEF PutBack
<1>8. Layered(v)
  BY <1>4, <1>5, <1>7 DEF Layered
<1>9. ASSUME NEW other \in Names(u) \ {name} PROVE other \in Names(v)
  <2>1. PICK m \in 1 .. n : u.stack[m].name = other
    BY <1>1 DEF Names
  <2>2. m /= i
    BY <1>1, <2>1 DEF e
  <2>3. CASE m < i
    <3>1. m \in 1 .. n - 1
      BY <1>1, <2>3
    <3> QED
      BY <1>5, <1>7, <2>1, <2>3, <3>1 DEF Names
  <2>4. CASE m > i
    <3>1. m - 1 \in 1 .. n - 1 /\ ~(m - 1 < i) /\ (m - 1) + 1 = m
      BY <1>1, <2>4
    <3>2. v.stack[m - 1].name = other
      BY <1>7, <2>1, <3>1
    <3> QED
      BY <1>5, <3>1, <3>2 DEF Names
  <2> QED
    BY <1>1, <2>2, <2>3, <2>4
<1> QED
  BY <1>5, <1>8, <1>9 DEF v, n

LEMMA SettledLayers ==
  ASSUME NEW u, Layered(u)
  PROVE  Layered(Settled(u)) /\ Settled(u).stack = u.stack
<1>1. "stack" \in DOMAIN u
  BY DEF Layered
<1>2. Settled(u).stack = u.stack /\ "stack" \in DOMAIN Settled(u)
  BY <1>1 DEF Settled
<1> QED
  BY <1>2 DEF Layered

LEMMA OpenedLayers ==
  ASSUME NEW u, Layered(u), NEW name, NEW read
  PROVE  Layered(Opened(u, name, read))
<1> DEFINE v == Opened(u, name, read)
           n == Len(u.stack)
<1>1. PICK S : u.stack \in Seq(S)
  BY DEF Layered
<1>2. PICK e : v.stack = Append(u.stack, e) /\ "name" \in DOMAIN e
  BY DEF Opened
<1>3. "stack" \in DOMAIN v
  BY DEF Opened
<1> HIDE DEF v
<1>4. n \in Nat /\ DOMAIN u.stack = 1 .. n /\ DOMAIN v.stack = 1 .. n + 1
      /\ v.stack \in Seq(S \cup {e}) /\ v.stack[n + 1] = e
      /\ \A i \in 1 .. n : v.stack[i] = u.stack[i]
  <2>1. u.stack \in Seq(S \cup {e})
    BY <1>1
  <2> QED
    BY <1>2, <2>1
<1>5. ASSUME NEW i \in 1 .. n + 1 PROVE "name" \in DOMAIN v.stack[i]
  <2>1. CASE i = n + 1
    BY <1>2, <1>4, <2>1
  <2>2. CASE i /= n + 1
    <3>1. i \in 1 .. n
      BY <1>4, <2>2
    <3> QED
      BY <1>4, <3>1 DEF Layered
  <2> QED
    BY <2>1, <2>2
<1> QED
  BY <1>3, <1>4, <1>5 DEF Layered, v

LEMMA TurnLayers ==
  ASSUME NEW u, Layered(u), NEW name \in Names(u)
  PROVE  LET v == ClosedTogether(u, <<name>>) IN
         /\ Layered(v) /\ Len(v.stack) = Len(u.stack) - 1
         /\ Names(u) \ {name} \subseteq Names(v)
<1> DEFINE c == Cleaned(u, name)
<1>1. Layered(c) /\ Len(c.stack) = Len(u.stack) - 1 /\ Names(u) \ {name} \subseteq Names(c)
  BY CleanedLayers
<1>2. ClosedTogether(u, <<name>>) \in {c, Settled(c)}
  BY ClosedOne
<1> HIDE DEF c
<1>3. Layered(Settled(c)) /\ Settled(c).stack = c.stack /\ Names(Settled(c)) = Names(c)
  BY <1>1, SettledLayers DEF Names
<1> QED
  BY <1>1, <1>2, <1>3

\* Every turn takes one layer.
LEMMA TurnsLayers ==
  ASSUME NEW u, Layered(u), NEW names \in Seq(Names(u)),
         \A m, k \in DOMAIN names : m < k => names[m] /= names[k]
  PROVE  /\ Layered(ClosedInTurn(u, names))
         /\ Len(ClosedInTurn(u, names).stack) = Len(u.stack) - Len(names)
<1> DEFINE n == Len(u.stack)
           c == Len(names)
<1>1. n \in Nat /\ c \in Nat /\ DOMAIN names = 1 .. c /\ \A k \in 1 .. c : names[k] \in Names(u)
  <2>1. c \in Nat /\ DOMAIN names = 1 .. c /\ \A k \in 1 .. c : names[k] \in Names(u)
    OBVIOUS
  <2> QED
    BY <2>1, LayeredLaws
<1>2. PICK after :
        /\ ClosedInTurn(u, names) = after[c]
        /\ after[0] = u
        /\ \A i \in 1 .. c : after[i] = ClosedTogether(after[i - 1], <<names[i]>>)
  <2>1. Len(names) \in Nat
    BY <1>1
  <2> QED
    BY <2>1, TurnsOf
<1> DEFINE Good(i) == /\ Layered(after[i]) /\ Len(after[i].stack) = n - i
                      /\ \A k \in 1 .. c : i < k => names[k] \in Names(after[i])
           Bad == {i \in 0 .. c : ~Good(i)}
<1>3. Good(0)
  BY <1>1, <1>2
<1>4. ASSUME NEW i \in 0 .. c - 1, Good(i) PROVE Good(i + 1)
  <2> DEFINE v == after[i]
             w == after[i + 1]
  <2>1. i + 1 \in 1 .. c /\ (i + 1) - 1 = i /\ i < i + 1
    BY <1>1
  <2>2. Layered(v) /\ Len(v.stack) = n - i /\ names[i + 1] \in Names(v)
        /\ \A k \in 1 .. c : i < k => names[k] \in Names(v)
    BY <1>4, <2>1
  <2>3. w = ClosedTogether(v, <<names[i + 1]>>)
    BY <1>2, <2>1
  <2> HIDE DEF v, w
  <2>4. Layered(w) /\ Len(w.stack) = Len(v.stack) - 1 /\ Names(v) \ {names[i + 1]} \subseteq Names(w)
    BY <2>2, <2>3, TurnLayers
  <2>5. Len(w.stack) = n - (i + 1)
    BY <1>1, <2>2, <2>4
  <2>6. ASSUME NEW k \in 1 .. c, i + 1 < k PROVE names[k] \in Names(w)
    <3>1. names[k] /= names[i + 1] /\ i < k
      BY <1>1, <2>1, <2>6
    <3> QED
      BY <2>2, <2>4, <3>1
  <2> QED
    BY <2>4, <2>5, <2>6 DEF w
<1>5. Bad = {}
  <2> SUFFICES ASSUME Bad /= {} PROVE FALSE
    OBVIOUS
  <2> HIDE DEF Good
  <2>1. PICK m \in Bad : \A k \in Bad : m <= k
    <3>1. Bad \in SUBSET Nat
      BY <1>1
    <3> HIDE DEF Bad
    <3> QED
      BY <3>1, Least
  <2>2. m \in 0 .. c /\ ~Good(m)
    BY <2>1
  <2>3. m /= 0
    BY <1>3, <2>2
  <2>4. m - 1 \in 0 .. c - 1 /\ (m - 1) + 1 = m /\ m - 1 \in 0 .. c /\ m - 1 < m
    BY <1>1, <2>2, <2>3
  <2>5. Good(m - 1)
    <3> SUFFICES ASSUME m - 1 \in Bad PROVE FALSE
      BY <2>4
    <3> HIDE DEF Bad
    <3> QED
      BY <1>1, <2>1, <2>2
  <2>6. Good((m - 1) + 1)
    BY <1>4, <2>4, <2>5
  <2> QED
    BY <2>2, <2>4, <2>6
<1>6. Good(c)
  <2> HIDE DEF Good
  <2> QED
    BY <1>1, <1>5
<1> QED
  BY <1>2, <1>6

LEMMA OneTurnLayers ==
  ASSUME NEW name, Layered(ui), name \in Names(ui), CloseInTurn(<<name>>)
  PROVE  Layered(ui') /\ Len(ui'.stack) = Len(ui.stack) - 1
<1> DEFINE names == <<name>>
<1>1. names \in Seq(Names(ui)) /\ DOMAIN names = {1} /\ Len(names) = 1
  OBVIOUS
<1>2. ui' = ClosedInTurn(ui, names)
  BY DEF CloseInTurn
<1> HIDE DEF names
<1>3. \A m, k \in DOMAIN names : m < k => names[m] /= names[k]
  BY <1>1
<1> QED
  BY <1>1, <1>2, <1>3, TurnsLayers

\* The layers that hear the Escape key, in any order that puts none before itself.
LEMMA EscapeLayers ==
  ASSUME Layered(ui), Escape
  PROVE  Layered(ui')
<1> DEFINE heard == {i \in DOMAIN ui.stack : ~ui.stack[i].busy}
           Turn(i) == IF ui.stack[i].name = "add" THEN 3
                      ELSE IF ui.stack[i].kind = "dialog" THEN 1 ELSE 2
           Before(i, j) == Turn(i) < Turn(j) \/ (Turn(i) = Turn(j) /\ i < j)
<1>1. \E names \in {names \in [1 .. Cardinality(heard) -> {ui.stack[i].name : i \in heard}] :
                      \A m, n \in DOMAIN names :
                        m < n => Before(IndexOf(ui, names[m]), IndexOf(ui, names[n]))} :
        CloseInTurn(names)
  BY DEF Escape, Turns
<1>2. PICK names \in [1 .. Cardinality(heard) -> {ui.stack[i].name : i \in heard}] :
        /\ \A m, n \in DOMAIN names : m < n => Before(IndexOf(ui, names[m]), IndexOf(ui, names[n]))
        /\ CloseInTurn(names)
  <2> HIDE DEF heard, Before
  <2> QED
    BY <1>1
<1>3. \A i \in DOMAIN ui.stack : ~Before(i, i)
  <2>1. \A i \in DOMAIN ui.stack : i \in Nat /\ Turn(i) \in Nat
    BY LayeredLaws
  <2> HIDE DEF Turn
  <2> QED
    BY <2>1
<1>4. Cardinality(heard) \in Nat
  <2>1. Len(ui.stack) \in Nat
    BY LayeredLaws
  <2>2. IsFiniteSet(1 .. Len(ui.stack))
    BY <2>1, FS_Interval
  <2>3. heard \subseteq 1 .. Len(ui.stack)
    BY LayeredLaws
  <2> HIDE DEF heard
  <2> QED
    BY <2>2, <2>3, FS_Subset, FS_CardinalityType
<1>5. names \in [1 .. Cardinality(heard) -> Names(ui)]
  BY <1>2 DEF Names
<1> HIDE DEF Before, heard
<1>6. names \in Seq(Names(ui)) /\ DOMAIN names = 1 .. Cardinality(heard)
  BY <1>4, <1>5, SeqDef
<1>7. \A m, k \in DOMAIN names : m < k => names[m] /= names[k]
  <2> SUFFICES ASSUME NEW m \in DOMAIN names, NEW k \in DOMAIN names, m < k, names[m] = names[k]
               PROVE  FALSE
    OBVIOUS
  <2>1. names[m] \in Names(ui)
    BY <1>5, <1>6
  <2>2. IndexOf(ui, names[m]) \in DOMAIN ui.stack
    BY <2>1, LayeredLaws
  <2>3. Before(IndexOf(ui, names[m]), IndexOf(ui, names[k]))
    BY <1>2
  <2> QED
    BY <1>3, <2>2, <2>3
<1>8. ui' = ClosedInTurn(ui, names)
  BY <1>2 DEF CloseInTurn
<1> QED
  BY <1>6, <1>7, <1>8, TurnsLayers

\* A frame, and a request or its failure, mark the layers and move none.
LEMMA MarkedLayers ==
  ASSUME NEW u, NEW v, Layered(u), "stack" \in DOMAIN v, DOMAIN v.stack = DOMAIN u.stack,
         v.stack = [i \in DOMAIN v.stack |-> v.stack[i]],
         \A i \in DOMAIN u.stack : DOMAIN v.stack[i] = DOMAIN u.stack[i]
  PROVE  Layered(v)
<1> DEFINE n == Len(u.stack)
<1>1. n \in Nat /\ DOMAIN v.stack = 1 .. n
  BY LayeredLaws
<1>2. v.stack \in [1 .. n -> {v.stack[i] : i \in 1 .. n}]
  BY <1>1
<1>3. v.stack \in Seq({v.stack[i] : i \in 1 .. n})
  BY <1>1, <1>2, SeqDef
<1> QED
  BY <1>3 DEF Layered

LEMMA BusyLayers ==
  ASSUME NEW u, Layered(u), NEW name \in Names(u), NEW busy
  PROVE  Layered(Marked(u, name, busy))
<1> DEFINE k == IndexOf(u, name)
           e == [u.stack[k] EXCEPT !.busy = busy]
           v == Marked(u, name, busy)
<1>1. "stack" \in DOMAIN u /\ k \in DOMAIN u.stack
  BY LayeredLaws DEF Layered
<1>2. "stack" \in DOMAIN v /\ v.stack = [u.stack EXCEPT ![k] = e]
  BY <1>1 DEF Marked
<1>3. DOMAIN e = DOMAIN u.stack[k]
  OBVIOUS
<1> HIDE DEF v, e, k
<1>4. /\ DOMAIN v.stack = DOMAIN u.stack /\ v.stack = [i \in DOMAIN v.stack |-> v.stack[i]]
      /\ \A i \in DOMAIN u.stack : v.stack[i] = IF i = k THEN e ELSE u.stack[i]
  BY <1>1, <1>2
<1>5. \A i \in DOMAIN u.stack : DOMAIN v.stack[i] = DOMAIN u.stack[i]
  BY <1>3, <1>4
<1>6. Layered(v)
  BY <1>2, <1>4, <1>5, MarkedLayers
<1> QED
  BY <1>6 DEF v

LEMMA FrameLayers ==
  ASSUME NEW u, Layered(u)
  PROVE  Layered(Isolated(u))
<1> DEFINE E(i) == [u.stack[i] EXCEPT !.inert = @ \/ (i \in Modals(u) /\ New(u) \ {i} /= {}),
                                     !.kept = IF i \in New(u) THEN Kept(u, i) ELSE @,
                                     !.framed = TRUE]
           v == Isolated(u)
<1>1. "stack" \in DOMAIN u
  BY DEF Layered
<1>2. \A i \in DOMAIN u.stack : DOMAIN E(i) = DOMAIN u.stack[i]
  OBVIOUS
<1>3. "stack" \in DOMAIN v /\ v.stack = [i \in DOMAIN u.stack |-> E(i)]
  BY <1>1 DEF Isolated
<1> HIDE DEF v, E
<1>4. /\ DOMAIN v.stack = DOMAIN u.stack /\ v.stack = [i \in DOMAIN v.stack |-> v.stack[i]]
      /\ \A i \in DOMAIN u.stack : v.stack[i] = E(i)
  BY <1>3
<1>5. \A i \in DOMAIN u.stack : DOMAIN v.stack[i] = DOMAIN u.stack[i]
  BY <1>2, <1>4
<1>6. Layered(v)
  BY <1>3, <1>4, <1>5, MarkedLayers
<1> QED
  BY <1>6 DEF v

LEMMA LayersStay ==
  ASSUME Layered(ui), LayersNext, inAndroid
  PROVE  Layered(ui')
<1>1. ASSUME NEW name, OnTop(name), name \in Layers PROVE name \in Names(ui)
  <2>1. ui.stack /= <<>> /\ Top(ui).name = name
    BY <1>1, LayerNames DEF OnTop
  <2> QED
    BY <2>1, LayeredLaws
<1>2. ASSUME ui' = ui \/ (ui.stack /= <<>> /\ CloseInTurn(<<Top(ui).name>>))
      PROVE  Layered(ui')
  <2>1. ui.stack /= <<>> => Top(ui).name \in Names(ui)
    BY LayeredLaws
  <2> QED
    BY <1>2, <2>1, OneTurnLayers
<1>3. ASSUME NEW name \in Layers, Open(name) PROVE Layered(ui')
  <2>1. ui' = Opened(ui, name, ReadBody(ui))
    BY <1>3 DEF Open, Opens
  <2> QED
    BY <2>1, OpenedLayers
<1>4. ASSUME NEW name \in Layers, Request(name) PROVE Layered(ui')
  <2>1. ui' = Marked(ui, name, TRUE) /\ OnTop(name)
    BY <1>4 DEF Request, SetBusy, Marked
  <2> QED
    BY <1>1, <2>1, BusyLayers
<1>5. ASSUME NEW name \in Layers, Answer(name) PROVE Layered(ui')
  <2>1. name \in Names(ui)
    BY <1>5 DEF Answer
  <2>2. Layered(Marked(ui, name, FALSE))
    BY <2>1, BusyLayers
  <2>3. \/ ui' = Marked(ui, name, FALSE)
        \/ CloseInTurn(<<name>>)
        \/ ui' = Opened(Marked(ui, name, FALSE), "share", ReadBody(ui))
    BY <1>5 DEF Answer, SetBusy, Opens, Marked
  <2> QED
    BY <2>1, <2>2, <2>3, OneTurnLayers, OpenedLayers
<1>6. ASSUME NEW from \in Layers, NEW to \in Layers, HandOver(from, to) PROVE Layered(ui')
  <2>1. PICK read : ui' \in {Opened(Cleaned(ui, from), to, read),
                             Settled(Opened(Cleaned(ui, from), to, read))}
    BY <1>6 DEF HandOver, Opens
  <2>2. from \in Names(ui)
    BY <1>1, <1>6 DEF HandOver
  <2>3. Layered(Opened(Cleaned(ui, from), to, read))
    BY <2>2, CleanedLayers, OpenedLayers
  <2> QED
    BY <2>1, <2>3, SettledLayers
<1>7. CASE Load
  <2>1. ui' = Opened(ui, "add", ReadBody(ui))
    BY <1>7 DEF Load, Opens
  <2> QED
    BY <2>1, OpenedLayers
<1>8. CASE Frame
  BY <1>8, FrameLayers DEF Frame
<1>9. CASE Touch
  BY <1>2, <1>9 DEF Touch
<1>10. CASE Navigate
  <2>1. ui' = ui \/ (ui.stack /= <<>> /\ CloseInTurn(<<Top(ui).name>>))
    BY <1>10 DEF Navigate
  <2> QED
    BY <1>2, <2>1
<1>11. CASE BackPress
  <2>1. ui' = ui \/ (ui.stack /= <<>> /\ CloseInTurn(<<Top(ui).name>>))
    BY <1>11 DEF BackPress
  <2> QED
    BY <1>2, <2>1
<1>12. ~BrowserBack
  BY DEF BrowserBack
<1> QED
  BY <1>3, <1>4, <1>5, <1>6, <1>7, <1>8, <1>9, <1>10, <1>11, <1>12, EscapeLayers DEF LayersNext

\* The ways the history changes: the dialog of the URL goes, the last page goes, or
\* one is added.
LEMMA DismissedTrail ==
  ASSUME NEW t \in Seq(Visited), t /= <<>>
  PROVE  LET d == [t EXCEPT ![Len(t)].add = FALSE] IN
         /\ d \in Seq(Visited) /\ Len(d) = Len(t) /\ Len(t) > 0
         /\ d[Len(t)].add = FALSE /\ d[1].page = t[1].page
<1> DEFINE n == Len(t)
           e == [t[n] EXCEPT !.add = FALSE]
           d == [t EXCEPT ![n] = e]
<1>1. n \in Nat /\ n > 0 /\ DOMAIN t = 1 .. n /\ \A i \in 1 .. n : t[i] \in Visited
  OBVIOUS
<1>2. e \in Visited /\ e.add = FALSE /\ e.page = t[n].page
  <2>1. t[n] \in Visited
    BY <1>1
  <2> HIDE DEF n
  <2> QED
    BY <2>1 DEF Visited
<1> HIDE DEF e
<1>3. d \in Seq(Visited) /\ Len(d) = n /\ \A i \in 1 .. n : d[i] = IF i = n THEN e ELSE t[i]
  BY <1>1, <1>2
<1> HIDE DEF d, n
<1>4. d[n].add = FALSE /\ d[1].page = t[1].page
  BY <1>1, <1>2, <1>3
<1> QED
  BY <1>1, <1>3, <1>4 DEF d, e, n

LEMMA FrontTrail ==
  ASSUME NEW t \in Seq(Visited), Len(t) > 1
  PROVE  /\ Front(t) \in Seq(Visited) /\ Len(Front(t)) = Len(t) - 1
         /\ Front(t)[1] = t[1] /\ Front(t)[Len(t) - 1] \in Visited
<1> DEFINE n == Len(t)
           f == Front(t)
<1>1. n \in Nat /\ \A i \in 1 .. n : t[i] \in Visited
  OBVIOUS
<1>2. f = SubSeq(t, 1, n - 1)
  BY DEF Front
<1>3. 1 .. n - 1 \subseteq 1 .. n /\ (n - 1) - 1 + 1 = n - 1 /\ 1 <= n - 1
  BY <1>1
<1>4. /\ SubSeq(t, 1, n - 1) \in Seq(Visited)
      /\ Len(SubSeq(t, 1, n - 1)) = IF 1 <= n - 1 THEN (n - 1) - 1 + 1 ELSE 0
      /\ \A i \in 1 .. (n - 1) - 1 + 1 : SubSeq(t, 1, n - 1)[i] = t[1 + i - 1]
  BY <1>1, <1>3, SubSeqProperties
<1> HIDE DEF f, n
<1>5. 1 \in 1 .. n - 1 /\ n - 1 \in 1 .. n - 1 /\ 1 + 1 - 1 = 1 /\ 1 + (n - 1) - 1 = n - 1
  BY <1>1, <1>3
<1>6. f \in Seq(Visited) /\ Len(f) = n - 1 /\ f[1] = t[1] /\ f[n - 1] = t[n - 1]
  BY <1>2, <1>3, <1>4, <1>5
<1>7. t[n - 1] \in Visited
  BY <1>1, <1>3, <1>5
<1> QED
  BY <1>6, <1>7 DEF f, n

LEMMA TrailStays ==
  ASSUME trail \in Seq(Visited), trail /= <<>>, LayersNext
  PROVE  trail' \in Seq(Visited) /\ trail' /= <<>>
<1> DEFINE d == [trail EXCEPT ![Len(trail)].add = FALSE]
<1>1. d \in Seq(Visited) /\ d /= <<>>
  <2>1. d \in Seq(Visited) /\ Len(d) = Len(trail) /\ Len(trail) > 0
    BY DismissedTrail
  <2> HIDE DEF d
  <2> QED
    BY <2>1
<1>2. \A name \in Layers : Open(name) \/ Request(name) => trail' = trail
  BY DEF Open, Request
<1>3. \A name \in Layers : Answer(name) => trail' \in {trail, d}
  BY DEF Answer
<1>4. \A from, to \in Layers : HandOver(from, to) => trail' = trail
  BY DEF HandOver
<1>5. Load \/ Frame => trail' = trail
  BY DEF Load, Frame
<1>6. Touch \/ Escape => trail' \in {trail, d}
  BY DEF Touch, Escape, Dismissed
<1>7. CASE Navigate
  <2>1. PICK page \in {"landing", "login", "home", "work"}, add \in BOOLEAN :
          trail' = Append(trail, [page |-> page, add |-> add])
    BY <1>7 DEF Navigate
  <2>2. [page |-> page, add |-> add] \in Visited
    BY DEF Visited
  <2> QED
    BY <2>1, <2>2
<1>8. ASSUME Len(trail) > 1, trail' = Front(trail)
      PROVE  trail' \in Seq(Visited) /\ trail' /= <<>>
  <2>1. trail' \in Seq(Visited) /\ Len(trail') = Len(trail) - 1 /\ Len(trail) \in Nat
    BY <1>8, FrontTrail
  <2> QED
    BY <1>8, <2>1
<1>9. CASE BrowserBack
  BY <1>8, <1>9 DEF BrowserBack
<1>10. CASE BackPress
  <2>1. \/ trail' \in {trail, d}
        \/ Len(trail) > 1 /\ trail' = Front(trail)
        \/ ToRoot
    BY <1>10 DEF BackPress, Dismissed
  <2>2. ToRoot => trail' \in Seq(Visited) /\ trail' /= <<>>
    <3>1. [page |-> Root, add |-> FALSE] \in Visited
      BY DEF Root, Visited
    <3> QED
      BY <3>1 DEF ToRoot
  <2> HIDE DEF d
  <2> QED
    BY <1>1, <1>8, <2>1, <2>2
<1> HIDE DEF d
<1> QED
  BY <1>1, <1>2, <1>3, <1>4, <1>5, <1>6, <1>7, <1>9, <1>10 DEF LayersNext

LEMMA WayStays == LayersSpec => []OnTheWay
<1>1. LayersInit => OnTheWay
  <2> SUFFICES ASSUME LayersInit PROVE OnTheWay
    OBVIOUS
  <2>1. ui.stack = <<>> /\ "stack" \in DOMAIN ui
    BY DEF LayersInit
  <2>2. Layered(ui)
    BY <2>1 DEF Layered
  <2>3. PICK p \in {"home", "work", "landing", "login"} : trail = <<[page |-> p, add |-> FALSE]>>
    BY DEF LayersInit
  <2>4. [page |-> p, add |-> FALSE] \in Visited
    BY DEF Visited
  <2> QED
    BY <2>2, <2>3, <2>4 DEF OnTheWay
<1>2. OnTheWay /\ [LayersNext]_shown => OnTheWay'
  <2> SUFFICES ASSUME OnTheWay, [LayersNext]_shown PROVE OnTheWay'
    OBVIOUS
  <2>1. CASE LayersNext
    <3>1. inAndroid' = inAndroid
      BY <2>1, StrayGrows
    <3> QED
      BY <2>1, <3>1, LayersStay, TrailStays DEF OnTheWay
  <2>2. CASE UNCHANGED shown
    BY <2>2 DEF OnTheWay, shown, Layered
  <2> QED
    BY <2>1, <2>2
<1> QED
  BY <1>1, <1>2, PTL DEF LayersSpec

\* The four things a press may do, by what is left of layers (h, k), of pages (n, m),
\* of the dialog in the URL and of the way to the root.
LEMMA Fewer ==
  ASSUME NEW h \in Nat, NEW k \in Nat, NEW n \in Nat, NEW m \in Nat,
         NEW asks \in {0, 1}, NEW asked \in {0, 1}, NEW far \in {0, 1}, NEW near \in {0, 1},
         \/ k = h - 1 /\ m = n /\ asked <= asks /\ near = far
         \/ k = h /\ m = n /\ asked < asks /\ near = far
         \/ k = h /\ m = n - 1 /\ near = far
         \/ k = h /\ m = n /\ asked <= asks /\ near < far
  PROVE  k + 2 * m + asked + near < h + 2 * n + asks + far
OBVIOUS

\* A press of Android's back that does not leave the application closes a layer,
\* or the dialog of the URL, or a page, or goes to the root once: presses are
\* enough to get out (useNativeBack, AndroidBackHandler).
THEOREM EveryPressCounts == LayersSpec => BackGetsCloser
<1>1. ASSUME OnTheWay, BackPress, ~away' PROVE Presses' < Presses
  <2> DEFINE h == Len(ui.stack)
             k == Len(ui'.stack)
             n == Len(trail)
             m == Len(trail')
             d == [trail EXCEPT ![n].add = FALSE]
             Far(page) == IF page \in {"landing", "login"} \/ (page = "home" /\ signedIn) THEN 0 ELSE 1
             far == Far(trail[1].page)
             near == Far(trail'[1].page)
             asks == IF trail[n].add THEN 1 ELSE 0
             asked == IF trail'[m].add THEN 1 ELSE 0
  <2>1. /\ trail \in Seq(Visited) /\ trail /= <<>> /\ n \in Nat /\ n > 0
        /\ Layered(ui) /\ h \in Nat /\ signedIn' = signedIn
    BY <1>1, LayeredLaws DEF OnTheWay, BackPress
  <2>2. Presses = h + 2 * n + asks + far
    BY DEF Presses, Here, ExitRoot
  <2>3. Presses' = k + 2 * m + asked + near
    BY <2>1 DEF Presses, Here, ExitRoot
  <2>4. asks \in {0, 1} /\ asked \in {0, 1} /\ far \in {0, 1} /\ near \in {0, 1}
    OBVIOUS
  <2>5. Len(d) = n /\ d[n].add = FALSE /\ d[1].page = trail[1].page
    BY <2>1, DismissedTrail
  <2>6. trail' = d => m = n /\ asked = 0 /\ near = far
    <3> HIDE DEF d, Far, n
    <3> QED
      BY <2>5
  <2>7. trail' = trail => m = n /\ asked = asks /\ near = far
    OBVIOUS
  <2>8. ASSUME ui.stack /= <<>> PROVE k + 2 * m + asked + near < h + 2 * n + asks + far
    <3>1. CloseInTurn(<<Top(ui).name>>) /\ trail' \in {trail, d}
      BY <1>1, <2>8 DEF BackPress, Dismissed
    <3>2. Top(ui).name \in Names(ui)
      BY <2>1, <2>8, LayeredLaws
    <3>3. k \in Nat /\ k = h - 1
      BY <2>1, <3>1, <3>2, OneTurnLayers, LayeredLaws
    <3> HIDE DEF d, far, near, asks, asked, n, m, h, k
    <3>4. m = n /\ asked <= asks /\ near = far
      BY <2>4, <2>6, <2>7, <3>1
    <3> QED
      BY <2>1, <2>4, <3>3, <3>4, Fewer
  <2>9. ASSUME ui.stack = <<>> PROVE k + 2 * m + asked + near < h + 2 * n + asks + far
    <3>1. k = h
      BY <1>1, <2>9 DEF BackPress
    <3>2. CASE Here.add
      <4>1. trail' = d
        BY <1>1, <2>9, <3>2 DEF BackPress, Dismissed
      <4>2. asks = 1
        BY <3>2 DEF Here
      <4> HIDE DEF d, far, near, asks, asked, n, m, h, k
      <4>3. m = n /\ asked < asks /\ near = far
        BY <2>6, <4>1, <4>2
      <4> QED
        BY <2>1, <2>4, <3>1, <4>3, Fewer
    <3>3. CASE ~Here.add /\ n /= 1
      <4>1. trail' = Front(trail)
        BY <1>1, <2>9, <3>3 DEF BackPress
      <4>2. m = n - 1 /\ trail'[1] = trail[1]
        <5>1. n > 1
          <6> HIDE DEF n
          <6> QED
            BY <2>1, <3>3
        <5> QED
          BY <2>1, <4>1, <5>1, FrontTrail
      <4>3. near = far
        BY <4>2
      <4> HIDE DEF d, far, near, asks, asked, n, m, h, k
      <4>4. m \in Nat
        BY <2>1, <4>2
      <4> QED
        BY <2>1, <2>4, <3>1, <4>2, <4>3, <4>4, Fewer
    <3>4. CASE ~Here.add /\ n = 1
      <4>1. ~ExitRoot(trail[1].page) /\ ToRoot
        BY <1>1, <2>9, <3>4 DEF BackPress, Here
      <4>2. far = 1
        BY <4>1 DEF ExitRoot
      <4>3. trail' = <<[page |-> Root, add |-> FALSE]>>
        BY <4>1 DEF ToRoot
      <4>4. m = 1 /\ trail'[1].page = Root /\ trail'[1].add = FALSE
        BY <4>3
      <4>5. asked = 0 /\ near = 0
        BY <4>4 DEF Root
      <4> HIDE DEF d, far, near, asks, asked, n, m, h, k
      <4>6. m = n /\ asked <= asks /\ near < far
        BY <2>4, <3>4, <4>2, <4>4, <4>5
      <4> QED
        BY <2>1, <2>4, <3>1, <4>6, Fewer
    <3> QED
      BY Zenon, <3>2, <3>3, <3>4
  <2> HIDE DEF far, near, asks, asked, n, m, h, k
  <2> QED
    BY <2>2, <2>3, <2>8, <2>9
<1>2. OnTheWay /\ [LayersNext]_shown => [BackPress => away' \/ Presses' < Presses]_shown
  BY <1>1
<1> QED
  BY <1>2, WayStays, PTL DEF LayersSpec, BackGetsCloser
=============================================================================
