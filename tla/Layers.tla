------------------------------- MODULE Layers -------------------------------
(***************************************************************************)
(* What lies over the pages of the web client: dialogs, sheets, the search *)
(* palette and the workspace menu, the scroll lock and the isolation each  *)
(* of them puts on what is below it, and the ways out of them: a touch, the *)
(* Escape key, the answer of a request, the browser's way back and the one *)
(* of Android.                                                             *)
(*                                                                         *)
(* A layer remembers the state it found and puts it back when it closes,   *)
(* which is right as long as layers close in the reverse order of opening. *)
(***************************************************************************)
EXTENDS Naturals, Sequences, SequencesExt, FiniteSets

CONSTANTS
  MaxOpens,   \* How many layers are opened in all.
  MaxMoves    \* How many pages are visited by the viewer's own choice.

ASSUME LayersAssumption == MaxOpens \in Nat \ {0} /\ MaxMoves \in Nat

Widths == {"phone", "tablet", "wide"}

\* The kind of a layer on each width; what it is opened over; what hands over
\* to it, closing in the same render; whether a page holds it, or the shell;
\* whether a request keeps it busy; whether it is opened over a busy layer.
Layer(phone, tablet, wide, over, follows) ==
  [kind |-> [phone |-> phone, tablet |-> tablet, wide |-> wide],
   over |-> over, follows |-> follows, held |-> "page", asks |-> FALSE, late |-> FALSE]

OfShell(layer) == [layer EXCEPT !.held = "shell"]
Asking(layer) == [layer EXCEPT !.asks = TRUE]
Anytime(layer) == [layer EXCEPT !.late = TRUE]

\* A dialog is a sheet on a phone.
DialogLayer(over, follows) == Layer("sheet", "dialog", "dialog", over, follows)

RecordDrawerLayer == Asking(DialogLayer({"page"}, {}))

EditLayer == Asking(DialogLayer({}, {"record"}))

\* Opened by the answer to a request of the record drawer.
ShareLayer == Layer("sheet", "sheet", "sheet", {}, {})

\* The dialog a query parameter of the URL opens.
AddLayer == Asking(DialogLayer({}, {}))

ContactLayer == Asking(DialogLayer({"add"}, {}))

\* Its trigger stays enabled while the dialog it is in is busy.
PickerLayer == Anytime(Layer("sheet", "none", "none", {"edit", "add"}, {}))

QuickLayer == OfShell(Layer("sheet", "sheet", "none", {"page"}, {}))

SearchLayer == OfShell(Layer("sheet", "sheet", "palette", {"page", "switcher"}, {}))

SwitcherLayer == OfShell(Layer("sheet", "sheet", "menu", {"page"}, {}))

ManageLayer == OfShell(Asking(DialogLayer({}, {"switcher"})))

DetailLayer == Layer("sheet", "none", "none", {"page"}, {})

LayerOf ==
  [record |-> RecordDrawerLayer, edit |-> EditLayer, share |-> ShareLayer, add |-> AddLayer,
   contact |-> ContactLayer, picker |-> PickerLayer, quick |-> QuickLayer, search |-> SearchLayer,
   switcher |-> SwitcherLayer, manage |-> ManageLayer, detail |-> DetailLayer]

Layers == DOMAIN LayerOf

VARIABLES
  inAndroid,    \* Whether it runs in the Android application.
  width,      \* The width of the screen.
  signedIn,   \* Whether somebody is signed in.
  ui,         \* The open layers, from the lowest: what each is, whether it is busy,
              \* framed (isolating what is below) and inert, and what it saved;
              \* the styles of the body, and whether the page is inert.
  trail,      \* The history: "landing", "login", "home" or "work", and whether the URL
              \* asks for "add".
  astray,     \* What happened: layers "crossed", or opened within one frame.
  opens, moves,
  away        \* The application was left.

shown == <<inAndroid, width, signedIn, ui, trail, astray, opens, moves, away>>

\* The styles of the body: fixed in place, overflow hidden.
Free == [fixed |-> FALSE, hidden |-> FALSE]
Fixed == [fixed |-> TRUE, hidden |-> TRUE]
Unsaved == <<>>

-----------------------------------------------------------------------------
(* Opening and closing, as functions of the state of the screen. *)

Kind(name) == LayerOf[name].kind[width]

Names(u) == {u.stack[i].name : i \in DOMAIN u.stack}

IndexOf(u, name) == CHOOSE i \in DOMAIN u.stack : u.stack[i].name = name

Top(u) == u.stack[Len(u.stack)]

\* The first sheet reads the styles of the body while it renders, before the
\* effects of that render; every modal layer locks the body and a sheet fixes
\* it. Isolation waits for the next frame.
Opened(u, name, read) ==
  LET kind == Kind(name)
      entry == [name |-> name, kind |-> kind, busy |-> FALSE, framed |-> kind = "menu",
                inert |-> FALSE, lock |-> u.body, kept |-> <<>>]
  IN [stack |-> Append(u.stack, entry),
      body |-> IF kind = "sheet" THEN Fixed
               ELSE [u.body EXCEPT !.hidden = @ \/ kind /= "menu"],
      inert |-> u.inert,
      count |-> IF kind = "sheet" THEN u.count + 1 ELSE u.count,
      original |-> IF kind = "sheet" THEN read ELSE u.original]

ReadAlways(u) == u.body

ReadBody(u) == IF u.count = 0 THEN u.body ELSE u.original

Without(kept, name) == [k \in DOMAIN kept \ {name} |-> kept[k]]

\* What the end of layer e leaves of layer l: as inert as e found it.
PutBack(l, e) ==
  [l EXCEPT !.inert = IF l.name \in DOMAIN e.kept THEN e.kept[l.name] ELSE @,
            !.kept = Without(@, e.name)]

\* The cleanup of its effects: the styles and the isolation it found are put
\* back, the element of the layer goes.
Cleaned(u, name) ==
  LET i == IndexOf(u, name)
      e == u.stack[i]
      rest == RemoveAt(u.stack, i)
  IN [stack |-> [j \in DOMAIN rest |-> PutBack(rest[j], e)],
      body |-> IF e.kind = "sheet" THEN e.lock
               ELSE [u.body EXCEPT !.hidden = IF e.kind = "menu" THEN @ ELSE e.lock.hidden],
      inert |-> IF "app" \in DOMAIN e.kept THEN e.kept["app"] ELSE u.inert,
      count |-> IF e.kind = "sheet" THEN u.count - 1 ELSE u.count,
      original |-> u.original]

SettledEarly(u) ==
  IF u.original /= Unsaved THEN [u EXCEPT !.body = u.original, !.original = Unsaved] ELSE u

\* The microtask a closing sheet leaves: the last one writes the styles the
\* first one read, an earlier one fixes the body again.
Settled(u) ==
  IF u.count > 0 THEN [u EXCEPT !.body = Fixed]
  ELSE IF u.original /= Unsaved THEN [u EXCEPT !.body = u.original, !.original = Unsaved]
  ELSE u

\* Layers closed by one render, in the order their effects were set.
ClosedTogether(u, names) ==
  LET after[i \in 0 .. Len(names)] == IF i = 0 THEN u ELSE Cleaned(after[i - 1], names[i])
      v == after[Len(names)]
  IN IF \E name \in Range(names) : u.stack[IndexOf(u, name)].kind = "sheet" THEN Settled(v) ELSE v

\* Layers closed one after the other, each by a render of its own.
ClosedInTurn(u, names) ==
  LET after[i \in 0 .. Len(names)] ==
        IF i = 0 THEN u ELSE ClosedTogether(after[i - 1], <<names[i]>>)
  IN after[Len(names)]

Crossing(names) ==
  \E i \in DOMAIN ui.stack, j \in DOMAIN ui.stack :
    i < j /\ ui.stack[i].name \in names /\ ui.stack[j].name \notin names

\* Closed in this order, a layer goes before one that lies over it.
CrossingInTurn(names) ==
  \/ Crossing(Range(names))
  \/ \E m, n \in DOMAIN names : m < n /\ IndexOf(ui, names[m]) < IndexOf(ui, names[n])

\* The names of these layers, in the order in which one comes before another.
Turns(S, before(_, _)) ==
  {names \in [1 .. Cardinality(S) -> {ui.stack[i].name : i \in S}] :
     \A m, n \in DOMAIN names :
       m < n => before(IndexOf(ui, names[m]), IndexOf(ui, names[n]))}

CloseInTurn(names) ==
  /\ ui' = ClosedInTurn(ui, names)
  /\ astray' = IF CrossingInTurn(names) THEN astray \cup {"crossed"} ELSE astray

LayersInit ==
  /\ inAndroid \in BOOLEAN /\ width \in Widths /\ signedIn \in BOOLEAN
  /\ inAndroid => width /= "wide"
  /\ ui = [stack |-> <<>>, body |-> Free, inert |-> FALSE, count |-> 0, original |-> Unsaved]
  /\ trail \in {<<[page |-> p, add |-> FALSE]>> :
                  p \in IF signedIn THEN {"home", "work"} ELSE {"landing", "login"}}
  /\ astray = {} /\ opens = 0 /\ moves = 0 /\ away = FALSE

Here == trail[Len(trail)]

-----------------------------------------------------------------------------
(* Opening. *)

OnTop(opener) ==
  IF opener = "page" THEN ui.stack = <<>> ELSE ui.stack /= <<>> /\ Top(ui).name = opener

Opens(next) ==
  /\ opens < MaxOpens /\ opens' = opens + 1
  /\ ui' = next
  /\ astray' = IF \E e \in Range(ui.stack) : ~e.framed /\ e.name \in {f.name : f \in Range(next.stack)}
               THEN astray \cup {"crowded"} ELSE astray

\* A click reaches what is on top; the search shortcut reaches through a menu.
Open(name) ==
  /\ ~away /\ signedIn /\ Kind(name) /= "none" /\ name \notin Names(ui)
  /\ \E opener \in LayerOf[name].over :
       /\ OnTop(opener)
       /\ opener = "switcher" => Top(ui).kind = "menu"
       /\ opener \in Layers => (Top(ui).busy => LayerOf[name].late)
  /\ Opens(Opened(ui, name, ReadBody(ui)))
  /\ UNCHANGED <<inAndroid, width, signedIn, trail, moves, away>>

\* One layer closes and another opens in one render: the cleanups first, then
\* the effects, the microtask last.
HandOver(from, to) ==
  /\ ~away /\ from \in LayerOf[to].follows /\ OnTop(from) /\ ~Top(ui).busy
  /\ LET read == ReadBody(ui)
         next == Opened(Cleaned(ui, from), to, read)
     IN Opens(IF Top(ui).kind = "sheet" THEN Settled(next) ELSE next)
  /\ UNCHANGED <<inAndroid, width, signedIn, trail, moves, away>>

\* The page the URL names is there, and opens the dialog the URL asks for.
Load ==
  /\ ~away /\ Here.add /\ "add" \notin Names(ui)
  /\ Opens(Opened(ui, "add", ReadBody(ui)))
  /\ UNCHANGED <<inAndroid, width, signedIn, trail, moves, away>>

Modals(u) == {i \in DOMAIN u.stack : u.stack[i].kind /= "menu"}

New(u) == {i \in DOMAIN u.stack : ~u.stack[i].framed}

\* What a layer finds inert when its frame comes: what was, and what the new
\* layers before it isolated, each everything but itself.
KeptOfPage(u, i) == [app |-> u.inert \/ \E j \in New(u) : j < i]

Kept(u, i) ==
  [k \in {"app"} \cup {u.stack[j].name : j \in Modals(u) \ {i}} |->
     IF k = "app" THEN u.inert \/ \E j \in New(u) : j < i
     ELSE \/ u.stack[IndexOf(u, k)].inert
          \/ \E j \in New(u) : j < i /\ u.stack[j].name /= k]

\* The frames of all new layers, in the order of opening.
Isolated(u) ==
  [u EXCEPT
     !.inert = @ \/ New(u) /= {},
     !.stack = [i \in DOMAIN u.stack |->
       [u.stack[i] EXCEPT !.inert = @ \/ (i \in Modals(u) /\ New(u) \ {i} /= {}),
                          !.kept = IF i \in New(u) THEN Kept(u, i) ELSE @,
                          !.framed = TRUE]]]

Frame ==
  /\ ~away /\ New(ui) /= {}
  /\ ui' = Isolated(ui)
  /\ UNCHANGED <<inAndroid, width, signedIn, trail, astray, opens, moves, away>>

-----------------------------------------------------------------------------
(* Requests of a layer. *)

SetBusy(name, busy) == ui' = [ui EXCEPT !.stack[IndexOf(ui, name)].busy = busy]

Request(name) ==
  /\ ~away /\ LayerOf[name].asks /\ OnTop(name) /\ ~Top(ui).busy
  /\ SetBusy(name, TRUE)
  /\ UNCHANGED <<inAndroid, width, signedIn, trail, astray, opens, moves, away>>

\* A success closes the layer, whatever was opened over it; a summary to
\* share opens a sheet over the drawer; a failure leaves it open.
Answer(name) ==
  /\ ~away /\ name \in Names(ui) /\ ui.stack[IndexOf(ui, name)].busy
  /\ UNCHANGED <<inAndroid, width, signedIn, moves, away>>
  /\ \/ SetBusy(name, FALSE) /\ UNCHANGED <<trail, astray, opens>>
     \/ /\ CloseInTurn(<<name>>)
        /\ trail' = IF name = "add" THEN [trail EXCEPT ![Len(trail)].add = FALSE] ELSE trail
        /\ UNCHANGED opens
     \/ /\ name = "record"
        /\ Opens(Opened([ui EXCEPT !.stack[IndexOf(ui, name)].busy = FALSE], "share", ReadBody(ui)))
        /\ UNCHANGED trail

-----------------------------------------------------------------------------
(* The ways out. *)

Dismissed(name) == IF name = "add" THEN [trail EXCEPT ![Len(trail)].add = FALSE] ELSE trail

\* Its close button, its backdrop, a drag: what is on top, unless it is busy.
Touch ==
  /\ ~away /\ ui.stack /= <<>> /\ ~Top(ui).busy
  /\ CloseInTurn(<<Top(ui).name>>) /\ trail' = Dismissed(Top(ui).name)
  /\ UNCHANGED <<inAndroid, width, signedIn, opens, moves, away>>

\* The key reaches every open layer: dialogs listen on the document, the
\* others on the window, each in the order of opening. The dialog of the URL
\* closes when the URL has changed, after the rest.
Escape ==
  LET heard == {i \in DOMAIN ui.stack : ~ui.stack[i].busy}
      Turn(i) == IF ui.stack[i].name = "add" THEN 3
                 ELSE IF ui.stack[i].kind = "dialog" THEN 1 ELSE 2
  IN /\ ~away /\ heard /= {}
     /\ \E names \in Turns(heard, LAMBDA i, j : Turn(i) < Turn(j) \/ (Turn(i) = Turn(j) /\ i < j)) :
          CloseInTurn(names)
     /\ trail' = IF \E i \in heard : ui.stack[i].name = "add" THEN Dismissed("add") ELSE trail
     /\ UNCHANGED <<inAndroid, width, signedIn, opens, moves, away>>

\* Another page is chosen: from the page itself, from search or quick add,
\* which close; the URL may ask for the dialog there.
Navigate ==
  /\ ~away /\ moves < MaxMoves /\ moves' = moves + 1
  /\ \E opener \in {"page", "search", "quick"} : OnTop(opener)
  /\ \E page \in IF signedIn THEN {"home", "work"} ELSE {"landing", "login"}, add \in BOOLEAN :
       /\ add => page = "work" /\ signedIn
       /\ [page |-> page, add |-> add] /= Here
       /\ trail' = Append(trail, [page |-> page, add |-> add])
  /\ IF ui.stack = <<>> THEN UNCHANGED <<ui, astray>> ELSE CloseInTurn(<<Top(ui).name>>)
  /\ UNCHANGED <<inAndroid, width, signedIn, opens, away>>

\* The way back of the browser leaves the page under its layers, which are
\* unmounted with it; on the same page it takes the dialog of the URL.
BrowserBack ==
  /\ ~away /\ ~inAndroid /\ Len(trail) > 1
  /\ trail' = Front(trail)
  /\ LET before == trail[Len(trail) - 1]
         gone == {i \in DOMAIN ui.stack :
                   \/ before.page /= Here.page /\ LayerOf[ui.stack[i].name].held = "page"
                   \/ ~before.add /\ ui.stack[i].name \in {"add", "contact"}}
     IN \E names \in Turns(gone, <) :
          /\ ui' = ClosedTogether(ui, names)
          /\ astray' = IF CrossingInTurn(names) THEN astray \cup {"crossed"} ELSE astray
  /\ UNCHANGED <<inAndroid, width, signedIn, opens, moves, away>>

ExitRoot(page) == page \in {"landing", "login"} \/ (page = "home" /\ signedIn)

Root == IF signedIn THEN "home" ELSE "landing"

ToRootPushed == trail' = Append(trail, [page |-> Root, add |-> FALSE])

ToRoot == trail' = <<[page |-> Root, add |-> FALSE]>>

\* Android's way back: the top layer, which consumes it even when it is busy;
\* else the dialog the URL asks for, the page before, or, on a root, the way
\* out; from any other page to the root.
BackPress ==
  /\ ~away /\ inAndroid
  /\ \/ /\ ui.stack /= <<>> /\ ~Top(ui).busy
        /\ CloseInTurn(<<Top(ui).name>>) /\ trail' = Dismissed(Top(ui).name)
        /\ UNCHANGED away
     \/ /\ ui.stack = <<>> /\ UNCHANGED <<ui, astray>>
        /\ \/ /\ Here.add
              /\ trail' = Dismissed("add") /\ UNCHANGED away
           \/ /\ ~Here.add /\ Len(trail) > 1
              /\ trail' = Front(trail) /\ UNCHANGED away
           \/ /\ ~Here.add /\ Len(trail) = 1 /\ ExitRoot(Here.page)
              /\ away' = TRUE /\ UNCHANGED trail
           \/ /\ ~Here.add /\ Len(trail) = 1 /\ ~ExitRoot(Here.page)
              /\ ToRoot /\ UNCHANGED away
  /\ UNCHANGED <<inAndroid, width, signedIn, opens, moves>>

LayersNext ==
  \/ \E name \in Layers : Open(name) \/ Request(name) \/ Answer(name)
  \/ \E from, to \in Layers : HandOver(from, to)
  \/ Load \/ Frame \/ Touch \/ Escape \/ Navigate \/ BrowserBack \/ BackPress

Answered == \E name \in Layers : Answer(name)

\* Requests are answered, and a viewer who wants out keeps pressing back,
\* between two requests too.
Fairness == WF_shown(Answered) /\ SF_shown(BackPress)

LayersSpec == LayersInit /\ [][LayersNext]_shown /\ Fairness

-----------------------------------------------------------------------------
(* Properties. *)

Clean == ui.body = Free /\ ~ui.inert

\* With no layer open the page scrolls and answers as before, unless a layer
\* was closed beneath another.
Restored == ui.stack = <<>> /\ "crossed" \notin astray => Clean

Modal == {e \in Range(ui.stack) : e.kind /= "menu"}

\* From its first frame on the modal layer on top answers, and nothing below
\* it does; two layers that opened within one frame, or one closed beneath
\* another, are beyond it.
TopIsLive ==
  (astray = {} /\ Modal /= {} /\ \A e \in Modal : e.framed) =>
    /\ ui.inert
    /\ \A i \in DOMAIN ui.stack :
         ui.stack[i].kind /= "menu" => (ui.stack[i].inert <=> i < Len(ui.stack))

\* The page behind a modal layer does not scroll. On a tablet the microtask
\* of the sheet that hands over to a dialog lifts the lock of the dialog.
LockHeld ==
  (Modal /= {} /\ astray = {}) =>
    ui.body.hidden \/ (width = "tablet" /\ "manage" \in Names(ui))

\* How many presses of Android's back may be left, the one that leaves apart:
\* one a layer, two a page (its dialog in the URL, then itself), one to the root.
Presses ==
  Len(ui.stack) + 2 * Len(trail) + (IF Here.add THEN 1 ELSE 0)
    + (IF ExitRoot(trail[1].page) THEN 0 ELSE 1)

\* A press that does not leave the application leads nearer to its end, whatever
\* was closed beneath what: no way back adds to the history or opens a layer.
BackGetsCloser == [][BackPress => away' \/ Presses' < Presses]_shown

\* Whoever keeps pressing back on Android gets out.
BackLeadsOut == inAndroid ~> away
=============================================================================
