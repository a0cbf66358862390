---------------------------- MODULE EditorProofs ----------------------------
(***************************************************************************)
(* For lines, views, batches and histories of any length: an answer lands  *)
(* only where it was asked for or where a closer was typed over since, no  *)
(* answer the client gives by itself is lost to another, hints are on      *)
(* their way whenever they are on, and a sync leaves the client up to date *)
(* with nothing left to send.                                              *)
(***************************************************************************)
EXTENDS CodeEditor, TLAPS

Fields == {"rev", "line", "caret", "strays", "issued", "popup", "awaiting", "pending", "gesture",
           "signature", "hover", "card", "snippet", "find", "rename", "pair", "enabled", "seen", "wait",
           "window", "view", "hints", "shown", "registered", "spelt", "undone", "redone", "overtyped",
           "fetched", "refused", "misplaced"}

Gestures == {"none", "jump", "tooltip", "insert"}

\* The kinds an editor asks for by Ask.
Asked == {"completion", "signature", "hover", "definition", "inlays"}

\* A ticket of the editor's: no newer than the editor.
Mine(e, ticket) ==
  /\ ticket.seq \in Nat /\ ticket.seq <= e.issued
  /\ ticket.rev \in Nat /\ ticket.rev <= e.rev
  /\ ticket.strays \in Nat /\ ticket.strays <= e.strays

Counts(e) ==
  e.rev \in Nat \ {0} /\ e.issued \in Nat /\ e.strays \in Nat /\ e.view \in Nat \ {0}

\* What is recorded is awaited, and the gesture has a ticket of its own.
Slots(e) ==
  /\ DOMAIN e.awaiting = Kinds /\ DOMAIN e.pending = Kinds
  /\ \A k \in Kinds : Mine(e, e.awaiting[k]) /\ Mine(e, e.pending[k])
  /\ \A k \in Asked : e.pending[k] \in {NoTicket, e.awaiting[k]}
  /\ e.pending["tooltip"] = NoTicket /\ e.pending["insert"] = NoTicket

GestureApart(e) ==
  /\ e.gesture.what \in Gestures
  /\ Mine(e, e.gesture.ticket)
  /\ e.gesture.what # "none" =>
       e.gesture.ticket.seq # 0 /\ \A k \in Kinds : e.pending[k] # e.gesture.ticket

Shape(e) == DOMAIN e = Fields /\ Counts(e) /\ Slots(e) /\ GestureApart(e)

\* What is awaited at this revision was asked for at this caret, or is the
\* definition awaited while a closer was typed over.
Fits(e, k) ==
  e.awaiting[k].rev = e.rev =>
    InPlace(e, e.awaiting[k]) \/ (k = "definition" /\ e.awaiting[k] = e.overtyped)

\* HintsComing of any editor and client.
HintsWanted(e, c) ==
  e.registered /\ e.enabled =>
    \/ e.wait
    \/ /\ e.window # 0 /\ e.view \in Inner(e.window)
       /\ \/ e.fetched = e.rev
          \/ /\ e.awaiting["inlays"].rev = e.rev
             /\ e.awaiting["inlays"] \in {e.pending["inlays"], c.asked["inlays"]}

\* Hints shown beside an inserted text were fetched before a redo brought
\* it back.
HintsOnce(e) == e.hints \in Nat /\ e.hints <= e.rev /\ (e.spelt /\ e.shown => e.hints < e.redone)

\* What holds even between the parts of an event.
Sound(e) == Shape(e) /\ ~e.misplaced /\ HintsOnce(e)

\* Between the parts of a sync.
Kept(e) == Sound(e) /\ e.seen = e.rev /\ Fits(e, "completion") /\ Fits(e, "definition")

ClientShape(c) == DOMAIN c = {"synced", "asked"} /\ DOMAIN c.asked = Kinds

EditorInv ==
  Kept(editor) /\ ~editor.refused /\ HintsWanted(editor, client) /\ ClientShape(client)

----------------------------------------------------------------------------
(* What the operators of the slots change. *)

\* f is e but for the fields of S.
Beside(e, f, S) == DOMAIN f = Fields /\ \A x \in Fields \ S : f[x] = e[x]

\* The fields Shape speaks of.
ShapeFields == {"rev", "strays", "issued", "view", "awaiting", "pending", "gesture"}

LEMMA ShapeKept ==
  ASSUME NEW e, NEW f, NEW S, Shape(e), Beside(e, f, S), S \cap ShapeFields = {}
  PROVE  Shape(f)
<1>1. \A x \in ShapeFields : x \in Fields \ S
  BY DEF ShapeFields, Fields
<1>2. /\ f.rev = e.rev /\ f.strays = e.strays /\ f.issued = e.issued /\ f.view = e.view
      /\ f.awaiting = e.awaiting /\ f.pending = e.pending /\ f.gesture = e.gesture
  BY <1>1 DEF Beside, ShapeFields
<1> QED
  BY <1>2 DEF Shape, Counts, Slots, GestureApart, Mine, Beside

\* A new revision with the hints and texts of the old, or fewer.
LEMMA HintsOnceKept ==
  ASSUME NEW e, HintsOnce(e), e.rev \in Nat, NEW f, f.rev \in {e.rev, e.rev + 1}, f.hints = e.hints,
         f.redone = e.redone, f.shown => e.shown, f.spelt => e.spelt
  PROVE  HintsOnce(f)
<1>1. e.hints \in Nat /\ e.hints <= e.rev /\ (f.rev = e.rev \/ f.rev = e.rev + 1)
  BY DEF HintsOnce
<1>2. e.hints <= f.rev
  BY <1>1
<1> QED
  BY <1>1, <1>2 DEF HintsOnce

\* Hints just fetched, or none.
LEMMA HintsOnceAt ==
  ASSUME NEW e, Shape(e), e.hints \in {0, e.rev}, ~(e.spelt /\ e.shown)
  PROVE  HintsOnce(e)
<1>1. e.rev \in Nat
  BY DEF Shape, Counts
<1>2. e.hints \in Nat /\ e.hints <= e.rev
  BY <1>1
<1> QED
  BY <1>2 DEF HintsOnce

LEMMA AbandonFacts ==
  ASSUME NEW e, Shape(e), NEW ks, NEW f, f = Abandon(e, ks)
  PROVE  /\ Shape(f)
         /\ Beside(e, f, {"awaiting", "pending", "gesture"})
         /\ \A k \in Kinds : f.awaiting[k] = IF k \in ks THEN NoTicket ELSE e.awaiting[k]
         /\ \A k \in Kinds : f.pending[k] = IF k \in ks THEN NoTicket ELSE e.pending[k]
         /\ f.gesture \in {e.gesture, NoGesture}
<1>1. Beside(e, f, {"awaiting", "pending", "gesture"})
  BY DEF Abandon, Beside, Shape, Fields
<1>2. /\ DOMAIN f.awaiting = Kinds /\ DOMAIN f.pending = Kinds
      /\ \A k \in Kinds : f.awaiting[k] = IF k \in ks THEN NoTicket ELSE e.awaiting[k]
      /\ \A k \in Kinds : f.pending[k] = IF k \in ks THEN NoTicket ELSE e.pending[k]
  BY DEF Abandon, Shape, Fields
<1>3. f.gesture \in {e.gesture, NoGesture}
  BY DEF Abandon, Shape, Fields
<1>4. f.rev = e.rev /\ f.strays = e.strays /\ f.issued = e.issued /\ f.view = e.view
  BY <1>1 DEF Beside, Fields
<1>5. Counts(f)
  BY <1>4 DEF Shape, Counts
<1>6. \A ticket : Mine(e, ticket) => Mine(f, ticket)
  BY <1>4 DEF Mine
<1>7. Mine(f, NoTicket)
  BY <1>5 DEF Mine, NoTicket, Counts
<1>8. Asked \subseteq Kinds /\ {"tooltip", "insert"} \subseteq Kinds
  BY DEF Asked, Kinds
<1>9. Slots(f)
  BY <1>2, <1>6, <1>7, <1>8 DEF Slots, Shape
<1>10. GestureApart(f)
  BY <1>2, <1>3, <1>6, <1>7 DEF GestureApart, Shape, NoGesture, Gestures, NoTicket
<1> QED
  BY <1>1, <1>2, <1>3, <1>5, <1>9, <1>10 DEF Shape, Beside

LEMMA AskFacts ==
  ASSUME NEW e, Shape(e), NEW k \in Asked, NEW f, f = Ask(e, k)
  PROVE  /\ Shape(f)
         /\ Beside(e, f, {"issued", "awaiting", "pending"})
         /\ f.awaiting[k] = Stamped(e) /\ f.pending[k] = Stamped(e)
         /\ \A j \in Kinds : j # k => f.awaiting[j] = e.awaiting[j] /\ f.pending[j] = e.pending[j]
<1>0. k \in Kinds /\ k \notin {"tooltip", "insert"}
  BY DEF Asked, Kinds
<1>1. Beside(e, f, {"issued", "awaiting", "pending"})
  BY DEF Ask, Beside, Shape, Fields
<1>2. /\ DOMAIN f.awaiting = Kinds /\ DOMAIN f.pending = Kinds
      /\ f.awaiting[k] = Stamped(e) /\ f.pending[k] = Stamped(e)
      /\ \A j \in Kinds : j # k => f.awaiting[j] = e.awaiting[j] /\ f.pending[j] = e.pending[j]
      /\ f.issued = e.issued + 1
  BY <1>0 DEF Ask, Shape, Slots, Fields
<1>3. f.rev = e.rev /\ f.strays = e.strays /\ f.view = e.view /\ f.gesture = e.gesture
  BY <1>1 DEF Beside, Fields
<1>4. Counts(f)
  BY <1>2, <1>3 DEF Shape, Counts
<1>5. \A ticket : Mine(e, ticket) => Mine(f, ticket)
  BY <1>2, <1>3 DEF Mine, Shape, Counts
<1>6. Mine(f, Stamped(e))
  BY <1>2, <1>3 DEF Mine, Shape, Counts, Stamped
<1>7. Slots(f)
  BY <1>0, <1>2, <1>5, <1>6 DEF Slots, Shape, Asked, Kinds
<1>8. \A ticket : Mine(e, ticket) => ticket # Stamped(e)
  BY DEF Mine, Shape, Counts, Stamped
<1>9. GestureApart(f)
  BY <1>2, <1>3, <1>5, <1>8 DEF GestureApart, Shape
<1> QED
  BY <1>1, <1>2, <1>4, <1>7, <1>9 DEF Shape, Beside
----------------------------------------------------------------------------
(* The post-edit tail. *)

\* f is e with slot k asked for anew, abandoned or left alone.
Redriven(e, f, k) ==
  /\ Shape(f)
  /\ Beside(e, f, {"popup", "issued", "awaiting", "pending", "gesture"})
  /\ \A j \in Kinds : j # k => f.awaiting[j] = e.awaiting[j] /\ f.pending[j] = e.pending[j]
  /\ Fits(e, k) => Fits(f, k)
  /\ f.gesture \in {e.gesture, NoGesture}

LEMMA PopupRedriven ==
  ASSUME NEW e, Shape(e), NEW f, Beside(e, f, {"popup"}), NEW k
  PROVE  Redriven(e, f, k)
<1>1. Shape(f)
  BY ShapeKept, {"popup"} \cap ShapeFields = {} DEF ShapeFields
<1>2. /\ f.rev = e.rev /\ f.caret = e.caret /\ f.strays = e.strays /\ f.overtyped = e.overtyped
      /\ f.awaiting = e.awaiting /\ f.pending = e.pending /\ f.gesture = e.gesture
  BY DEF Beside, Fields
<1>3. Beside(e, f, {"popup", "issued", "awaiting", "pending", "gesture"})
  BY DEF Beside
<1> QED
  BY <1>1, <1>2, <1>3 DEF Redriven, Fits, InPlace

LEMMA AskRedriven ==
  ASSUME NEW e, Shape(e), NEW k \in Asked
  PROVE  Redriven(e, Ask(e, k), k)
<1> DEFINE f == Ask(e, k)
<1>1. /\ Shape(f)
      /\ Beside(e, f, {"issued", "awaiting", "pending"})
      /\ f.awaiting[k] = Stamped(e)
      /\ \A j \in Kinds : j # k => f.awaiting[j] = e.awaiting[j] /\ f.pending[j] = e.pending[j]
  BY AskFacts
<1> HIDE DEF f
<1>2. /\ f.rev = e.rev /\ f.caret = e.caret /\ f.strays = e.strays /\ f.gesture = e.gesture
  BY <1>1 DEF Beside, Fields
<1>3. Fits(f, k)
  BY <1>1, <1>2 DEF Fits, InPlace, Stamped
<1>4. Beside(e, f, {"popup", "issued", "awaiting", "pending", "gesture"})
  BY <1>1 DEF Beside
<1>5. Redriven(e, f, k)
  BY <1>1, <1>2, <1>3, <1>4 DEF Redriven
<1> QED
  BY <1>5 DEF f

LEMMA AbandonRedriven ==
  ASSUME NEW e, Shape(e), NEW k \in Kinds
  PROVE  /\ Redriven(e, Abandon(e, {k}), k)
         /\ Abandon(e, {k}).awaiting[k] = NoTicket /\ Abandon(e, {k}).pending[k] = NoTicket
<1> DEFINE f == Abandon(e, {k})
<1>1. /\ Shape(f)
      /\ Beside(e, f, {"awaiting", "pending", "gesture"})
      /\ \A j \in Kinds : f.awaiting[j] = IF j \in {k} THEN NoTicket ELSE e.awaiting[j]
      /\ \A j \in Kinds : f.pending[j] = IF j \in {k} THEN NoTicket ELSE e.pending[j]
      /\ f.gesture \in {e.gesture, NoGesture}
  BY AbandonFacts
<1> HIDE DEF f
<1>2. f.rev # NoTicket.rev
  BY <1>1 DEF Shape, Counts, NoTicket
<1>3. Fits(f, k) /\ f.awaiting[k] = NoTicket /\ f.pending[k] = NoTicket
  BY <1>1, <1>2 DEF Fits
<1>4. Beside(e, f, {"popup", "issued", "awaiting", "pending", "gesture"})
  BY <1>1 DEF Beside
<1>5. Redriven(e, f, k)
  BY <1>1, <1>3, <1>4 DEF Redriven
<1> QED
  BY <1>3, <1>5 DEF f

LEMMA RedrivenTwice ==
  ASSUME NEW e, NEW f, NEW g, NEW k, Redriven(e, f, k), Redriven(f, g, k)
  PROVE  Redriven(e, g, k)
BY DEF Redriven, Beside

LEMMA CompletionRequested ==
  ASSUME NEW e, Shape(e), NEW trigger \in {"word", "char", "manual"}, NEW match
  PROVE  Redriven(e, RequestCompletions(e, trigger, match), "completion")
<1>1. CASE trigger = "word" /\ e.popup.state = "dismissed"
  <2>1. Beside(e, e, {"popup"})
    BY DEF Beside, Shape
  <2> QED
    BY <1>1, <2>1, PopupRedriven DEF RequestCompletions
<1>2. CASE ~(trigger = "word" /\ e.popup.state = "dismissed")
  <2> DEFINE f == CASE trigger = "word" -> Refilter(e, match)
                    [] trigger = "char" -> [e EXCEPT !.popup = NoPopup]
                    [] trigger = "manual" -> OnBoundary(e)
  <2>1. f \in {e, [e EXCEPT !.popup = NoPopup]}
    BY DEF Refilter, OnBoundary
  <2>2. RequestCompletions(e, trigger, match) = Ask(f, "completion")
    BY <1>2 DEF RequestCompletions
  <2> HIDE DEF f
  <2>3. Beside(e, f, {"popup"})
    BY <2>1 DEF Beside, Shape, Fields
  <2>4. Redriven(e, f, "completion")
    BY <2>3, PopupRedriven
  <2>5. Shape(f) /\ "completion" \in Asked
    BY <2>4 DEF Redriven, Asked
  <2>6. Redriven(f, Ask(f, "completion"), "completion")
    BY <2>5, AskRedriven
  <2> QED
    BY <2>2, <2>4, <2>6, RedrivenTwice
<1> QED
  BY <1>1, <1>2

\* The events that abandon the completion.
EndsWord(event) == event \in {"close", ";"}

LEMMA CompletionDriven ==
  ASSUME NEW e, Shape(e), NEW event \in Chars \cup {"deleting", "close"}, NEW match, NEW f,
         f = DriveCompletion(e, event, match)
  PROVE  /\ Redriven(e, f, "completion")
         /\ EndsWord(event) =>
              f.awaiting["completion"] = NoTicket /\ f.pending["completion"] = NoTicket
<1> DEFINE closed == [e EXCEPT !.popup = NoPopup]
<1>1. Beside(e, closed, {"popup"}) /\ Beside(e, e, {"popup"}) /\ OnBoundary(e) \in {e, closed}
  BY DEF Beside, Shape, Fields, OnBoundary
<1>2. Redriven(e, e, "completion")
  BY <1>1, PopupRedriven
<1>3. ASSUME NEW g, g \in {e, closed}
      PROVE  /\ Redriven(e, Abandon(g, {"completion"}), "completion")
             /\ Abandon(g, {"completion"}).awaiting["completion"] = NoTicket
             /\ Abandon(g, {"completion"}).pending["completion"] = NoTicket
  <2>1. Redriven(e, g, "completion")
    BY <1>1, <1>3, PopupRedriven
  <2>2. Shape(g) /\ "completion" \in Kinds
    BY <2>1 DEF Redriven, Kinds
  <2> QED
    BY <2>1, <2>2, AbandonRedriven, RedrivenTwice
<1>4. CASE event = "a"
  BY <1>4, CompletionRequested DEF DriveCompletion, EndsWord
<1>5. CASE event = "("
  BY <1>5, CompletionRequested DEF DriveCompletion, EndsWord
<1>6. CASE event = ";"
  BY <1>1, <1>3, <1>6 DEF DriveCompletion
<1>7. CASE event = "deleting"
  <2>1. f \in {e, RequestCompletions(e, "word", match), Abandon(closed, {"completion"})}
    BY <1>7 DEF DriveCompletion
  <2> QED
    BY <1>2, <1>3, <1>7, <2>1, CompletionRequested DEF EndsWord
<1>8. CASE event = "close"
  BY <1>1, <1>3, <1>8 DEF DriveCompletion
<1> QED
  BY <1>4, <1>5, <1>6, <1>7, <1>8 DEF Chars

LEMMA SignatureDriven ==
  ASSUME NEW e, Shape(e), NEW event
  PROVE  Redriven(e, DriveSignature(e, event), "signature")
<1>1. Redriven(e, e, "signature")
  BY PopupRedriven, Beside(e, e, {"popup"}) DEF Beside, Shape
<1>2. Redriven(e, Ask(e, "signature"), "signature")
  BY AskRedriven, "signature" \in Asked DEF Asked
<1> QED
  BY <1>1, <1>2 DEF DriveSignature

LEMMA HintsScheduled ==
  ASSUME NEW e, Shape(e), NEW f, f = InlaysAfterEdit(e)
  PROVE  /\ Shape(f)
         /\ Beside(e, f, {"awaiting", "pending", "gesture", "card", "seen", "wait"})
         /\ f.seen = f.rev
         /\ \A k \in Kinds : k \notin {"tooltip", "insert"} =>
              f.awaiting[k] = e.awaiting[k] /\ f.pending[k] = e.pending[k]
         /\ \A k \in Kinds : f.pending[k] \in {e.pending[k], NoTicket}
         /\ f.gesture \in {e.gesture, NoGesture}
         /\ e.wait => f.wait
         /\ e.rev # e.seen /\ e.enabled => f.wait
<1>1. CASE e.rev = e.seen
  <2>1. f = e
    BY <1>1 DEF InlaysAfterEdit
  <2> QED
    BY <1>1, <2>1 DEF Beside, Shape
<1>2. CASE e.rev # e.seen
  <2> DEFINE d == [e EXCEPT !.seen = e.rev, !.card = FALSE]
             g == Abandon(d, {"tooltip", "insert"})
  <2>1. Beside(e, d, {"seen", "card"}) /\ d.seen = e.rev
    BY DEF Beside, Shape, Fields
  <2>2. f = [g EXCEPT !.wait = @ \/ g.enabled]
    BY <1>2 DEF InlaysAfterEdit, Wait
  <2> HIDE DEF d
  <2>3. Shape(d)
    BY <2>1, ShapeKept, {"seen", "card"} \cap ShapeFields = {} DEF ShapeFields
  <2>4. /\ Shape(g)
        /\ Beside(d, g, {"awaiting", "pending", "gesture"})
        /\ \A k \in Kinds : g.awaiting[k] = IF k \in {"tooltip", "insert"} THEN NoTicket ELSE d.awaiting[k]
        /\ \A k \in Kinds : g.pending[k] = IF k \in {"tooltip", "insert"} THEN NoTicket ELSE d.pending[k]
        /\ g.gesture \in {d.gesture, NoGesture}
    BY <2>3, AbandonFacts
  <2> HIDE DEF g
  <2>5. Beside(g, f, {"wait"}) /\ (f.wait <=> g.wait \/ g.enabled)
    BY <2>2, <2>4 DEF Beside, Shape, Fields
  <2>6. Shape(f)
    BY <2>4, <2>5, ShapeKept, {"wait"} \cap ShapeFields = {} DEF ShapeFields
  <2>7. /\ Beside(e, f, {"awaiting", "pending", "gesture", "card", "seen", "wait"})
        /\ f.seen = f.rev /\ f.awaiting = g.awaiting /\ f.pending = g.pending /\ f.gesture = g.gesture
        /\ d.awaiting = e.awaiting /\ d.pending = e.pending /\ d.gesture = e.gesture
        /\ g.wait = e.wait /\ g.enabled = e.enabled
    BY <2>1, <2>4, <2>5 DEF Beside, Fields
  <2> QED
    BY <2>4, <2>5, <2>6, <2>7
<1> QED
  BY <1>1, <1>2

\* What the tail changes.
TailFields == {"popup", "issued", "awaiting", "pending", "gesture", "snippet", "hover", "card", "rename",
               "seen", "wait"}

LEMMA TailFacts ==
  ASSUME NEW e, Shape(e), NEW event \in Chars \cup {"deleting", "close"}, NEW match, NEW escapes,
         NEW f, f = AfterEdit(e, event, match, escapes)
  PROVE  /\ Shape(f)
         /\ Beside(e, f, TailFields)
         /\ f.seen = f.rev
         /\ f.awaiting["inlays"] = e.awaiting["inlays"] /\ f.pending["inlays"] = e.pending["inlays"]
         /\ f.gesture \in {e.gesture, NoGesture}
         /\ e.wait => f.wait
         /\ e.rev # e.seen /\ e.enabled => f.wait
         /\ EndsWord(event) \/ Fits(e, "completion") => Fits(f, "completion")
         /\ event = "close" \/ Fits(e, "definition") => Fits(f, "definition")
         /\ event = "close" => \A k \in Kinds \ {"signature"} : f.pending[k] \in {e.pending[k], NoTicket}
<1> DEFINE d1 == DriveCompletion(e, event, match)
           d2 == DriveSignature(d1, event)
           closed == [d2 EXCEPT !.snippet = @ /\ ~escapes, !.hover = FALSE, !.card = FALSE]
           left == IF event = "close" THEN Abandon(closed, {"hover", "definition"}) ELSE closed
           renamed == [left EXCEPT !.rename = IF @ = e.rev THEN @ ELSE 0]
<1>1. f = InlaysAfterEdit(renamed)
  BY DEF AfterEdit
<1>2. Redriven(e, d1, "completion")
  BY CompletionDriven
<1>0. EndsWord(event) => d1.awaiting["completion"] = NoTicket /\ d1.pending["completion"] = NoTicket
  BY CompletionDriven
<1>3. Shape(d1)
  BY <1>2 DEF Redriven
<1> HIDE DEF d1
<1>4. Redriven(d1, d2, "signature")
  BY <1>3, SignatureDriven
<1>5. Shape(d2)
  BY <1>4 DEF Redriven
<1> HIDE DEF d2
<1>6. Beside(d2, closed, {"snippet", "hover", "card"})
  BY <1>5 DEF Beside, Shape, Fields
<1> HIDE DEF closed
<1>7. Shape(closed)
  BY <1>5, <1>6, ShapeKept, {"snippet", "hover", "card"} \cap ShapeFields = {} DEF ShapeFields
<1>8. /\ Shape(left)
      /\ Beside(closed, left, {"awaiting", "pending", "gesture"})
      /\ \A k \in Kinds : \/ left.awaiting[k] = closed.awaiting[k] /\ left.pending[k] = closed.pending[k]
                          \/ left.awaiting[k] = NoTicket /\ left.pending[k] = NoTicket
      /\ left.awaiting["inlays"] = closed.awaiting["inlays"] /\ left.pending["inlays"] = closed.pending["inlays"]
      /\ event = "close" => left.awaiting["definition"] = NoTicket
      /\ left.gesture \in {closed.gesture, NoGesture}
  <2>1. CASE event = "close"
    <3> DEFINE ks == {"hover", "definition"}
               g == Abandon(closed, ks)
    <3>1. /\ Shape(g)
          /\ Beside(closed, g, {"awaiting", "pending", "gesture"})
          /\ \A k \in Kinds : g.awaiting[k] = IF k \in ks THEN NoTicket ELSE closed.awaiting[k]
          /\ \A k \in Kinds : g.pending[k] = IF k \in ks THEN NoTicket ELSE closed.pending[k]
          /\ g.gesture \in {closed.gesture, NoGesture}
      BY <1>7, AbandonFacts
    <3>2. left = g
      BY <2>1
    <3>3. "inlays" \in Kinds \ ks /\ "definition" \in Kinds \cap ks
      BY DEF Kinds
    <3> HIDE DEF g, left, ks
    <3> QED
      BY <3>1, <3>2, <3>3
  <2>2. CASE event # "close"
    <3>1. left = closed
      BY <2>2
    <3> QED
      BY <1>7, <2>2, <3>1 DEF Beside, Shape
  <2> QED
    BY <2>1, <2>2
<1> HIDE DEF left
<1>9. Beside(left, renamed, {"rename"})
  BY <1>8 DEF Beside, Shape, Fields
<1> HIDE DEF renamed
<1>10. Shape(renamed)
  BY <1>8, <1>9, ShapeKept, {"rename"} \cap ShapeFields = {} DEF ShapeFields
<1>11. /\ Shape(f)
       /\ Beside(renamed, f, {"awaiting", "pending", "gesture", "card", "seen", "wait"})
       /\ f.seen = f.rev
       /\ \A k \in Kinds : k \notin {"tooltip", "insert"} =>
            f.awaiting[k] = renamed.awaiting[k] /\ f.pending[k] = renamed.pending[k]
       /\ \A k \in Kinds : f.pending[k] \in {renamed.pending[k], NoTicket}
       /\ f.gesture \in {renamed.gesture, NoGesture}
       /\ renamed.wait => f.wait
       /\ renamed.rev # renamed.seen /\ renamed.enabled => f.wait
  BY <1>1, <1>10, HintsScheduled
<1>12. /\ Beside(e, d1, TailFields) /\ Beside(d1, d2, TailFields) /\ Beside(d2, closed, TailFields)
       /\ Beside(closed, left, TailFields) /\ Beside(left, renamed, TailFields) /\ Beside(renamed, f, TailFields)
  BY <1>2, <1>4, <1>6, <1>8, <1>9, <1>11 DEF Redriven, Beside, TailFields
<1>13. Beside(e, f, TailFields)
  BY <1>12 DEF Beside
<1>14. /\ f.rev = e.rev /\ f.caret = e.caret /\ f.strays = e.strays /\ f.overtyped = e.overtyped
       /\ renamed.rev = e.rev /\ renamed.enabled = e.enabled
       /\ d2.rev = e.rev /\ d2.caret = e.caret /\ d2.strays = e.strays
       /\ d1.rev = e.rev /\ d1.caret = e.caret /\ d1.strays = e.strays
  BY <1>12, <1>13 DEF Beside, TailFields, Fields
<1>15. renamed.seen = e.seen /\ renamed.wait = e.wait
  BY <1>2, <1>4, <1>6, <1>8, <1>9 DEF Redriven, Beside, Fields
<1>16. /\ closed.awaiting = d2.awaiting /\ closed.pending = d2.pending /\ closed.gesture = d2.gesture
       /\ renamed.awaiting = left.awaiting /\ renamed.pending = left.pending /\ renamed.gesture = left.gesture
  BY <1>6, <1>9 DEF Beside, Fields
<1>17. f.gesture \in {e.gesture, NoGesture}
  BY <1>2, <1>4, <1>8, <1>11, <1>16 DEF Redriven
<1>18. {"inlays", "completion", "definition"} \subseteq Kinds
  BY DEF Kinds
<1>19. f.awaiting["inlays"] = e.awaiting["inlays"] /\ f.pending["inlays"] = e.pending["inlays"]
  BY <1>2, <1>4, <1>8, <1>11, <1>16, <1>18 DEF Redriven
<1>20. \A k \in {"completion", "definition"} :
         f.awaiting[k] = d1.awaiting[k] \/ f.awaiting[k] = NoTicket
  BY <1>4, <1>8, <1>11, <1>16, <1>18 DEF Redriven
<1>21. f.rev # NoTicket.rev
  BY <1>11 DEF Shape, Counts, NoTicket
<1>22. EndsWord(event) \/ Fits(e, "completion") => Fits(f, "completion")
  <2>1. Fits(d1, "completion") => Fits(f, "completion")
    BY <1>14, <1>20, <1>21 DEF Fits, InPlace
  <2>2. EndsWord(event) => Fits(f, "completion")
    BY <1>0, <1>20, <1>21 DEF Fits
  <2> QED
    BY <1>2, <2>1, <2>2 DEF Redriven
<1>23. event = "close" \/ Fits(e, "definition") => Fits(f, "definition")
  <2>1. d1.awaiting["definition"] = e.awaiting["definition"]
    BY <1>2, <1>18 DEF Redriven
  <2>2. Fits(e, "definition") => Fits(f, "definition")
    BY <1>14, <1>20, <1>21, <2>1 DEF Fits, InPlace
  <2>3. event = "close" => f.awaiting["definition"] = NoTicket
    BY <1>8, <1>11, <1>16, <1>18
  <2> QED
    BY <1>21, <2>2, <2>3 DEF Fits
<1>24. event = "close" => \A k \in Kinds \ {"signature"} : f.pending[k] \in {e.pending[k], NoTicket}
  <2> SUFFICES ASSUME event = "close", NEW k \in Kinds \ {"signature"}
               PROVE  f.pending[k] \in {e.pending[k], NoTicket}
    OBVIOUS
  <2>1. d1.pending[k] \in {e.pending[k], NoTicket}
    BY <1>0, <1>2 DEF Redriven, EndsWord
  <2>2. d2.pending[k] = d1.pending[k]
    BY <1>4 DEF Redriven
  <2> QED
    BY <1>8, <1>11, <1>16, <2>1, <2>2
<1> QED
  BY <1>11, <1>13, <1>14, <1>15, <1>17, <1>19, <1>22, <1>23, <1>24

\* f is what e is after the tail, if all is well.
Tailed(e, c, event, f) ==
  /\ Kept(f) /\ HintsWanted(f, c)
  /\ f.refused = e.refused /\ f.registered = e.registered /\ f.rev = e.rev
  /\ f.gesture \in {e.gesture, NoGesture}
  /\ event = "close" => \A k \in Kinds \ {"signature"} : f.pending[k] \in {e.pending[k], NoTicket}

\* After the tail everything fits again, and the hints of a new text are
\* waited for.
LEMMA TailRestores ==
  ASSUME NEW e, Sound(e), NEW c, NEW event \in Chars \cup {"deleting", "close"}, NEW match, NEW escapes,
         EndsWord(event) \/ Fits(e, "completion"), event = "close" \/ Fits(e, "definition"),
         e.rev = e.seen => HintsWanted(e, c)
  PROVE  Tailed(e, c, event, AfterEdit(e, event, match, escapes))
<1> DEFINE f == AfterEdit(e, event, match, escapes)
<1>1. Shape(e)
  BY DEF Sound
<1>2. /\ Shape(f)
      /\ Beside(e, f, TailFields)
      /\ f.seen = f.rev
      /\ f.awaiting["inlays"] = e.awaiting["inlays"] /\ f.pending["inlays"] = e.pending["inlays"]
      /\ f.gesture \in {e.gesture, NoGesture}
      /\ e.wait => f.wait
      /\ e.rev # e.seen /\ e.enabled => f.wait
      /\ event = "close" => \A k \in Kinds \ {"signature"} : f.pending[k] \in {e.pending[k], NoTicket}
  BY <1>1, TailFacts
<1>0. Fits(f, "completion") /\ Fits(f, "definition")
  BY <1>1, TailFacts
<1> HIDE DEF f
<1>3. /\ f.rev = e.rev /\ f.refused = e.refused /\ f.misplaced = e.misplaced /\ f.spelt = e.spelt
      /\ f.hints = e.hints /\ f.redone = e.redone /\ f.overtyped = e.overtyped
      /\ f.shown = e.shown /\ f.registered = e.registered /\ f.enabled = e.enabled
      /\ f.window = e.window /\ f.view = e.view /\ f.fetched = e.fetched
  BY <1>2 DEF Beside, TailFields, Fields
<1>4. HintsWanted(f, c)
  BY <1>2, <1>3 DEF HintsWanted
<1>5. Tailed(e, c, event, f)
  BY <1>0, <1>2, <1>3, <1>4 DEF Kept, Sound, HintsOnce, Tailed
<1> QED
  BY <1>5 DEF f
----------------------------------------------------------------------------
(* What the parts of the other events keep. *)

Held(e, c) == Kept(e) /\ HintsWanted(e, c)

\* The fields none of Held speaks of.
Loose == {"line", "popup", "signature", "hover", "card", "snippet", "find", "rename", "pair", "refused"}

LEMMA LooseHeld ==
  ASSUME NEW e, NEW c, Held(e, c), NEW f, Beside(e, f, Loose)
  PROVE  Held(f, c)
<1>1. Shape(f)
  BY ShapeKept, Loose \cap ShapeFields = {} DEF Loose, ShapeFields, Held, Kept, Sound
<1>2. /\ f.rev = e.rev /\ f.caret = e.caret /\ f.strays = e.strays /\ f.seen = e.seen
      /\ f.awaiting = e.awaiting /\ f.pending = e.pending
      /\ f.misplaced = e.misplaced /\ f.spelt = e.spelt /\ f.shown = e.shown
      /\ f.hints = e.hints /\ f.redone = e.redone /\ f.overtyped = e.overtyped
      /\ f.registered = e.registered /\ f.enabled = e.enabled /\ f.wait = e.wait
      /\ f.window = e.window /\ f.view = e.view /\ f.fetched = e.fetched
  BY DEF Beside, Loose, Fields
<1> QED
  BY <1>1, <1>2 DEF Held, Kept, Sound, HintsOnce, Fits, InPlace, HintsWanted

\* A new text, a stray of the caret, a scroll, or a gesture dropped.
LEMMA ShapeMoved ==
  ASSUME NEW e, Shape(e), NEW f, NEW S, Beside(e, f, S), S \cap {"issued", "awaiting", "pending"} = {},
         f.rev \in {e.rev, e.rev + 1}, f.strays \in {e.strays, e.strays + 1}, f.view \in Nat \ {0},
         f.gesture \in {e.gesture, NoGesture}
  PROVE  /\ Shape(f)
         /\ f.rev # e.rev \/ f.strays # e.strays => \A k \in Kinds : Fits(f, k)
<1>1. {"issued", "awaiting", "pending"} \subseteq Fields \ S
  BY DEF Fields
<1>2. f.issued = e.issued /\ f.awaiting = e.awaiting /\ f.pending = e.pending
  BY <1>1 DEF Beside
<1>3. Counts(f)
  BY <1>2 DEF Counts, Shape
<1>4. \A ticket : Mine(e, ticket) => Mine(f, ticket)
  BY <1>2 DEF Mine, Shape, Counts
<1>5. Mine(f, NoTicket)
  BY <1>3 DEF Mine, NoTicket, Counts
<1>6. Slots(f)
  BY <1>2, <1>4 DEF Slots, Shape
<1>7. GestureApart(f)
  BY <1>2, <1>4, <1>5 DEF GestureApart, Shape, NoGesture, Gestures, NoTicket
<1>8. ASSUME f.rev # e.rev \/ f.strays # e.strays, NEW k \in Kinds PROVE Fits(f, k)
  <2>1. Mine(e, e.awaiting[k])
    BY DEF Shape, Slots
  <2> QED
    BY <1>2, <1>8, <2>1 DEF Mine, Fits, InPlace, Shape, Counts
<1> QED
  BY <1>3, <1>6, <1>7, <1>8 DEF Shape, Beside

\* What is abandoned no longer has to fit; only the hints' slot is one that
\* must not be given up for nothing.
LEMMA AbandonKept ==
  ASSUME NEW e, Kept(e), NEW ks, NEW f, f = Abandon(e, ks)
  PROVE  /\ Kept(f)
         /\ \A c : HintsWanted(e, c) /\ "inlays" \notin ks => HintsWanted(f, c)
<1>1. /\ Shape(f)
      /\ Beside(e, f, {"awaiting", "pending", "gesture"})
      /\ \A k \in Kinds : f.awaiting[k] = IF k \in ks THEN NoTicket ELSE e.awaiting[k]
      /\ \A k \in Kinds : f.pending[k] = IF k \in ks THEN NoTicket ELSE e.pending[k]
  BY AbandonFacts DEF Kept, Sound
<1>2. /\ f.rev = e.rev /\ f.caret = e.caret /\ f.strays = e.strays /\ f.seen = e.seen
      /\ f.misplaced = e.misplaced /\ f.spelt = e.spelt /\ f.shown = e.shown
      /\ f.hints = e.hints /\ f.redone = e.redone /\ f.overtyped = e.overtyped
      /\ f.registered = e.registered /\ f.enabled = e.enabled /\ f.wait = e.wait
      /\ f.window = e.window /\ f.view = e.view /\ f.fetched = e.fetched
  BY <1>1 DEF Beside, Fields
<1>3. {"completion", "definition", "inlays"} \subseteq Kinds /\ f.rev # NoTicket.rev
  BY <1>1 DEF Kinds, Shape, Counts, NoTicket
<1>4. \A k \in {"completion", "definition"} : Fits(e, k) => Fits(f, k)
  BY <1>1, <1>2, <1>3 DEF Fits, InPlace
<1>5. \A c : HintsWanted(e, c) /\ "inlays" \notin ks => HintsWanted(f, c)
  BY <1>1, <1>2, <1>3 DEF HintsWanted
<1> QED
  BY <1>1, <1>2, <1>4, <1>5 DEF Kept, Sound, HintsOnce

LEMMA RedrivenHeld ==
  ASSUME NEW e, NEW c, Held(e, c), NEW f, NEW k, Redriven(e, f, k), k # "inlays"
  PROVE  Held(f, c)
<1>1. /\ f.rev = e.rev /\ f.caret = e.caret /\ f.strays = e.strays /\ f.seen = e.seen
      /\ f.misplaced = e.misplaced /\ f.spelt = e.spelt /\ f.shown = e.shown
      /\ f.hints = e.hints /\ f.redone = e.redone /\ f.overtyped = e.overtyped
      /\ f.registered = e.registered /\ f.enabled = e.enabled /\ f.wait = e.wait
      /\ f.window = e.window /\ f.view = e.view /\ f.fetched = e.fetched
  BY DEF Redriven, Beside, Fields
<1>2. {"completion", "definition", "inlays"} \subseteq Kinds
  BY DEF Kinds
<1>3. \A j \in {"completion", "definition"} : Fits(f, j)
  BY <1>1, <1>2 DEF Redriven, Held, Kept, Fits, InPlace
<1>4. HintsWanted(f, c)
  BY <1>1, <1>2 DEF Redriven, Held, HintsWanted
<1> QED
  BY <1>1, <1>3, <1>4 DEF Redriven, Held, Kept, Sound, HintsOnce

LEMMA WaitHeld ==
  ASSUME NEW e, Kept(e), NEW c, NEW f, f = Wait(e)
  PROVE  Held(f, c) /\ Beside(e, f, {"wait"})
<1>1. Beside(e, f, {"wait"}) /\ (f.wait <=> e.wait \/ e.enabled)
  BY DEF Wait, Beside, Kept, Sound, Shape, Fields
<1>2. Shape(f)
  BY <1>1, ShapeKept, {"wait"} \cap ShapeFields = {} DEF ShapeFields, Kept, Sound
<1>3. /\ f.rev = e.rev /\ f.caret = e.caret /\ f.strays = e.strays /\ f.seen = e.seen
      /\ f.awaiting = e.awaiting /\ f.enabled = e.enabled
      /\ f.misplaced = e.misplaced /\ f.spelt = e.spelt /\ f.shown = e.shown
      /\ f.hints = e.hints /\ f.redone = e.redone /\ f.overtyped = e.overtyped
  BY <1>1 DEF Beside, Fields
<1> QED
  BY <1>1, <1>2, <1>3 DEF Held, Kept, Sound, HintsOnce, Fits, InPlace, HintsWanted

\* The hints' part of the tail, which an accepted item runs alone.
LEMMA HintsRestore ==
  ASSUME NEW e, Sound(e), NEW c, Fits(e, "completion"), Fits(e, "definition"),
         e.rev = e.seen => HintsWanted(e, c),
         NEW f, f = InlaysAfterEdit(e)
  PROVE  Held(f, c) /\ f.refused = e.refused
<1>1. /\ Shape(f)
      /\ Beside(e, f, {"awaiting", "pending", "gesture", "card", "seen", "wait"})
      /\ f.seen = f.rev
      /\ \A k \in Kinds : k \notin {"tooltip", "insert"} =>
           f.awaiting[k] = e.awaiting[k] /\ f.pending[k] = e.pending[k]
      /\ e.wait => f.wait
      /\ e.rev # e.seen /\ e.enabled => f.wait
  BY HintsScheduled DEF Sound
<1>2. /\ f.rev = e.rev /\ f.caret = e.caret /\ f.strays = e.strays /\ f.refused = e.refused
      /\ f.misplaced = e.misplaced /\ f.spelt = e.spelt /\ f.shown = e.shown
      /\ f.hints = e.hints /\ f.redone = e.redone /\ f.overtyped = e.overtyped
      /\ f.registered = e.registered /\ f.enabled = e.enabled
      /\ f.window = e.window /\ f.view = e.view /\ f.fetched = e.fetched
  BY <1>1 DEF Beside, Fields
<1>3. {"completion", "definition", "inlays"} \subseteq Kinds
  BY DEF Kinds
<1>4. HintsWanted(f, c)
  BY <1>1, <1>2, <1>3 DEF HintsWanted
<1>5. Fits(f, "completion") /\ Fits(f, "definition")
  BY <1>1, <1>2, <1>3 DEF Fits, InPlace
<1> QED
  BY <1>1, <1>2, <1>4, <1>5 DEF Held, Kept, Sound, HintsOnce

LEMMA UnawaitedHeld ==
  ASSUME NEW e, NEW c, Held(e, c), NEW k \in {"rename", "format"}, NEW f, f = AskUnawaited(e, k)
  PROVE  Held(f, c) /\ f.refused = e.refused
<1>1. Shape(e) /\ Kinds = Asked \cup {"tooltip", "insert", "rename", "format"}
  BY DEF Held, Kept, Sound, Kinds, Asked
<1>2. /\ Beside(e, f, {"issued", "pending"})
      /\ DOMAIN f.pending = Kinds /\ f.pending[k] = Stamped(e) /\ f.issued = e.issued + 1
      /\ \A j \in Kinds : j # k => f.pending[j] = e.pending[j]
  BY <1>1 DEF AskUnawaited, Beside, Shape, Slots, Fields
<1>3. /\ f.rev = e.rev /\ f.caret = e.caret /\ f.strays = e.strays /\ f.seen = e.seen
      /\ f.awaiting = e.awaiting /\ f.gesture = e.gesture /\ f.refused = e.refused
      /\ f.misplaced = e.misplaced /\ f.spelt = e.spelt /\ f.shown = e.shown
      /\ f.hints = e.hints /\ f.redone = e.redone /\ f.overtyped = e.overtyped
      /\ f.registered = e.registered /\ f.enabled = e.enabled /\ f.wait = e.wait
      /\ f.window = e.window /\ f.view = e.view /\ f.fetched = e.fetched
  BY <1>2 DEF Beside, Fields
<1>4. Counts(f)
  BY <1>1, <1>2, <1>3 DEF Shape, Counts
<1>5. \A ticket : Mine(e, ticket) => Mine(f, ticket) /\ ticket # Stamped(e)
  BY <1>1, <1>2, <1>3 DEF Mine, Shape, Counts, Stamped
<1>6. Mine(f, Stamped(e))
  BY <1>1, <1>2, <1>3 DEF Mine, Shape, Counts, Stamped
<1>7. Slots(f)
  BY <1>1, <1>2, <1>3, <1>5, <1>6 DEF Slots, Shape, Asked
<1>8. GestureApart(f)
  BY <1>1, <1>2, <1>3, <1>5 DEF GestureApart, Shape
<1>9. Shape(f)
  BY <1>2, <1>4, <1>7, <1>8 DEF Shape, Beside
<1>10. HintsWanted(f, c)
  BY <1>1, <1>2, <1>3 DEF Held, HintsWanted, Asked
<1> QED
  BY <1>3, <1>9, <1>10 DEF Held, Kept, Sound, HintsOnce, Fits, InPlace

LEMMA GestureHeld ==
  ASSUME NEW e, NEW c, Held(e, c), NEW k \in {"definition", "tooltip", "insert"},
         NEW what \in Gestures \ {"none"}, NEW f, f = Gesture(e, k, what)
  PROVE  Held(f, c) /\ f.refused = e.refused
<1>1. Shape(e) /\ Kinds = Asked \cup {"tooltip", "insert", "rename", "format"}
  BY DEF Held, Kept, Sound, Kinds, Asked
<1>2. /\ Beside(e, f, {"issued", "awaiting", "pending", "gesture"})
      /\ DOMAIN f.pending = Kinds /\ f.pending[k] = NoTicket /\ f.issued = e.issued + 1
      /\ DOMAIN f.awaiting = Kinds /\ f.awaiting[k] = Stamped(e)
      /\ \A j \in Kinds : j # k => f.pending[j] = e.pending[j] /\ f.awaiting[j] = e.awaiting[j]
      /\ f.gesture.what = what /\ f.gesture.ticket = Stamped(e)
  BY <1>1 DEF Gesture, Beside, Shape, Slots, Fields, Asked
<1>3. /\ f.rev = e.rev /\ f.caret = e.caret /\ f.strays = e.strays /\ f.seen = e.seen
      /\ f.refused = e.refused
      /\ f.misplaced = e.misplaced /\ f.spelt = e.spelt /\ f.shown = e.shown
      /\ f.hints = e.hints /\ f.redone = e.redone /\ f.overtyped = e.overtyped
      /\ f.registered = e.registered /\ f.enabled = e.enabled /\ f.wait = e.wait
      /\ f.window = e.window /\ f.view = e.view /\ f.fetched = e.fetched
  BY <1>2 DEF Beside, Fields
<1>4. Counts(f)
  BY <1>1, <1>2, <1>3 DEF Shape, Counts
<1>5. \A ticket : Mine(e, ticket) => Mine(f, ticket) /\ ticket # Stamped(e)
  BY <1>1, <1>2, <1>3 DEF Mine, Shape, Counts, Stamped
<1>6. Mine(f, Stamped(e)) /\ Mine(e, NoTicket)
  BY <1>1, <1>2, <1>3 DEF Mine, Shape, Counts, Stamped, NoTicket
<1>7. Slots(f)
  BY <1>1, <1>2, <1>5, <1>6 DEF Slots, Shape, Asked
<1>8. GestureApart(f)
  <2>1. Stamped(e).seq # 0
    BY <1>1 DEF Stamped, Shape, Counts
  <2>2. \A j \in Kinds : f.pending[j] # Stamped(e)
    BY <1>1, <1>2, <1>5, <1>6 DEF Shape, Slots
  <2> QED
    BY <1>2, <1>6, <2>1, <2>2 DEF GestureApart
<1>9. Shape(f)
  BY <1>2, <1>4, <1>7, <1>8 DEF Shape, Beside
<1>10. HintsWanted(f, c)
  BY <1>1, <1>2, <1>3 DEF Held, HintsWanted, Asked
<1>11. Fits(f, "completion") /\ Fits(f, "definition")
  BY <1>1, <1>2, <1>3 DEF Held, Kept, Fits, InPlace, Asked, Stamped
<1> QED
  BY <1>3, <1>9, <1>10, <1>11 DEF Held, Kept, Sound, HintsOnce
----------------------------------------------------------------------------
(* The events. *)

LEMMA InvHeld ==
  EditorInv <=> Held(editor, client) /\ ~editor.refused /\ ClientShape(client)
BY DEF EditorInv, Held

\* An event leaves the client alone.
LEMMA EventKeeps ==
  ASSUME EditorInv, NEW f, NEW n, Event(f, n), Held(f, client), f.refused = editor.refused
  PROVE  EditorInv'
BY DEF Event, EditorInv, Held

\* Loose changes need no argument.
LEMMA LooseKeeps ==
  ASSUME EditorInv, NEW f, NEW n, Event(f, n), Beside(editor, f, Loose \ {"refused"})
  PROVE  EditorInv'
<1>1. Beside(editor, f, Loose) /\ f.refused = editor.refused
  BY DEF Beside, Loose, Fields
<1>2. Held(f, client)
  BY <1>1, LooseHeld, InvHeld
<1> QED
  BY <1>1, <1>2, EventKeeps

\* A new text, before the tail.
LEMMA NewText ==
  ASSUME EditorInv, NEW f, Beside(editor, f, {"line", "caret", "rev", "pair"}), f.rev = editor.rev + 1
  PROVE  /\ Sound(f) /\ Fits(f, "completion") /\ Fits(f, "definition") /\ f.rev # f.seen
         /\ f.refused = editor.refused
<1> DEFINE S == {"line", "caret", "rev", "pair"}
<1>1. /\ f.strays = editor.strays /\ f.view = editor.view /\ f.gesture = editor.gesture
      /\ f.seen = editor.seen /\ f.shown = editor.shown /\ f.spelt = editor.spelt /\ f.misplaced = editor.misplaced
      /\ f.hints = editor.hints /\ f.redone = editor.redone /\ f.overtyped = editor.overtyped
      /\ f.refused = editor.refused
  BY DEF Beside, Fields
<1>2. Shape(editor) /\ editor.seen = editor.rev
  BY DEF EditorInv, Kept, Sound
<1>3. editor.view \in Nat \ {0} /\ editor.rev \in Nat
  BY <1>2 DEF Shape, Counts
<1>4. Shape(f) /\ \A k \in Kinds : Fits(f, k)
  BY <1>1, <1>2, <1>3, ShapeMoved, S \cap {"issued", "awaiting", "pending"} = {}
<1>5. Sound(f)
  BY <1>1, <1>3, <1>4, HintsOnceKept DEF EditorInv, Kept, Sound
<1> QED
  BY <1>1, <1>2, <1>3, <1>4, <1>5 DEF Kinds

LEMMA TypeKeeps == EditorInv /\ Type => EditorInv'
<1> SUFFICES ASSUME EditorInv, Type PROVE EditorInv'
  OBVIOUS
<1> DEFINE typed(char, pairs) == IF pairs THEN <<char, ";">> ELSE <<char>>
           t(char, pairs) ==
             [editor EXCEPT !.line = Inserted(@, editor.caret, typed(char, pairs)), !.caret = @ + 1, !.rev = @ + 1,
                            !.pair = IF pairs THEN editor.caret + 1 ELSE @]
<1>1. PICK char \in Chars, match \in MayMatch, escapes \in BOOLEAN, pairs \in BOOLEAN :
        Update(AfterEdit(t(char, pairs), char, match, escapes))
  BY DEF Type
<1> DEFINE u == t(char, pairs)
           f == AfterEdit(u, char, match, escapes)
<1>2. Beside(editor, u, {"line", "caret", "rev", "pair"}) /\ u.rev = editor.rev + 1
  BY DEF Beside, Fields, EditorInv, Kept, Sound, Shape
<1>3. Update(f) /\ f = AfterEdit(u, char, match, escapes)
  BY <1>1
<1> HIDE DEF u, f
<1>4. Sound(u) /\ Fits(u, "completion") /\ Fits(u, "definition") /\ u.rev # u.seen /\ u.refused = editor.refused
  BY <1>2, NewText
<1>5. Held(f, client) /\ f.refused = u.refused
  <2>1. char \in Chars \cup {"deleting", "close"} /\ (u.rev = u.seen => HintsWanted(u, client))
    BY <1>4
  <2>2. Tailed(u, client, char, f)
    BY <1>3, <1>4, <2>1, TailRestores
  <2> QED
    BY <2>2 DEF Held, Tailed
<1> QED
  BY <1>3, <1>4, <1>5, EventKeeps DEF Update

\* A closer typed over is a character typed: the completion is abandoned,
\* and the definition is the one excepted.
LEMMA OvertypeKeeps == EditorInv /\ Overtype => EditorInv'
<1> SUFFICES ASSUME EditorInv, NEW escapes \in MayEscape,
                    Update(AfterEdit([editor EXCEPT !.caret = @ + 1, !.pair = 0,
                                                    !.overtyped = editor.awaiting["definition"]],
                                     ";", TRUE, escapes))
             PROVE  EditorInv'
  BY DEF Overtype
<1> DEFINE t == [editor EXCEPT !.caret = @ + 1, !.pair = 0, !.overtyped = editor.awaiting["definition"]]
           f == AfterEdit(t, ";", TRUE, escapes)
           S == {"caret", "pair", "overtyped"}
<1>1. Beside(editor, t, S) /\ t.overtyped = editor.awaiting["definition"] /\ Update(f)
  BY DEF Beside, Fields, EditorInv, Kept, Sound, Shape
<1>2. f = AfterEdit(t, ";", TRUE, escapes)
  OBVIOUS
<1> HIDE DEF t, f
<1>3. Shape(t)
  BY <1>1, ShapeKept, S \cap ShapeFields = {} DEF ShapeFields, EditorInv, Kept, Sound
<1>4. /\ t.rev = editor.rev /\ t.seen = editor.seen /\ t.awaiting = editor.awaiting /\ t.pending = editor.pending
      /\ t.spelt = editor.spelt /\ t.shown = editor.shown /\ t.misplaced = editor.misplaced
      /\ t.hints = editor.hints /\ t.redone = editor.redone
      /\ t.registered = editor.registered /\ t.enabled = editor.enabled /\ t.wait = editor.wait
      /\ t.window = editor.window /\ t.view = editor.view /\ t.fetched = editor.fetched
      /\ t.refused = editor.refused
  BY <1>1 DEF Beside, Fields
<1>5. Sound(t) /\ HintsWanted(t, client) /\ Fits(t, "definition")
  BY <1>1, <1>3, <1>4 DEF EditorInv, Kept, Sound, HintsOnce, HintsWanted, Fits
<1>6. Tailed(t, client, ";", f)
  BY <1>2, <1>5, TailRestores DEF Chars, EndsWord
<1> QED
  BY <1>1, <1>4, <1>6, EventKeeps DEF Update, Held, Tailed

LEMMA BackspaceKeeps == EditorInv /\ Backspace => EditorInv'
<1> SUFFICES ASSUME EditorInv, NEW match \in MayMatch, NEW escapes \in MayEscape,
                    Update(AfterEdit(Erased, "deleting", match, escapes))
             PROVE  EditorInv'
  BY DEF Backspace
<1> DEFINE gone(line, pair) == [editor EXCEPT !.line = line, !.caret = @ - 1, !.pair = pair, !.rev = @ + 1]
           f == AfterEdit(Erased, "deleting", match, escapes)
<1>1. DOMAIN editor = Fields
  BY DEF EditorInv, Kept, Sound, Shape
<1>2. ASSUME NEW line, NEW pair
      PROVE  /\ Sound(gone(line, pair)) /\ Fits(gone(line, pair), "completion") /\ Fits(gone(line, pair), "definition")
             /\ gone(line, pair).rev # gone(line, pair).seen
             /\ gone(line, pair).refused = editor.refused
  <2> DEFINE g == gone(line, pair)
  <2>1. Beside(editor, g, {"line", "caret", "rev", "pair"}) /\ g.rev = editor.rev + 1
    BY <1>1 DEF Beside, Fields
  <2> HIDE DEF g
  <2>2. Sound(g) /\ Fits(g, "completion") /\ Fits(g, "definition") /\ g.rev # g.seen /\ g.refused = editor.refused
    BY <2>1, NewText
  <2> QED
    BY <2>2 DEF g
<1>3. \/ Erased = editor
      \/ Erased = gone(RemoveAt(RemoveAt(editor.line, editor.caret), editor.caret), 0)
      \/ Erased = gone(RemoveAt(editor.line, editor.caret), editor.pair)
  BY <1>1 DEF Erased, Fields
<1> HIDE DEF gone
<1>4. /\ Sound(Erased) /\ Fits(Erased, "completion") /\ Fits(Erased, "definition")
      /\ Erased.rev = Erased.seen => HintsWanted(Erased, client)
      /\ Erased.refused = editor.refused
  BY <1>2, <1>3 DEF EditorInv, Kept
<1>5. Tailed(Erased, client, "deleting", f)
  BY <1>4, "deleting" \in Chars \cup {"deleting", "close"}, TailRestores
<1>6. Update(f)
  OBVIOUS
<1> HIDE DEF f
<1> QED
  BY <1>4, <1>5, <1>6, EventKeeps DEF Update, Held, Tailed

\* r is e after a landing, a move of the caret or a new text.
Landed(e, c, r) ==
  /\ Held(r, c)
  /\ r.registered = e.registered
  /\ r.gesture \in {e.gesture, NoGesture}
  /\ \A j \in Kinds \ {"signature"} : r.pending[j] \in {e.pending[j], NoTicket}

\* A move of the caret through the tail, from any state between the parts
\* of an event or a sync.
LEMMA SelectHeld ==
  ASSUME NEW e, NEW c, Held(e, c), NEW p, NEW escapes
  PROVE  Landed(e, c, Select(e, p, escapes)) /\ Select(e, p, escapes).refused = e.refused
<1> DEFINE f == Select(e, p, escapes)
           t == [e EXCEPT !.caret = p, !.pair = 0]
<1>1. Shape(e)
  BY DEF Held, Kept, Sound
<1>2. Beside(e, t, {"caret", "pair"}) /\ f = AfterEdit(t, "close", TRUE, escapes)
  BY <1>1 DEF Beside, Shape, Fields, Select
<1> HIDE DEF t, f
<1>3. Shape(t)
  BY <1>1, <1>2, ShapeKept, {"caret", "pair"} \cap ShapeFields = {} DEF ShapeFields
<1>4. /\ t.rev = e.rev /\ t.refused = e.refused /\ t.misplaced = e.misplaced /\ t.spelt = e.spelt
      /\ t.hints = e.hints /\ t.redone = e.redone /\ t.overtyped = e.overtyped
      /\ t.shown = e.shown /\ t.registered = e.registered /\ t.enabled = e.enabled /\ t.wait = e.wait
      /\ t.window = e.window /\ t.view = e.view /\ t.fetched = e.fetched
      /\ t.awaiting = e.awaiting /\ t.pending = e.pending /\ t.gesture = e.gesture
  BY <1>2 DEF Beside, Fields
<1>5. Sound(t) /\ HintsWanted(t, c)
  BY <1>3, <1>4 DEF Held, Kept, Sound, HintsOnce, HintsWanted
<1>6. Tailed(t, c, "close", f)
  BY <1>2, <1>5, "close" \in Chars \cup {"deleting", "close"}, TailRestores DEF EndsWord
<1>7. Landed(e, c, f) /\ f.refused = e.refused
  BY <1>4, <1>6 DEF Held, Tailed, Landed
<1> QED
  BY <1>7 DEF f

LEMMA MoveCaretKeeps == EditorInv /\ MoveCaret => EditorInv'
<1> SUFFICES ASSUME EditorInv, NEW p \in Places, NEW escapes \in MayEscape, Update(Select(editor, p, escapes))
             PROVE  EditorInv'
  BY DEF MoveCaret
<1> DEFINE f == Select(editor, p, escapes)
<1>1. Update(f)
  OBVIOUS
<1>2. Held(f, client) /\ f.refused = editor.refused
  BY InvHeld, SelectHeld DEF Landed
<1> HIDE DEF f
<1> QED
  BY <1>1, <1>2, EventKeeps DEF Update

\* What a new text off the line changes before the tail.
ChangeFields == {"rev", "pair", "spelt", "undone", "redone"}

\* A new text through the tail, whatever becomes of an inserted hint's.
LEMMA ChangeHeld ==
  ASSUME NEW e, NEW c, Kept(e), NEW t, Beside(e, t, ChangeFields),
         t.rev = e.rev + 1, HintsOnce(t), NEW escapes
  PROVE  Landed(e, c, AfterEdit(t, "close", TRUE, escapes)) /\ AfterEdit(t, "close", TRUE, escapes).refused = e.refused
<1> DEFINE f == AfterEdit(t, "close", TRUE, escapes)
<1>1. Shape(e) /\ e.seen = e.rev
  BY DEF Kept, Sound
<1>2. {"strays", "view", "gesture", "pending", "seen", "misplaced", "refused", "registered"}
        \subseteq Fields \ ChangeFields
  BY DEF Fields, ChangeFields
<1>3. /\ t.strays = e.strays /\ t.view = e.view /\ t.gesture = e.gesture /\ t.pending = e.pending
      /\ t.seen = e.seen /\ t.misplaced = e.misplaced /\ t.refused = e.refused /\ t.registered = e.registered
  BY <1>2 DEF Beside
<1>4. e.view \in Nat \ {0} /\ e.rev \in Nat
  BY <1>1 DEF Shape, Counts
<1>5. Shape(t)
  BY <1>1, <1>3, <1>4, ShapeMoved, ChangeFields \cap {"issued", "awaiting", "pending"} = {} DEF ChangeFields
<1>6. Sound(t) /\ t.rev # t.seen
  BY <1>1, <1>3, <1>4, <1>5 DEF Kept, Sound
<1>7. Tailed(t, c, "close", f)
  BY <1>6, "close" \in Chars \cup {"deleting", "close"}, TailRestores DEF EndsWord
<1> HIDE DEF f
<1>8. Landed(e, c, f) /\ f.refused = e.refused
  BY <1>3, <1>7 DEF Held, Tailed, Landed
<1> QED
  BY <1>8 DEF f

LEMMA ChangedHeld ==
  ASSUME NEW e, NEW c, Kept(e), NEW escapes
  PROVE  Landed(e, c, Changed(e, escapes)) /\ Changed(e, escapes).refused = e.refused
<1> DEFINE f == Changed(e, escapes)
           t == [e EXCEPT !.rev = @ + 1]
<1>1. Shape(e) /\ e.rev \in Nat /\ HintsOnce(e)
  BY DEF Kept, Sound, Shape, Counts
<1>2. Beside(e, t, {"rev"}) /\ t.rev = e.rev + 1 /\ f = AfterEdit(t, "close", TRUE, escapes)
  BY <1>1 DEF Beside, Shape, Fields, Changed
<1> HIDE DEF t, f
<1>3. t.hints = e.hints /\ t.redone = e.redone /\ t.shown = e.shown /\ t.spelt = e.spelt
  BY <1>2 DEF Beside, Fields
<1>4. HintsOnce(t)
  BY <1>1, <1>2, <1>3, HintsOnceKept
<1>5. Beside(e, t, ChangeFields)
  BY <1>2 DEF Beside, ChangeFields
<1>6. Landed(e, c, f) /\ f.refused = e.refused
  BY <1>2, <1>4, <1>5, ChangeHeld
<1> QED
  BY <1>6 DEF f

LEMMA EditKeeps == EditorInv /\ Edit => EditorInv'
<1> SUFFICES ASSUME EditorInv, NEW escapes, Update(Changed(editor, escapes))
             PROVE  EditorInv'
  BY DEF Edit
<1> DEFINE f == Changed(editor, escapes)
<1>1. Update(f)
  OBVIOUS
<1>2. Held(f, client) /\ f.refused = editor.refused
  BY ChangedHeld DEF EditorInv, Landed
<1> HIDE DEF f
<1> QED
  BY <1>1, <1>2, EventKeeps DEF Update

\* Hints fetched before a redo are older than the redo.
LEMMA RevisitKeeps == EditorInv /\ Revisit => EditorInv'
<1> SUFFICES ASSUME EditorInv, NEW escapes, NEW spelt, Update(Revisited(editor, escapes, spelt))
             PROVE  EditorInv'
  BY DEF Revisit
<1> DEFINE f == Revisited(editor, escapes, spelt)
<1>1. Shape(editor) /\ Kept(editor) /\ editor.rev \in Nat /\ HintsOnce(editor)
  BY DEF EditorInv, Kept, Sound, Shape, Counts
<1>2. PICK undone :
        f = AfterEdit([editor EXCEPT !.rev = @ + 1, !.pair = 0, !.spelt = spelt, !.undone = undone,
                                     !.redone = IF spelt /\ ~editor.spelt THEN editor.rev + 1 ELSE @],
                      "close", TRUE, escapes)
  BY DEF Revisited
<1> DEFINE t == [editor EXCEPT !.rev = @ + 1, !.pair = 0, !.spelt = spelt, !.undone = undone,
                               !.redone = IF spelt /\ ~editor.spelt THEN editor.rev + 1 ELSE @]
<1>3. /\ Beside(editor, t, ChangeFields) /\ t.rev = editor.rev + 1 /\ t.spelt = spelt
      /\ t.redone = IF spelt /\ ~editor.spelt THEN editor.rev + 1 ELSE editor.redone
  BY <1>1 DEF Beside, ChangeFields, Shape, Fields
<1>4. Update(f) /\ f = AfterEdit(t, "close", TRUE, escapes)
  BY <1>2
<1> HIDE DEF t, f
<1>5. t.hints = editor.hints /\ t.shown = editor.shown
  BY <1>3 DEF Beside, ChangeFields, Fields
<1>6. HintsOnce(t)
  <2>1. CASE spelt /\ ~editor.spelt
    <3>1. editor.hints \in Nat /\ editor.hints <= editor.rev
      BY <1>1 DEF HintsOnce
    <3>2. editor.hints <= editor.rev + 1 /\ editor.hints < editor.rev + 1
      BY <1>1, <3>1
    <3> QED
      BY <1>3, <1>5, <2>1, <3>1, <3>2 DEF HintsOnce
  <2>2. CASE ~(spelt /\ ~editor.spelt)
    <3>1. t.redone = editor.redone /\ (t.spelt => editor.spelt)
      BY <1>3, <2>2
    <3> QED
      BY <1>1, <1>3, <1>5, <3>1, HintsOnceKept
  <2> QED
    BY <2>1, <2>2
<1>7. Landed(editor, client, f) /\ f.refused = editor.refused
  BY <1>1, <1>3, <1>4, <1>6, ChangeHeld
<1> QED
  BY <1>4, <1>7, EventKeeps DEF Update, Landed

LEMMA CollapseKeeps == EditorInv /\ Collapse => EditorInv'
<1> SUFFICES ASSUME EditorInv, NEW escapes \in MayEscape,
                    Rarely(IF editor.find THEN CloseFind
                           ELSE AfterEdit(Abandon([editor EXCEPT !.signature = FALSE, !.pair = 0], {"signature"}),
                                          "close", TRUE, escapes))
             PROVE  EditorInv'
  BY DEF Collapse
<1>1. DOMAIN editor = Fields
  BY DEF EditorInv, Kept, Sound, Shape
<1>2. CASE editor.find
  <2>1. Beside(editor, CloseFind, Loose \ {"refused"})
    BY <1>1 DEF Beside, CloseFind, Loose, Fields
  <2>2. Rarely(CloseFind)
    BY <1>2
  <2> QED
    BY <2>1, <2>2, LooseKeeps DEF Rarely
<1>3. CASE ~editor.find
  <2> DEFINE s == [editor EXCEPT !.signature = FALSE, !.pair = 0]
             t == Abandon(s, {"signature"})
             f == AfterEdit(t, "close", TRUE, escapes)
  <2>1. Rarely(f)
    BY <1>3
  <2>2. Beside(editor, s, Loose) /\ s.refused = editor.refused
    BY <1>1 DEF Beside, Loose, Fields
  <2> HIDE DEF s
  <2>3. Held(s, client)
    BY <2>2, LooseHeld, InvHeld
  <2>4. Kept(t) /\ HintsWanted(t, client) /\ t.refused = s.refused
    <3>1. Kept(s) /\ HintsWanted(s, client) /\ "inlays" \notin {"signature"}
      BY <2>3 DEF Held
    <3>2. Beside(s, t, {"awaiting", "pending", "gesture"})
      BY <3>1, AbandonFacts DEF Kept, Sound
    <3> QED
      BY <3>1, <3>2, AbandonKept DEF Beside, Fields
  <2> HIDE DEF t
  <2>5. Tailed(t, client, "close", f)
    BY <2>4, "close" \in Chars \cup {"deleting", "close"}, TailRestores DEF Kept, EndsWord
  <2> HIDE DEF f
  <2> QED
    BY <2>1, <2>2, <2>4, <2>5, EventKeeps DEF Rarely, Held, Tailed
<1> QED
  BY <1>2, <1>3

LEMMA LoadKeeps == EditorInv /\ Load => EditorInv'
<1> DEFINE loaded(p) ==
             [editor EXCEPT !.line = <<"a">>, !.caret = p, !.strays = @ + 1, !.rev = @ + 1, !.spelt = FALSE,
                            !.pair = 0, !.hints = 0, !.shown = FALSE, !.card = FALSE,
                            !.seen = editor.rev + 1, !.window = 0]
           hintless(p) == Abandon(loaded(p), {"inlays", "tooltip", "insert"})
           S == {"line", "caret", "strays", "rev", "spelt", "pair", "hints", "shown", "card", "seen", "window"}
<1> SUFFICES ASSUME EditorInv, NEW p \in {0, 1}, Rarely(Wait(hintless(p)))
             PROVE  EditorInv'
  BY DEF Load
<1> DEFINE d == loaded(p)
           h == hintless(p)
           f == Wait(h)
<1>1. Shape(editor) /\ editor.view \in Nat \ {0}
  BY DEF EditorInv, Kept, Sound, Shape, Counts
<1>2. /\ Beside(editor, d, S)
      /\ d.rev = editor.rev + 1 /\ d.strays = editor.strays + 1 /\ d.seen = editor.rev + 1 /\ ~d.shown
      /\ d.hints = 0
  BY <1>1 DEF Beside, Shape, Fields
<1>3. h = Abandon(d, {"inlays", "tooltip", "insert"}) /\ Rarely(f)
  OBVIOUS
<1> HIDE DEF d, h
<1>4. /\ d.view = editor.view /\ d.gesture = editor.gesture /\ d.misplaced = editor.misplaced
      /\ d.refused = editor.refused
  BY <1>2 DEF Beside, Fields
<1>5. S \cap {"issued", "awaiting", "pending"} = {} /\ d.rev # editor.rev
  BY <1>1, <1>2 DEF Shape, Counts
<1>6. Shape(d) /\ \A k \in Kinds : Fits(d, k)
  BY <1>1, <1>2, <1>4, <1>5, ShapeMoved
<1>7. Kept(d)
  BY <1>2, <1>4, <1>6, HintsOnceAt DEF EditorInv, Kept, Sound, Kinds
<1>8. Kept(h) /\ Beside(d, h, {"awaiting", "pending", "gesture"})
  BY <1>3, <1>6, <1>7, AbandonKept, AbandonFacts
<1>9. Held(f, client) /\ Beside(h, f, {"wait"})
  BY <1>8, WaitHeld
<1>10. f.refused = editor.refused
  BY <1>4, <1>8, <1>9 DEF Beside, Fields
<1> HIDE DEF f
<1> QED
  BY <1>3, <1>9, <1>10, EventKeeps DEF Rarely

LEMMA ScrollKeeps == EditorInv /\ Scroll => EditorInv'
<1> DEFINE scrolled(view) == [editor EXCEPT !.view = view, !.hover = FALSE, !.card = FALSE]
           boxless(view) == Abandon(scrolled(view), {"hover", "tooltip"})
           S == {"view", "hover", "card"}
<1> SUFFICES ASSUME EditorInv, NEW view \in (1..MaxView) \ {editor.view},
                    Rarely(IF editor.window # 0 /\ view \notin Inner(editor.window) THEN Wait(boxless(view))
                           ELSE boxless(view))
             PROVE  EditorInv'
  BY DEF Scroll
<1> DEFINE d == scrolled(view)
           h == boxless(view)
           f == IF editor.window # 0 /\ view \notin Inner(editor.window) THEN Wait(h) ELSE h
<1>1. Shape(editor) /\ editor.rev \in Nat /\ editor.strays \in Nat
  BY DEF EditorInv, Kept, Sound, Shape, Counts
<1>2. Beside(editor, d, S) /\ d.view = view /\ view \in Nat \ {0}
  <2>1. MaxView \in Nat
    BY CodeEditorAssumption
  <2>2. view \in Nat \ {0}
    BY <2>1
  <2> QED
    BY <1>1, <2>2 DEF Beside, Shape, Fields
<1>3. h = Abandon(d, {"hover", "tooltip"}) /\ Rarely(f)
  OBVIOUS
<1> HIDE DEF d, h
<1>4. /\ d.rev = editor.rev /\ d.strays = editor.strays /\ d.caret = editor.caret /\ d.seen = editor.seen
      /\ d.gesture = editor.gesture /\ d.awaiting = editor.awaiting /\ d.pending = editor.pending
      /\ d.misplaced = editor.misplaced /\ d.spelt = editor.spelt /\ d.shown = editor.shown
      /\ d.hints = editor.hints /\ d.redone = editor.redone /\ d.overtyped = editor.overtyped
      /\ d.refused = editor.refused /\ d.registered = editor.registered /\ d.enabled = editor.enabled
      /\ d.wait = editor.wait /\ d.window = editor.window /\ d.fetched = editor.fetched
  BY <1>2 DEF Beside, Fields
<1>5. Shape(d)
  BY <1>1, <1>2, <1>4, ShapeMoved, S \cap {"issued", "awaiting", "pending"} = {}
<1>6. Kept(d)
  BY <1>4, <1>5 DEF EditorInv, Kept, Sound, HintsOnce, Fits, InPlace
<1>7. Kept(h) /\ Beside(d, h, {"awaiting", "pending", "gesture"})
  BY <1>3, <1>5, <1>6, AbandonKept, AbandonFacts
<1>8. h.refused = editor.refused
  BY <1>4, <1>7 DEF Beside, Fields
<1>9. CASE editor.window # 0 /\ view \notin Inner(editor.window)
  <2>1. f = Wait(h)
    BY <1>9
  <2> HIDE DEF f
  <2>2. Held(f, client) /\ Beside(h, f, {"wait"})
    BY <1>7, <2>1, WaitHeld
  <2>3. f.refused = h.refused
    BY <2>2 DEF Beside, Fields
  <2> QED
    BY <1>3, <1>8, <2>2, <2>3, EventKeeps DEF Rarely
<1>10. CASE ~(editor.window # 0 /\ view \notin Inner(editor.window))
  <2>1. f = h
    BY <1>10
  <2> HIDE DEF f
  <2>2. HintsWanted(d, client)
    BY <1>2, <1>4, <1>10 DEF EditorInv, HintsWanted
  <2>3. HintsWanted(h, client)
    BY <1>3, <1>6, <2>2, AbandonKept, "inlays" \notin {"hover", "tooltip"}
  <2>4. Held(f, client) /\ f.refused = editor.refused
    BY <1>7, <1>8, <2>1, <2>3 DEF Held
  <2> QED
    BY <1>3, <2>4, EventKeeps DEF Rarely
<1> QED
  BY <1>9, <1>10

LEMMA StrayKeeps ==
  ASSUME EditorInv, NEW e, Beside(editor, e, {"snippet"}), Stray(e)
  PROVE  EditorInv'
<1> DEFINE strayed(p) == [e EXCEPT !.caret = p, !.strays = @ + 1, !.pair = 0]
           S == {"snippet", "caret", "strays", "pair"}
<1> SUFFICES ASSUME NEW p \in Places, Rarely(strayed(p))
             PROVE  EditorInv'
  BY DEF Stray
<1> DEFINE f == strayed(p)
<1>1. Shape(editor) /\ editor.rev \in Nat /\ editor.strays \in Nat /\ editor.view \in Nat \ {0}
  BY DEF EditorInv, Kept, Sound, Shape, Counts
<1>2. Beside(e, f, {"caret", "strays", "pair"}) /\ f.strays = e.strays + 1 /\ e.strays = editor.strays /\ Rarely(f)
  BY DEF Beside, Fields
<1> HIDE DEF f
<1>3. Beside(editor, f, S)
  BY <1>2 DEF Beside
<1>4. /\ f.rev = editor.rev /\ f.seen = editor.seen /\ f.view = editor.view
      /\ f.gesture = editor.gesture /\ f.awaiting = editor.awaiting /\ f.pending = editor.pending
      /\ f.misplaced = editor.misplaced /\ f.spelt = editor.spelt /\ f.shown = editor.shown
      /\ f.hints = editor.hints /\ f.redone = editor.redone /\ f.overtyped = editor.overtyped
      /\ f.refused = editor.refused /\ f.registered = editor.registered /\ f.enabled = editor.enabled
      /\ f.wait = editor.wait /\ f.window = editor.window /\ f.fetched = editor.fetched
  BY <1>3 DEF Beside, Fields
<1>5. Shape(f) /\ \A k \in Kinds : Fits(f, k)
  BY <1>1, <1>2, <1>3, <1>4, ShapeMoved, S \cap {"issued", "awaiting", "pending"} = {}
<1>6. Held(f, client)
  BY <1>4, <1>5 DEF EditorInv, Held, Kept, Sound, HintsOnce, HintsWanted, Kinds
<1> QED
  BY <1>2, <1>4, <1>6, EventKeeps DEF Rarely

LEMMA StraysKeep == EditorInv /\ (Fold \/ SnippetTab \/ FindNext) => EditorInv'
<1>1. ASSUME EditorInv PROVE Beside(editor, editor, {"snippet"})
  BY <1>1 DEF Beside, EditorInv, Kept, Sound, Shape
<1>2. ASSUME EditorInv, Fold \/ FindNext PROVE EditorInv'
  BY <1>1, <1>2, StrayKeeps DEF Fold, FindNext
<1>3. ASSUME EditorInv, SnippetTab PROVE EditorInv'
  <2>1. PICK stays \in BOOLEAN : Stray([editor EXCEPT !.snippet = stays])
    BY <1>3 DEF SnippetTab
  <2>2. Beside(editor, [editor EXCEPT !.snippet = stays], {"snippet"})
    BY <1>3 DEF Beside, EditorInv, Kept, Sound, Shape, Fields
  <2> QED
    BY <1>3, <2>1, <2>2, StrayKeeps
<1> QED
  BY <1>2, <1>3

LEMMA BarsKeep ==
  EditorInv /\ (SnippetCancel \/ OpenFind \/ CloseBar \/ Rename) => EditorInv'
<1> SUFFICES ASSUME EditorInv, SnippetCancel \/ OpenFind \/ CloseBar \/ Rename PROVE EditorInv'
  OBVIOUS
<1>1. DOMAIN editor = Fields
  BY DEF EditorInv, Kept, Sound, Shape
<1>2. /\ Beside(editor, [editor EXCEPT !.snippet = FALSE], Loose \ {"refused"})
      /\ Beside(editor, [editor EXCEPT !.find = TRUE, !.rename = 0], Loose \ {"refused"})
      /\ Beside(editor, [editor EXCEPT !.rename = 0], Loose \ {"refused"})
      /\ Beside(editor, [editor EXCEPT !.find = FALSE], Loose \ {"refused"})
      /\ Beside(editor, [editor EXCEPT !.find = FALSE, !.rename = editor.rev], Loose \ {"refused"})
  BY <1>1 DEF Beside, Loose, Fields
<1>3. CASE SnippetCancel
  BY <1>2, <1>3, LooseKeeps DEF SnippetCancel, Rarely
<1>4. CASE OpenFind
  BY <1>2, <1>4, LooseKeeps DEF OpenFind, Rarely
<1>5. CASE CloseBar
  <2>1. Rarely([editor EXCEPT !.rename = 0]) \/ Rarely([editor EXCEPT !.find = FALSE])
    BY <1>5 DEF CloseBar, CloseFind
  <2> QED
    BY <1>2, <2>1, LooseKeeps DEF Rarely
<1>6. CASE Rename
  BY <1>2, <1>6, LooseKeeps DEF Rename, Rarely
<1> QED
  BY <1>3, <1>4, <1>5, <1>6

LEMMA PopupKeeps == EditorInv /\ (PopupDismiss \/ SignatureClose \/ TriggerCompletion) => EditorInv'
<1> SUFFICES ASSUME EditorInv, PopupDismiss \/ SignatureClose \/ TriggerCompletion PROVE EditorInv'
  OBVIOUS
<1>1. Shape(editor) /\ DOMAIN editor = Fields
  BY DEF EditorInv, Kept, Sound, Shape
<1>2. ASSUME NEW s, Beside(editor, s, Loose \ {"refused"}), NEW k \in {"completion", "signature"},
             NEW n, Event(Abandon(s, {k}), n)
      PROVE  EditorInv'
  <2> DEFINE f == Abandon(s, {k})
  <2>1. Beside(editor, s, Loose) /\ s.refused = editor.refused
    BY <1>2 DEF Beside, Loose, Fields
  <2>2. Held(s, client)
    BY <2>1, LooseHeld, InvHeld
  <2>3. Kept(s) /\ HintsWanted(s, client) /\ "inlays" \notin {k}
    BY <2>2 DEF Held
  <2>4. Kept(f) /\ HintsWanted(f, client)
    BY <2>3, AbandonKept
  <2>5. Beside(s, f, {"awaiting", "pending", "gesture"})
    BY <2>3, AbandonFacts DEF Kept, Sound
  <2>6. Event(f, n)
    BY <1>2
  <2> HIDE DEF f
  <2>7. f.refused = editor.refused
    BY <2>1, <2>5 DEF Beside, Fields
  <2> QED
    BY <2>4, <2>6, <2>7, EventKeeps DEF Held
<1>3. CASE PopupDismiss
  <2> DEFINE s == [editor EXCEPT !.popup.state = "dismissed", !.popup.anchor = 0]
  <2>1. Event(Abandon(s, {"completion"}), 1)
    BY <1>3 DEF PopupDismiss, Update
  <2>2. Beside(editor, s, Loose \ {"refused"})
    BY <1>1 DEF Beside, Loose, Fields
  <2> HIDE DEF s
  <2> QED
    BY <1>2, <2>1, <2>2
<1>4. CASE SignatureClose
  <2> DEFINE s == [editor EXCEPT !.signature = FALSE]
  <2>1. Event(Abandon(s, {"signature"}), 2)
    BY <1>4 DEF SignatureClose, Rarely
  <2>2. Beside(editor, s, Loose \ {"refused"})
    BY <1>1 DEF Beside, Loose, Fields
  <2> HIDE DEF s
  <2> QED
    BY <1>2, <2>1, <2>2
<1>5. CASE TriggerCompletion
  <2> DEFINE f == RequestCompletions(editor, "manual", TRUE)
  <2>1. Redriven(editor, f, "completion")
    BY <1>1, CompletionRequested
  <2>2. Update(f)
    BY <1>5 DEF TriggerCompletion
  <2> HIDE DEF f
  <2>3. Held(f, client)
    BY <2>1, RedrivenHeld, InvHeld
  <2>4. f.refused = editor.refused
    BY <2>1 DEF Redriven, Beside, Fields
  <2> QED
    BY <2>2, <2>3, <2>4, EventKeeps DEF Update
<1> QED
  BY <1>3, <1>4, <1>5

LEMMA PopupAcceptKeeps == EditorInv /\ PopupAccept => EditorInv'
<1> SUFFICES ASSUME EditorInv, PopupAccept PROVE EditorInv'
  OBVIOUS
<1> DEFINE start == WordStart(editor)
           rest == SubSeq(editor.line, editor.caret + 1, Len(editor.line))
           base == Abandon(editor, {"completion"})
           put(snippet) == [base EXCEPT
                     !.popup = NoPopup, !.line = SubSeq(@, 1, start) \o <<"a">> \o rest, !.caret = start + 1,
                     !.rev = @ + 1, !.snippet = snippet, !.pair = 0]
           tailed(snippet) == InlaysAfterEdit(put(snippet))
           again(snippet, retrigger) ==
             IF retrigger /\ ~snippet THEN RequestCompletions(tailed(snippet), "manual", TRUE) ELSE tailed(snippet)
           last(snippet, retrigger, signature) ==
             IF signature THEN DriveSignature(again(snippet, retrigger), "(") ELSE again(snippet, retrigger)
<1>1. PICK snippet \in BOOLEAN, retrigger \in BOOLEAN, signature \in BOOLEAN :
        Update(last(snippet, retrigger, signature))
  BY DEF PopupAccept
<1> DEFINE p == put(snippet)
           t == tailed(snippet)
           g == again(snippet, retrigger)
           f == last(snippet, retrigger, signature)
           S == {"popup", "line", "caret", "rev", "snippet", "pair"}
<1>2. /\ Kept(base) /\ HintsWanted(base, client)
      /\ Beside(editor, base, {"awaiting", "pending", "gesture"})
  BY AbandonKept, AbandonFacts, "inlays" \notin {"completion"} DEF EditorInv, Kept, Sound
<1>3. /\ t = InlaysAfterEdit(p)
      /\ g \in {t, RequestCompletions(t, "manual", TRUE)}
      /\ f \in {g, DriveSignature(g, "(")}
      /\ Update(f)
  BY <1>1
<1> HIDE DEF base
<1>4. Shape(base) /\ base.view \in Nat \ {0} /\ base.rev \in Nat
  BY <1>2 DEF Kept, Sound, Shape, Counts
<1>5. Beside(base, p, S) /\ p.rev = base.rev + 1
  BY <1>4 DEF Beside, Shape, Fields
<1> HIDE DEF p
<1>6. /\ p.strays = base.strays /\ p.view = base.view /\ p.gesture = base.gesture /\ p.seen = base.seen
      /\ p.misplaced = base.misplaced /\ p.spelt = base.spelt /\ p.shown = base.shown
      /\ p.hints = base.hints /\ p.redone = base.redone /\ p.overtyped = base.overtyped
      /\ p.refused = base.refused /\ base.refused = editor.refused
  BY <1>2, <1>5 DEF Beside, Fields
<1>7. Shape(p) /\ (p.rev # base.rev => \A k \in Kinds : Fits(p, k))
  BY <1>4, <1>5, <1>6, ShapeMoved, S \cap {"issued", "awaiting", "pending"} = {}
<1>8. p.rev # base.rev
  BY <1>4, <1>5
<1>9. Sound(p) /\ Fits(p, "completion") /\ Fits(p, "definition") /\ p.rev # p.seen
  BY <1>2, <1>4, <1>5, <1>6, <1>7, <1>8, HintsOnceKept DEF Kept, Sound, Kinds
<1> HIDE DEF t
<1>10. Held(t, client) /\ t.refused = p.refused
  BY <1>3, <1>9, HintsRestore
<1> HIDE DEF g
<1>11. Held(g, client) /\ g.refused = t.refused
  <2> DEFINE r == RequestCompletions(t, "manual", TRUE)
  <2>1. Redriven(t, r, "completion")
    BY <1>10, CompletionRequested DEF Held, Kept, Sound
  <2>2. g \in {t, r}
    BY <1>3
  <2> HIDE DEF r
  <2>3. Held(r, client)
    BY <1>10, <2>1, RedrivenHeld
  <2>4. r.refused = t.refused
    BY <2>1 DEF Redriven, Beside, Fields
  <2> QED
    BY <1>10, <2>2, <2>3, <2>4
<1> HIDE DEF f
<1>12. Held(f, client) /\ f.refused = g.refused
  <2> DEFINE r == DriveSignature(g, "(")
  <2>1. Redriven(g, r, "signature")
    BY <1>11, SignatureDriven DEF Held, Kept, Sound
  <2>2. f \in {g, r}
    BY <1>3
  <2> HIDE DEF r
  <2>3. Held(r, client)
    BY <1>11, <2>1, RedrivenHeld
  <2>4. r.refused = g.refused
    BY <2>1 DEF Redriven, Beside, Fields
  <2> QED
    BY <1>11, <2>2, <2>3, <2>4
<1> QED
  BY <1>3, <1>6, <1>10, <1>11, <1>12, EventKeeps DEF Update

\* Asking for, and letting go of, what hovers.
LEMMA HoverKeeps ==
  EditorInv /\ (HoverQuery \/ HoverDismiss \/ GotoDefinition) => EditorInv'
<1> SUFFICES ASSUME EditorInv, HoverQuery \/ HoverDismiss \/ GotoDefinition PROVE EditorInv'
  OBVIOUS
<1> DEFINE s == [editor EXCEPT !.hover = FALSE, !.card = FALSE]
<1>1. Beside(editor, s, Loose) /\ s.refused = editor.refused
  BY DEF Beside, Loose, Fields, EditorInv, Kept, Sound, Shape
<1> HIDE DEF s
<1>2. Held(s, client)
  BY <1>1, LooseHeld, InvHeld
<1>3. ASSUME NEW d, Held(d, client), NEW ks \in SUBSET {"hover", "tooltip"}
      PROVE  Held(Abandon(d, ks), client) /\ Abandon(d, ks).refused = d.refused
  <2> DEFINE f == Abandon(d, ks)
  <2>1. Kept(d) /\ HintsWanted(d, client) /\ "inlays" \notin ks
    BY <1>3 DEF Held
  <2>2. Kept(f) /\ HintsWanted(f, client)
    BY <2>1, AbandonKept
  <2>3. Beside(d, f, {"awaiting", "pending", "gesture"})
    BY <2>1, AbandonFacts DEF Kept, Sound
  <2> HIDE DEF f
  <2>4. Held(f, client) /\ f.refused = d.refused
    BY <2>2, <2>3 DEF Held, Beside, Fields
  <2> QED
    BY <2>4 DEF f
<1>4. ASSUME NEW d, Held(d, client), NEW k \in {"hover", "definition"}
      PROVE  Held(Ask(d, k), client) /\ Ask(d, k).refused = d.refused
  <2> DEFINE f == Ask(d, k)
  <2>1. Redriven(d, f, k)
    BY <1>4, AskRedriven DEF Held, Kept, Sound, Asked
  <2> HIDE DEF f
  <2>2. Held(f, client)
    BY <1>4, <2>1, RedrivenHeld
  <2>3. f.refused = d.refused
    BY <2>1 DEF Redriven, Beside, Fields
  <2> QED
    BY <2>2, <2>3 DEF f
<1>5. CASE HoverQuery
  <2> DEFINE left == Abandon(s, {"tooltip"})
  <2>1. Held(left, client) /\ left.refused = editor.refused
    BY <1>1, <1>2, <1>3
  <2>2. Rarely(Ask(left, "hover")) \/ Rarely(Abandon(left, {"hover"}))
    BY <1>5 DEF HoverQuery, s
  <2> HIDE DEF left
  <2>3. Held(Ask(left, "hover"), client) /\ Ask(left, "hover").refused = editor.refused
    BY <1>4, <2>1
  <2>4. Held(Abandon(left, {"hover"}), client) /\ Abandon(left, {"hover"}).refused = editor.refused
    BY <1>3, <2>1
  <2> QED
    BY <2>2, <2>3, <2>4, EventKeeps DEF Rarely
<1>6. CASE HoverDismiss
  <2>1. Rarely(Abandon(s, {"hover", "tooltip"}))
    BY <1>6 DEF HoverDismiss, s
  <2>2. Held(Abandon(s, {"hover", "tooltip"}), client) /\ Abandon(s, {"hover", "tooltip"}).refused = editor.refused
    BY <1>1, <1>2, <1>3
  <2> QED
    BY <2>1, <2>2, EventKeeps DEF Rarely
<1>7. CASE GotoDefinition
  <2>1. Update(Ask(editor, "definition"))
    BY <1>7 DEF GotoDefinition
  <2>2. Held(Ask(editor, "definition"), client) /\ Ask(editor, "definition").refused = editor.refused
    BY <1>4, InvHeld
  <2> QED
    BY <2>1, <2>2, EventKeeps DEF Update
<1> QED
  BY <1>5, <1>6, <1>7

LEMMA UnawaitedKeep == EditorInv /\ (SubmitRename \/ Format) => EditorInv'
<1> SUFFICES ASSUME EditorInv, SubmitRename \/ Format PROVE EditorInv'
  OBVIOUS
<1>1. ASSUME NEW d, Held(d, client), d.refused = editor.refused, NEW k \in {"rename", "format"},
             Rarely(AskUnawaited(d, k))
      PROVE  EditorInv'
  BY <1>1, UnawaitedHeld, EventKeeps DEF Rarely
<1>2. CASE SubmitRename
  <2> DEFINE closed == [editor EXCEPT !.rename = 0]
  <2>1. Beside(editor, closed, Loose \ {"refused"}) /\ Beside(editor, closed, Loose)
        /\ closed.refused = editor.refused
    BY DEF Beside, Loose, Fields, EditorInv, Kept, Sound, Shape
  <2>2. Rarely(AskUnawaited(closed, "rename")) \/ Rarely(closed)
    BY <1>2 DEF SubmitRename
  <2> HIDE DEF closed
  <2>3. Held(closed, client)
    BY <2>1, LooseHeld, InvHeld
  <2> QED
    BY <1>1, <2>1, <2>2, <2>3, LooseKeeps DEF Rarely
<1>3. CASE Format
  BY <1>1, <1>3, InvHeld DEF Format
<1> QED
  BY <1>2, <1>3
----------------------------------------------------------------------------
(* The events of the hints, and opening and closing the document. *)

LEMMA WakeKeeps == EditorInv /\ Wake => EditorInv'
<1> SUFFICES ASSUME EditorInv, Wake PROVE EditorInv'
  OBVIOUS
<1> DEFINE a == Ask(editor, "inlays")
           f == [a EXCEPT !.wait = FALSE, !.window = editor.view]
<1>1. Update(f)
  BY DEF Wake
<1>2. Shape(editor) /\ editor.view \in Nat \ {0}
  BY DEF EditorInv, Kept, Sound, Shape, Counts
<1>3. /\ Shape(a)
      /\ Beside(editor, a, {"issued", "awaiting", "pending"})
      /\ a.awaiting["inlays"] = Stamped(editor) /\ a.pending["inlays"] = Stamped(editor)
      /\ \A j \in Kinds : j # "inlays" => a.awaiting[j] = editor.awaiting[j] /\ a.pending[j] = editor.pending[j]
  BY <1>2, AskFacts, "inlays" \in Asked DEF Asked
<1> HIDE DEF a
<1>4. Beside(a, f, {"wait", "window"}) /\ f.window = editor.view
  BY <1>3 DEF Beside, Shape, Fields
<1> HIDE DEF f
<1>5. Shape(f)
  BY <1>3, <1>4, ShapeKept, {"wait", "window"} \cap ShapeFields = {} DEF ShapeFields
<1>6. /\ f.rev = editor.rev /\ f.caret = editor.caret /\ f.strays = editor.strays /\ f.seen = editor.seen
      /\ f.misplaced = editor.misplaced /\ f.spelt = editor.spelt /\ f.shown = editor.shown
      /\ f.hints = editor.hints /\ f.redone = editor.redone /\ f.overtyped = editor.overtyped
      /\ f.refused = editor.refused /\ f.view = editor.view
      /\ f.awaiting = a.awaiting /\ f.pending = a.pending
  BY <1>3, <1>4 DEF Beside, Fields
<1>7. Fits(f, "completion") /\ Fits(f, "definition")
  BY <1>3, <1>6 DEF EditorInv, Kept, Fits, InPlace, Kinds
<1>8. Kept(f)
  BY <1>5, <1>6, <1>7 DEF EditorInv, Kept, Sound, HintsOnce
<1>9. f.view \in Inner(f.window)
  BY <1>2, <1>4, <1>6 DEF Inner
<1>10. HintsWanted(f, client)
  BY <1>2, <1>3, <1>4, <1>6, <1>9 DEF HintsWanted, Stamped
<1> QED
  BY <1>1, <1>6, <1>8, <1>10, EventKeeps DEF Update, Held

LEMMA GesturesKeep == EditorInv /\ (InlayHover \/ InlayJump \/ InlayInsert) => EditorInv'
<1> SUFFICES ASSUME EditorInv, InlayHover \/ InlayJump \/ InlayInsert PROVE EditorInv'
  OBVIOUS
<1>1. ASSUME NEW d, Held(d, client), d.refused = editor.refused, NEW k \in {"definition", "tooltip", "insert"},
             NEW what \in Gestures \ {"none"}, Update(Gesture(d, k, what))
      PROVE  EditorInv'
  BY <1>1, GestureHeld, EventKeeps DEF Update
<1>2. CASE InlayHover
  <2> DEFINE s == [editor EXCEPT !.hover = FALSE, !.card = FALSE]
             left == Abandon(s, {"hover", "tooltip"})
  <2>1. Beside(editor, s, Loose) /\ s.refused = editor.refused
    BY DEF Beside, Loose, Fields, EditorInv, Kept, Sound, Shape
  <2>2. Update(Gesture(left, "tooltip", "tooltip")) \/ Update(left)
    BY <1>2 DEF InlayHover
  <2> HIDE DEF s
  <2>3. Kept(s) /\ HintsWanted(s, client) /\ "inlays" \notin {"hover", "tooltip"}
    BY <2>1, LooseHeld, InvHeld DEF Held
  <2>4. Kept(left) /\ HintsWanted(left, client) /\ Beside(s, left, {"awaiting", "pending", "gesture"})
    BY <2>3, AbandonKept, AbandonFacts DEF Kept, Sound
  <2> HIDE DEF left
  <2>5. Held(left, client) /\ left.refused = editor.refused
    BY <2>1, <2>4 DEF Held, Beside, Fields
  <2>6. "tooltip" \in Gestures \ {"none"}
    BY DEF Gestures
  <2> QED
    BY <1>1, <2>2, <2>5, <2>6, EventKeeps DEF Update
<1>3. CASE InlayJump
  BY <1>1, <1>3, InvHeld, "jump" \in Gestures \ {"none"} DEF InlayJump, Gestures
<1>4. CASE InlayInsert
  BY <1>1, <1>4, InvHeld, "insert" \in Gestures \ {"none"} DEF InlayInsert, Gestures
<1> QED
  BY <1>2, <1>3, <1>4

\* What hints turned off and a document closed reset.
Cleared == {"popup", "gesture", "signature", "hover", "card", "rename", "enabled", "registered", "wait",
            "window", "hints", "shown"}

LEMMA HintsGone ==
  ASSUME NEW e, Kept(e), NEW ks, NEW f, Beside(Abandon(e, ks), f, Cleared),
         f.gesture = NoGesture, ~f.shown, f.hints = 0, ~(f.registered /\ f.enabled), NEW c
  PROVE  Held(f, c) /\ f.refused = e.refused
<1> DEFINE a == Abandon(e, ks)
<1>1. Kept(a) /\ Beside(e, a, {"awaiting", "pending", "gesture"}) /\ Beside(a, f, Cleared)
  BY AbandonKept, AbandonFacts DEF Kept, Sound
<1> HIDE DEF a
<1>2. /\ f.rev = a.rev /\ f.caret = a.caret /\ f.strays = a.strays /\ f.seen = a.seen
      /\ f.awaiting = a.awaiting /\ f.pending = a.pending /\ f.view = a.view
      /\ f.misplaced = a.misplaced /\ f.refused = a.refused /\ a.refused = e.refused /\ f.overtyped = a.overtyped
  BY <1>1 DEF Beside, Cleared, Fields
<1>3. Shape(a) /\ a.rev \in Nat /\ a.strays \in Nat /\ a.view \in Nat \ {0}
  BY <1>1 DEF Kept, Sound, Shape, Counts
<1>4. Cleared \cap {"issued", "awaiting", "pending"} = {}
  BY DEF Cleared
<1>5. Shape(f)
  BY <1>1, <1>2, <1>3, <1>4, ShapeMoved
<1> QED
  BY <1>1, <1>2, <1>5, HintsOnceAt DEF Held, Kept, Sound, Fits, InPlace, HintsWanted

LEMMA SetInlayHintsKeeps == EditorInv /\ SetInlayHints => EditorInv'
<1> SUFFICES ASSUME EditorInv, SetInlayHints PROVE EditorInv'
  OBVIOUS
<1>1. Shape(editor) /\ DOMAIN editor = Fields
  BY DEF EditorInv, Kept, Sound, Shape
<1>2. CASE ~editor.enabled
  <2> DEFINE d == [editor EXCEPT !.enabled = TRUE]
             f == Wait(d)
  <2>1. Rarely(f)
    BY <1>2 DEF SetInlayHints
  <2>2. Beside(editor, d, {"enabled"})
    BY <1>1 DEF Beside, Fields
  <2> HIDE DEF d
  <2>3. Shape(d)
    BY <1>1, <2>2, ShapeKept, {"enabled"} \cap ShapeFields = {} DEF ShapeFields
  <2>4. /\ d.rev = editor.rev /\ d.caret = editor.caret /\ d.strays = editor.strays /\ d.seen = editor.seen
        /\ d.awaiting = editor.awaiting /\ d.refused = editor.refused
        /\ d.misplaced = editor.misplaced /\ d.spelt = editor.spelt /\ d.shown = editor.shown
        /\ d.hints = editor.hints /\ d.redone = editor.redone /\ d.overtyped = editor.overtyped
    BY <2>2 DEF Beside, Fields
  <2>5. Kept(d)
    BY <2>3, <2>4 DEF EditorInv, Kept, Sound, HintsOnce, Fits, InPlace
  <2>6. Held(f, client) /\ Beside(d, f, {"wait"})
    BY <2>5, WaitHeld
  <2> HIDE DEF f
  <2>7. f.refused = editor.refused
    BY <2>4, <2>6 DEF Beside, Fields
  <2> QED
    BY <2>1, <2>6, <2>7, EventKeeps DEF Rarely
<1>3. CASE editor.enabled
  <2> DEFINE ks == {"inlays", "tooltip", "insert"}
             a == Abandon(editor, ks)
             f == [a EXCEPT !.enabled = FALSE, !.hints = 0, !.shown = FALSE, !.card = FALSE,
                            !.gesture = NoGesture, !.wait = FALSE, !.window = 0]
  <2>1. Rarely(f)
    BY <1>3 DEF SetInlayHints
  <2>2. DOMAIN a = Fields
    BY <1>1, AbandonFacts DEF Beside
  <2>3. a = Abandon(editor, ks)
    OBVIOUS
  <2> HIDE DEF a
  <2>4. Beside(a, f, Cleared) /\ f.gesture = NoGesture /\ ~f.shown /\ f.hints = 0 /\ ~f.enabled
    BY <2>2 DEF Beside, Cleared, Fields
  <2> HIDE DEF f, ks
  <2>5. Held(f, client) /\ f.refused = editor.refused
    BY <2>3, <2>4, HintsGone DEF EditorInv
  <2> QED
    BY <2>1, <2>5, EventKeeps DEF Rarely
<1> QED
  BY <1>2, <1>3

\* Registering an editor asks for the hints.
LEMMA OpenedHeld ==
  ASSUME NEW e, Kept(e), NEW c
  PROVE  Held(Opened(e), c) /\ Opened(e).refused = e.refused
<1> DEFINE d == [e EXCEPT !.registered = TRUE]
           f == Wait(d)
<1>1. Shape(e) /\ DOMAIN e = Fields
  BY DEF Kept, Sound, Shape
<1>2. Beside(e, d, {"registered"})
  BY <1>1 DEF Beside, Fields
<1>3. Opened(e) = f
  BY DEF Opened
<1> HIDE DEF d
<1>4. Shape(d)
  BY <1>1, <1>2, ShapeKept, {"registered"} \cap ShapeFields = {} DEF ShapeFields
<1>5. /\ d.rev = e.rev /\ d.caret = e.caret /\ d.strays = e.strays /\ d.seen = e.seen
      /\ d.awaiting = e.awaiting /\ d.refused = e.refused
      /\ d.misplaced = e.misplaced /\ d.spelt = e.spelt /\ d.shown = e.shown
      /\ d.hints = e.hints /\ d.redone = e.redone /\ d.overtyped = e.overtyped
  BY <1>2 DEF Beside, Fields
<1>6. Kept(d)
  BY <1>4, <1>5 DEF Kept, Sound, HintsOnce, Fits, InPlace
<1>7. Held(f, c) /\ Beside(d, f, {"wait"})
  BY <1>6, WaitHeld
<1> HIDE DEF f
<1> QED
  BY <1>3, <1>5, <1>7 DEF Beside, Fields

LEMMA NoClientShape ==
  ASSUME NEW r
  PROVE  ClientShape(NoClient) /\ ClientShape([NoClient EXCEPT !.synced = r])
BY DEF ClientShape, NoClient

LEMMA RegistrationKeeps == EditorInv /\ (OpenLsp \/ CloseLsp) => EditorInv'
<1> SUFFICES ASSUME EditorInv, OpenLsp \/ CloseLsp PROVE EditorInv'
  OBVIOUS
<1>1. CASE OpenLsp
  <2>1. editor' = Opened(editor) /\ ClientShape(client')
    BY <1>1, NoClientShape DEF OpenLsp
  <2>2. Held(Opened(editor), client') /\ Opened(editor).refused = editor.refused
    BY OpenedHeld DEF EditorInv
  <2> QED
    BY <2>1, <2>2 DEF EditorInv, Held
<1>2. CASE CloseLsp
  <2> DEFINE a == Abandon(editor, Kinds)
             f == [a EXCEPT
                    !.registered = FALSE, !.rename = 0, !.popup = NoPopup, !.signature = FALSE, !.hover = FALSE,
                    !.card = FALSE, !.gesture = NoGesture, !.wait = FALSE, !.window = 0, !.hints = 0,
                    !.shown = FALSE]
  <2>1. editor' = f /\ ClientShape(client')
    BY <1>2, NoClientShape DEF CloseLsp
  <2>2. DOMAIN a = Fields
    BY AbandonFacts DEF Beside, EditorInv, Kept, Sound
  <2>3. a = Abandon(editor, Kinds)
    OBVIOUS
  <2> HIDE DEF a
  <2>4. Beside(a, f, Cleared) /\ f.gesture = NoGesture /\ ~f.shown /\ f.hints = 0 /\ ~f.registered
    BY <2>2 DEF Beside, Cleared, Fields
  <2> HIDE DEF f
  <2>5. Held(f, client') /\ f.refused = editor.refused
    BY <2>3, <2>4, HintsGone DEF EditorInv
  <2> QED
    BY <2>1, <2>5 DEF EditorInv, Held
<1> QED
  BY <1>1, <1>2
----------------------------------------------------------------------------
(* Landing an answer. *)

\* What a landing that does not move the caret or change the text changes.
LandFields == {"popup", "signature", "hover", "card", "hints", "shown", "fetched", "misplaced",
               "awaiting", "pending", "gesture"}

\* r is e with an answer of kind k landed where the caret and the text stay.
Answering(e, k, r) ==
  /\ Kept(r) /\ Beside(e, r, LandFields)
  /\ \A j \in Kinds : j # k => r.awaiting[j] = e.awaiting[j] /\ r.pending[j] = e.pending[j]
  /\ \A j \in Kinds : r.pending[j] \in {e.pending[j], NoTicket}
  /\ r.gesture \in {e.gesture, NoGesture}
  /\ r.fetched = IF k = "inlays" THEN e.rev ELSE e.fetched

LEMMA AnsweringAbandoned ==
  ASSUME NEW e, Kept(e), NEW k \in Kinds \ {"inlays"}
  PROVE  Answering(e, k, Abandon(e, {k}))
<1> DEFINE r == Abandon(e, {k})
<1>1. /\ Kept(r) /\ Beside(e, r, {"awaiting", "pending", "gesture"})
      /\ \A j \in Kinds : r.awaiting[j] = IF j \in {k} THEN NoTicket ELSE e.awaiting[j]
      /\ \A j \in Kinds : r.pending[j] = IF j \in {k} THEN NoTicket ELSE e.pending[j]
      /\ r.gesture \in {e.gesture, NoGesture}
  BY AbandonKept, AbandonFacts DEF Kept, Sound
<1> HIDE DEF r
<1>2. Beside(e, r, LandFields) /\ r.fetched = e.fetched
  BY <1>1 DEF Beside, LandFields, Fields
<1>3. Answering(e, k, r)
  BY <1>1, <1>2 DEF Answering
<1> QED
  BY <1>3 DEF r

\* What is shown of an answer is loose.
LEMMA AnsweringShown ==
  ASSUME NEW e, NEW k, NEW a, Answering(e, k, a), NEW r,
         Beside(a, r, {"popup", "signature", "hover", "card"})
  PROVE  Answering(e, k, r)
<1>1. /\ r.rev = a.rev /\ r.caret = a.caret /\ r.strays = a.strays /\ r.seen = a.seen
      /\ r.awaiting = a.awaiting /\ r.pending = a.pending /\ r.gesture = a.gesture
      /\ r.misplaced = a.misplaced /\ r.spelt = a.spelt /\ r.shown = a.shown /\ r.fetched = a.fetched
      /\ r.hints = a.hints /\ r.redone = a.redone /\ r.overtyped = a.overtyped
  BY DEF Beside, Fields
<1>2. Shape(r)
  BY ShapeKept, {"popup", "signature", "hover", "card"} \cap ShapeFields = {}
  DEF ShapeFields, Answering, Kept, Sound
<1>3. Kept(r)
  BY <1>1, <1>2 DEF Answering, Kept, Sound, HintsOnce, Fits, InPlace
<1>4. Beside(e, r, LandFields)
  BY DEF Answering, Beside, LandFields
<1> QED
  BY <1>1, <1>3, <1>4 DEF Answering

\* So are hints that are gone.
LEMMA AnsweringHidden ==
  ASSUME NEW e, NEW k, NEW a, Answering(e, k, a), NEW r, Beside(a, r, {"shown"}), r.shown => a.shown
  PROVE  Answering(e, k, r)
<1>1. /\ r.rev = a.rev /\ r.caret = a.caret /\ r.strays = a.strays /\ r.seen = a.seen
      /\ r.awaiting = a.awaiting /\ r.pending = a.pending /\ r.gesture = a.gesture
      /\ r.misplaced = a.misplaced /\ r.spelt = a.spelt /\ r.fetched = a.fetched
      /\ r.hints = a.hints /\ r.redone = a.redone /\ r.overtyped = a.overtyped
  BY DEF Beside, Fields
<1>2. Shape(r)
  BY ShapeKept, {"shown"} \cap ShapeFields = {} DEF ShapeFields, Answering, Kept, Sound
<1>3. Kept(r)
  BY <1>1, <1>2 DEF Answering, Kept, Sound, HintsOnce, Fits, InPlace
<1>4. Beside(e, r, LandFields)
  BY DEF Answering, Beside, LandFields
<1> QED
  BY <1>1, <1>3, <1>4 DEF Answering

LEMMA StillAnswering ==
  ASSUME NEW e, Kept(e), NEW k \in Kinds \ {"inlays"}
  PROVE  Answering(e, k, e)
BY DEF Answering, Beside, Kept, Sound, Shape

\* What is awaited at this revision is in place, but for the one exception.
LEMMA PlacedWell ==
  ASSUME NEW e, Kept(e), NEW k \in {"completion", "definition"}, NEW ticket, Accepts(e, k, ticket),
         NEW placed, InPlace(e, ticket) \/ (k = "definition" /\ ticket = e.overtyped) => placed,
         NEW m, m = [e EXCEPT !.misplaced = @ \/ ~placed]
  PROVE  Kept(m) /\ Beside(e, m, {"misplaced"})
<1>1. placed
  BY DEF Accepts, Kept, Fits
<1>2. Beside(e, m, {"misplaced"}) /\ ~m.misplaced
  BY <1>1 DEF Beside, Kept, Sound, Shape, Fields
<1>3. /\ m.rev = e.rev /\ m.caret = e.caret /\ m.strays = e.strays /\ m.seen = e.seen
      /\ m.awaiting = e.awaiting /\ m.spelt = e.spelt /\ m.shown = e.shown
      /\ m.hints = e.hints /\ m.redone = e.redone /\ m.overtyped = e.overtyped
  BY <1>2 DEF Beside, Fields
<1>4. Shape(m)
  BY <1>2, ShapeKept, {"misplaced"} \cap ShapeFields = {} DEF ShapeFields, Kept, Sound
<1> QED
  BY <1>2, <1>3, <1>4 DEF Kept, Sound, HintsOnce, Fits, InPlace

LEMMA CompletionLands ==
  ASSUME NEW e, Kept(e), NEW ticket, Accepts(e, "completion", ticket), NEW some, NEW p
  PROVE  Answering(e, "completion", Land(e, "completion", ticket, some, p))
<1> DEFINE m == [e EXCEPT !.misplaced = @ \/ ~InPlace(e, ticket)]
           r == SetItems(m, some)
<1>1. Land(e, "completion", ticket, some, p) = r
  BY DEF Land, LandCompletion
<1>2. Kept(m) /\ Beside(e, m, {"misplaced"})
  BY PlacedWell
<1> HIDE DEF m
<1>3. Beside(m, r, {"popup"})
  BY <1>2 DEF SetItems, Beside, Fields
<1>4. Answering(e, "completion", m)
  <2>1. /\ m.awaiting = e.awaiting /\ m.pending = e.pending /\ m.gesture = e.gesture /\ m.fetched = e.fetched
    BY <1>2 DEF Beside, Fields
  <2>2. Beside(e, m, LandFields)
    BY <1>2 DEF Beside, LandFields
  <2> QED
    BY <1>2, <2>1, <2>2 DEF Answering
<1>5. Beside(m, r, {"popup", "signature", "hover", "card"})
  BY <1>3 DEF Beside
<1> HIDE DEF r
<1>6. Answering(e, "completion", r)
  BY <1>4, <1>5, AnsweringShown
<1> QED
  BY <1>1, <1>6

LEMMA BoxLands ==
  ASSUME NEW e, Kept(e), NEW k \in {"signature", "hover"}, NEW ticket, Accepts(e, k, ticket),
         NEW some, NEW p
  PROVE  Answering(e, k, Land(e, k, ticket, some, p))
<1> DEFINE a == IF some THEN e ELSE Abandon(e, {k})
           r == [a EXCEPT ![k] = some]
<1>1. Land(e, k, ticket, some, p) = r
  BY DEF Land, LandBox
<1>2. k \in Kinds \ {"inlays"}
  BY DEF Kinds
<1>3. Answering(e, k, a)
  BY <1>2, StillAnswering, AnsweringAbandoned
<1> HIDE DEF a
<1>4. Beside(a, r, {"popup", "signature", "hover", "card"})
  BY <1>3 DEF Answering, Beside, Fields
<1> HIDE DEF r
<1>5. Answering(e, k, r)
  BY <1>3, <1>4, AnsweringShown
<1> QED
  BY <1>1, <1>5

LEMMA NoDefinitionLands ==
  ASSUME NEW e, Kept(e), NEW ticket, Accepts(e, "definition", ticket), NEW some, ~some, NEW p
  PROVE  Answering(e, "definition", Land(e, "definition", ticket, some, p))
<1> DEFINE placed == InPlace(e, ticket) \/ ticket = e.overtyped
           m == [e EXCEPT !.misplaced = @ \/ ~placed]
           r == Abandon(m, {"definition"})
<1>1. Land(e, "definition", ticket, some, p) = r
  BY DEF Land, LandDefinition
<1>2. Kept(m) /\ Beside(e, m, {"misplaced"})
  BY PlacedWell
<1> HIDE DEF m
<1>3. Answering(m, "definition", r)
  BY <1>2, AnsweringAbandoned, "definition" \in Kinds \ {"inlays"} DEF Kinds
<1> HIDE DEF r
<1>4. /\ m.awaiting = e.awaiting /\ m.pending = e.pending /\ m.gesture = e.gesture /\ m.fetched = e.fetched
  BY <1>2 DEF Beside, Fields
<1>5. Beside(e, r, LandFields)
  BY <1>2, <1>3 DEF Answering, Beside, LandFields
<1>6. Answering(e, "definition", r)
  BY <1>3, <1>4, <1>5 DEF Answering
<1> QED
  BY <1>1, <1>6

LEMMA InlaysLand ==
  ASSUME NEW e, Kept(e), NEW ticket, Accepts(e, "inlays", ticket), NEW some, NEW p
  PROVE  Answering(e, "inlays", Land(e, "inlays", ticket, some, p))
<1> DEFINE a == Abandon(e, {"inlays"})
           done == [a EXCEPT !.fetched = e.rev]
           r == IF some THEN [done EXCEPT !.card = @ /\ ~e.spelt, !.hints = e.rev, !.shown = ~e.spelt] ELSE done
<1>1. Land(e, "inlays", ticket, some, p) = r
  BY DEF Land, LandInlays
<1>2. /\ Kept(a) /\ Beside(e, a, {"awaiting", "pending", "gesture"})
      /\ \A j \in Kinds : a.awaiting[j] = IF j \in {"inlays"} THEN NoTicket ELSE e.awaiting[j]
      /\ \A j \in Kinds : a.pending[j] = IF j \in {"inlays"} THEN NoTicket ELSE e.pending[j]
      /\ a.gesture \in {e.gesture, NoGesture}
  BY AbandonKept, AbandonFacts DEF Kept, Sound
<1> HIDE DEF a
<1>3. a.spelt = e.spelt /\ a.rev = e.rev
  BY <1>2 DEF Beside, Fields
<1>4. /\ Beside(a, r, {"fetched", "card", "hints", "shown"}) /\ r.fetched = e.rev
      /\ \/ r.shown = a.shown /\ r.hints = a.hints
         \/ ~(r.shown /\ e.spelt) /\ r.hints = e.rev
  BY <1>2 DEF Beside, Fields
<1> HIDE DEF r
<1>5. /\ r.rev = a.rev /\ r.caret = a.caret /\ r.strays = a.strays /\ r.seen = a.seen
      /\ r.awaiting = a.awaiting /\ r.pending = a.pending /\ r.gesture = a.gesture
      /\ r.misplaced = a.misplaced /\ r.spelt = a.spelt /\ r.redone = a.redone /\ r.overtyped = a.overtyped
  BY <1>4 DEF Beside, Fields
<1>6. Shape(r)
  BY <1>2, <1>4, ShapeKept, {"fetched", "card", "hints", "shown"} \cap ShapeFields = {}
  DEF ShapeFields, Kept, Sound
<1>7. Kept(r)
  <2>1. HintsOnce(r)
    <3>1. CASE r.shown = a.shown /\ r.hints = a.hints
      BY <1>2, <1>5, <3>1 DEF Kept, Sound, HintsOnce
    <3>2. CASE ~(r.shown /\ e.spelt) /\ r.hints = e.rev
      BY <1>3, <1>5, <1>6, <3>2, HintsOnceAt
    <3> QED
      BY <1>4, <3>1, <3>2
  <2> QED
    BY <1>2, <1>4, <1>5, <1>6, <2>1 DEF Kept, Sound, Fits, InPlace
<1>8. Beside(e, r, LandFields)
  BY <1>2, <1>4 DEF Beside, LandFields
<1>9. Answering(e, "inlays", r)
  BY <1>2, <1>4, <1>5, <1>7, <1>8 DEF Answering
<1> QED
  BY <1>1, <1>9

LEMMA TooltipLands ==
  ASSUME NEW e, Kept(e), NEW ticket, Accepts(e, "tooltip", ticket), NEW some, NEW p
  PROVE  Answering(e, "tooltip", Land(e, "tooltip", ticket, some, p))
<1> DEFINE a == Abandon(e, {"tooltip"})
           r == [a EXCEPT !.card = some, !.hover = @ /\ ~some]
<1>1. Land(e, "tooltip", ticket, some, p) = r
  BY DEF Land, LandTooltip
<1>2. Answering(e, "tooltip", a)
  BY AnsweringAbandoned, "tooltip" \in Kinds \ {"inlays"} DEF Kinds
<1> HIDE DEF a
<1>3. Beside(a, r, {"popup", "signature", "hover", "card"})
  BY <1>2 DEF Answering, Beside, Fields
<1> HIDE DEF r
<1>4. Answering(e, "tooltip", r)
  BY <1>2, <1>3, AnsweringShown
<1> QED
  BY <1>1, <1>4

LEMMA AnsweringLanded ==
  ASSUME NEW e, NEW c, Held(e, c), NEW k \in Kinds, NEW r, Answering(e, k, r)
  PROVE  Landed(e, c, r) /\ r.refused = e.refused
<1>1. /\ r.rev = e.rev /\ r.registered = e.registered /\ r.enabled = e.enabled /\ r.wait = e.wait
      /\ r.window = e.window /\ r.view = e.view /\ r.refused = e.refused
  BY DEF Answering, Beside, LandFields, Fields
<1>2. "inlays" \in Kinds
  BY DEF Kinds
<1>3. HintsWanted(r, c)
  <2>1. CASE k = "inlays"
    BY <1>1, <2>1 DEF Answering, HintsWanted, Held
  <2>2. CASE k # "inlays"
    <3>1. /\ r.awaiting["inlays"] = e.awaiting["inlays"] /\ r.fetched = e.fetched
          /\ r.pending["inlays"] = e.pending["inlays"]
      BY <1>2, <2>2 DEF Answering
    <3> QED
      BY <1>1, <3>1 DEF HintsWanted, Held
  <2> QED
    BY <2>1, <2>2
<1> QED
  BY <1>1, <1>3 DEF Answering, Landed, Held

LEMMA DefinitionLands ==
  ASSUME NEW e, NEW c, Held(e, c), NEW ticket, Accepts(e, "definition", ticket), NEW some, NEW p
  PROVE  /\ Landed(e, c, Land(e, "definition", ticket, some, p))
         /\ Land(e, "definition", ticket, some, p).refused = e.refused
<1>0. Kept(e) /\ "definition" \in Kinds
  BY DEF Held, Kinds
<1>1. CASE ~some
  <2>1. Answering(e, "definition", Land(e, "definition", ticket, some, p))
    BY <1>0, <1>1, NoDefinitionLands
  <2> QED
    BY <1>0, <2>1, AnsweringLanded
<1>2. CASE some
  <2> DEFINE placed == InPlace(e, ticket) \/ ticket = e.overtyped
             m == [e EXCEPT !.misplaced = @ \/ ~placed]
             done == Abandon(m, {"definition"})
             r == Select(done, p, FALSE)
  <2>1. Land(e, "definition", ticket, some, p) = r
    BY <1>2 DEF Land, LandDefinition
  <2>2. Kept(m) /\ Beside(e, m, {"misplaced"})
    BY <1>0, PlacedWell
  <2>3. done = Abandon(m, {"definition"}) /\ r = Select(done, p, FALSE)
    OBVIOUS
  <2> HIDE DEF m
  <2>4. /\ m.awaiting = e.awaiting /\ m.pending = e.pending /\ m.gesture = e.gesture /\ m.rev = e.rev
        /\ m.registered = e.registered /\ m.enabled = e.enabled /\ m.wait = e.wait /\ m.window = e.window
        /\ m.view = e.view /\ m.fetched = e.fetched /\ m.refused = e.refused
    BY <2>2 DEF Beside, Fields
  <2>5. HintsWanted(m, c)
    BY <2>4 DEF Held, HintsWanted
  <2>6. /\ Kept(done) /\ HintsWanted(done, c)
        /\ Beside(m, done, {"awaiting", "pending", "gesture"})
        /\ \A j \in Kinds : done.pending[j] = IF j \in {"definition"} THEN NoTicket ELSE m.pending[j]
        /\ done.gesture \in {m.gesture, NoGesture}
    BY <2>2, <2>3, <2>5, AbandonKept, AbandonFacts, "inlays" \notin {"definition"} DEF Kept, Sound
  <2> HIDE DEF done
  <2>7. Landed(done, c, r) /\ r.refused = done.refused
    <3>1. Held(done, c)
      BY <2>6 DEF Held
    <3>2. Landed(done, c, Select(done, p, FALSE)) /\ Select(done, p, FALSE).refused = done.refused
      BY <3>1, SelectHeld
    <3> QED
      BY <3>2
  <2> HIDE DEF r
  <2>8. done.refused = m.refused /\ done.registered = m.registered
    BY <2>6 DEF Beside, Fields
  <2>9. Landed(e, c, r) /\ r.refused = e.refused
    BY <2>4, <2>6, <2>7, <2>8 DEF Landed, Kinds
  <2> QED
    BY <2>1, <2>9
<1> QED
  BY <1>1, <1>2

LEMMA InsertLands ==
  ASSUME NEW e, NEW c, Held(e, c), NEW ticket, Accepts(e, "insert", ticket), NEW some, NEW p
  PROVE  /\ Landed(e, c, Land(e, "insert", ticket, some, p))
         /\ Land(e, "insert", ticket, some, p).refused = e.refused
<1>0. Kept(e) /\ "insert" \in Kinds \ {"inlays"} /\ Shape(e)
  BY DEF Held, Kinds, Kept, Sound
<1>1. CASE ~some
  <2>1. Land(e, "insert", ticket, some, p) = Abandon(e, {"insert"})
    BY <1>1 DEF Land, LandInsert
  <2>2. Answering(e, "insert", Abandon(e, {"insert"}))
    BY <1>0, AnsweringAbandoned
  <2> QED
    BY <1>0, <2>1, <2>2, AnsweringLanded
<1>2. CASE some
  <2> DEFINE d == [e EXCEPT !.awaiting["insert"] = NoTicket, !.shown = FALSE, !.spelt = TRUE]
             r == Changed(d, FALSE)
  <2>1. Land(e, "insert", ticket, some, p) = r
    BY <1>2 DEF Land, LandInsert
  <2>2. /\ Beside(e, d, {"awaiting", "shown", "spelt"}) /\ ~d.shown
        /\ DOMAIN d.awaiting = Kinds /\ d.awaiting["insert"] = NoTicket
        /\ \A j \in Kinds : j # "insert" => d.awaiting[j] = e.awaiting[j]
    BY <1>0 DEF Beside, Shape, Slots, Fields
  <2> HIDE DEF d
  <2>3. /\ d.rev = e.rev /\ d.caret = e.caret /\ d.strays = e.strays /\ d.seen = e.seen /\ d.issued = e.issued
        /\ d.view = e.view /\ d.pending = e.pending /\ d.gesture = e.gesture
        /\ d.misplaced = e.misplaced /\ d.refused = e.refused /\ d.registered = e.registered
        /\ d.hints = e.hints /\ d.redone = e.redone /\ d.overtyped = e.overtyped
    BY <2>2 DEF Beside, Fields
  <2>4. Counts(d) /\ \A t : Mine(e, t) => Mine(d, t)
    BY <1>0, <2>3 DEF Shape, Counts, Mine
  <2>5. Mine(d, NoTicket)
    BY <2>4 DEF Mine, NoTicket, Counts
  <2>6. Slots(d)
    <3>1. Slots(e) /\ Asked \subseteq Kinds \ {"insert"}
      BY <1>0 DEF Shape, Asked, Kinds
    <3>2. \A k \in Kinds : Mine(d, d.awaiting[k]) /\ Mine(d, d.pending[k])
      BY <2>2, <2>3, <2>4, <2>5, <3>1 DEF Slots
    <3>3. \A k \in Asked : d.pending[k] \in {NoTicket, d.awaiting[k]}
      BY <2>2, <2>3, <3>1 DEF Slots
    <3> QED
      BY <2>2, <2>3, <3>1, <3>2, <3>3 DEF Slots
  <2>7. GestureApart(d)
    BY <1>0, <2>3, <2>4 DEF GestureApart, Shape
  <2>8. Shape(d)
    BY <2>2, <2>4, <2>6, <2>7 DEF Shape, Beside
  <2>9. Kept(d)
    BY <1>0, <2>2, <2>3, <2>8 DEF Kept, Sound, HintsOnce, Fits, InPlace, Kinds
  <2>10. Landed(d, c, r) /\ r.refused = d.refused
    BY <2>9, ChangedHeld
  <2> HIDE DEF r
  <2>11. Landed(e, c, r) /\ r.refused = e.refused
    BY <2>3, <2>10 DEF Landed
  <2> QED
    BY <2>1, <2>11
<1> QED
  BY <1>1, <1>2

\* A refusal changes nothing but what is told of it.
LEMMA RefusedLanded ==
  ASSUME NEW e, NEW c, Held(e, c)
  PROVE  Landed(e, c, Refused(e))
<1> DEFINE r == Refused(e)
<1>1. Beside(e, r, {"refused"})
  BY DEF Beside, Refused, Held, Kept, Sound, Shape, Fields
<1> HIDE DEF r
<1>2. Beside(e, r, Loose) /\ r.registered = e.registered /\ r.gesture = e.gesture /\ r.pending = e.pending
  BY <1>1 DEF Beside, Loose, Fields
<1>3. Held(r, c)
  BY <1>2, LooseHeld
<1>4. Landed(e, c, r)
  BY <1>2, <1>3 DEF Landed
<1> QED
  BY <1>4 DEF r

\* An answer that is accepted lands, and is not refused.
LEMMA AcceptedLands ==
  ASSUME NEW e, NEW c, Held(e, c), NEW k \in Answered, NEW ticket, Accepts(e, k, ticket), NEW some, NEW p
  PROVE  /\ Landed(e, c, Land(e, k, ticket, some, p))
         /\ Land(e, k, ticket, some, p).refused = e.refused
<1>1. k \in {"completion", "signature", "hover", "definition", "inlays", "tooltip", "insert"} /\ Kept(e)
  BY DEF Answered, Kinds, Held
<1>2. CASE k \in {"definition", "insert"}
  BY <1>2, DefinitionLands, InsertLands
<1>3. CASE k \in {"completion", "signature", "hover", "inlays", "tooltip"}
  <2>1. Answering(e, k, Land(e, k, ticket, some, p)) /\ k \in Kinds
    BY <1>1, <1>3, CompletionLands, BoxLands, InlaysLand, TooltipLands DEF Kinds
  <2> QED
    BY <2>1, AnsweringLanded
<1> QED
  BY <1>1, <1>2, <1>3

\* Whatever the server answers lands, or is refused.
LEMMA AnyLands ==
  ASSUME NEW e, NEW c, Held(e, c), NEW k \in Kinds, NEW ticket, NEW some, NEW p
  PROVE  Landed(e, c, Land(e, k, ticket, some, p))
<1>1. CASE k \in {"rename", "format"}
  <2>1. Land(e, k, ticket, some, p) \in {Changed(e, FALSE), Refused(e)}
    BY <1>1 DEF Land, LandEdits
  <2>2. Landed(e, c, Changed(e, FALSE))
    BY ChangedHeld DEF Held
  <2> QED
    BY <2>1, <2>2, RefusedLanded
<1>2. CASE k \notin {"rename", "format"} /\ ~Accepts(e, k, ticket)
  <2>1. Land(e, k, ticket, some, p) = Refused(e)
    BY <1>2 DEF Land
  <2> QED
    BY <2>1, RefusedLanded
<1>3. CASE k \notin {"rename", "format"} /\ Accepts(e, k, ticket)
  BY <1>3, AcceptedLands DEF Answered
<1> QED
  BY <1>1, <1>2, <1>3
----------------------------------------------------------------------------
(* The sync. *)

\* so is e during a pass, once the kinds of done have landed of those the
\* client answers by itself.
Passing(e, so, local, done) ==
  /\ Kept(so) /\ Beside(e, so, LandFields)
  /\ \A j \in Kinds : ~(j \in local /\ j \in done) => so.awaiting[j] = e.awaiting[j]
  /\ \A j \in Kinds : so.pending[j] = NoTicket
  /\ so.gesture = NoGesture /\ so.refused = e.refused
  /\ so.fetched \in {e.fetched, e.rev}
  /\ "inlays" \in local /\ "inlays" \in done => so.fetched = e.rev

LEMMA PassStarts ==
  ASSUME NEW e, Kept(e), NEW local,
         NEW so, so = [e EXCEPT !.pending = [k \in Kinds |-> NoTicket], !.gesture = NoGesture]
  PROVE  Passing(e, so, local, {})
<1>1. Shape(e)
  BY DEF Kept, Sound
<1>2. /\ Beside(e, so, {"pending", "gesture"}) /\ so.gesture = NoGesture
      /\ DOMAIN so.pending = Kinds /\ \A j \in Kinds : so.pending[j] = NoTicket
  BY <1>1 DEF Beside, Shape, Fields
<1>3. /\ so.rev = e.rev /\ so.caret = e.caret /\ so.strays = e.strays /\ so.seen = e.seen
      /\ so.issued = e.issued /\ so.view = e.view /\ so.awaiting = e.awaiting
      /\ so.misplaced = e.misplaced /\ so.spelt = e.spelt /\ so.shown = e.shown /\ so.fetched = e.fetched
      /\ so.hints = e.hints /\ so.redone = e.redone /\ so.overtyped = e.overtyped
      /\ so.refused = e.refused
  BY <1>2 DEF Beside, Fields
<1>4. Counts(so) /\ \A t : Mine(e, t) => Mine(so, t)
  BY <1>1, <1>3 DEF Shape, Counts, Mine
<1>5. Mine(so, NoTicket)
  BY <1>4 DEF Mine, NoTicket, Counts
<1>6. Slots(so)
  <2>1. Slots(e) /\ Asked \subseteq Kinds /\ {"tooltip", "insert"} \subseteq Kinds
    BY <1>1 DEF Shape, Asked, Kinds
  <2> QED
    BY <1>2, <1>3, <1>4, <1>5, <2>1 DEF Slots
<1>7. GestureApart(so)
  BY <1>2, <1>5 DEF GestureApart, NoGesture, Gestures
<1>8. Shape(so)
  BY <1>2, <1>4, <1>6, <1>7 DEF Shape, Beside
<1>9. Kept(so)
  BY <1>3, <1>8 DEF Kept, Sound, HintsOnce, Fits, InPlace
<1>10. Beside(e, so, LandFields)
  BY <1>2 DEF Beside, LandFields
<1> QED
  BY <1>2, <1>3, <1>9, <1>10 DEF Passing

\* Nothing landed before it makes an answer of the client's own too late.
LEMMA PassGoesOn ==
  ASSUME NEW e, Kept(e), NEW choice \in Outcomes(e), NEW done, NEW k \in Asked, k \notin done,
         NEW so, Passing(e, so, choice.local, done)
  PROVE  Passing(e, LandOwn(so, k, e, choice), choice.local, done \cup {k})
<1> DEFINE r == LandOwn(so, k, e, choice)
<1>1. CASE k \notin choice.local
  <2>1. r = so
    BY <1>1 DEF LandOwn
  <2> HIDE DEF r
  <2>2. Passing(e, r, choice.local, done \cup {k})
    BY <1>1, <2>1 DEF Passing
  <2> QED
    BY <2>2 DEF r
<1>2. CASE k \in choice.local
  <2> DEFINE ticket == e.pending[k]
             some == k = "inlays" \/ (k = "completion" /\ choice.items)
             l == Land(so, k, ticket, some, so.caret)
  <2>1. k \in Kinds /\ k \in Answerable(e)
    BY <1>2 DEF Outcomes, Asked, Kinds
  <2>2. ticket # NoTicket /\ ticket.rev = e.rev
    BY <2>1 DEF Answerable, Recorded
  <2>3. ticket = e.awaiting[k]
    BY <2>2 DEF Kept, Sound, Shape, Slots
  <2>4. so.awaiting[k] = e.awaiting[k] /\ so.rev = e.rev
    BY <2>1 DEF Passing, Beside, LandFields, Fields
  <2>5. Accepts(so, k, ticket) /\ Kept(so)
    BY <2>2, <2>3, <2>4 DEF Accepts, Passing
  <2>6. l = Land(so, k, ticket, some, so.caret) /\ r = [l EXCEPT !.shown = @ /\ k # "inlays"]
    BY <1>2 DEF LandOwn
  <2>7. k = "definition" => ~some
    OBVIOUS
  <2> HIDE DEF ticket, some, l, r
  <2>8. Answering(so, k, r)
    <3>1. ASSUME k = "completion" PROVE Answering(so, k, l)
      BY <2>5, <2>6, <3>1, CompletionLands
    <3>2. ASSUME k \in {"signature", "hover"} PROVE Answering(so, k, l)
      BY <2>5, <2>6, <3>2, BoxLands
    <3>3. ASSUME k = "definition" PROVE Answering(so, k, l)
      BY <2>5, <2>6, <2>7, <3>3, NoDefinitionLands
    <3>4. ASSUME k = "inlays" PROVE Answering(so, k, l)
      BY <2>5, <2>6, <3>4, InlaysLand
    <3>5. Answering(so, k, l)
      BY <3>1, <3>2, <3>3, <3>4 DEF Asked
    <3>6. Beside(l, r, {"shown"}) /\ (r.shown => l.shown)
      BY <2>6, <3>5 DEF Answering, Beside, Fields
    <3> QED
      BY <3>5, <3>6, AnsweringHidden
  <2>9. r.refused = so.refused /\ Beside(e, r, LandFields)
    BY <2>8 DEF Answering, Passing, Beside, LandFields, Fields
  <2>10. \A j \in Kinds : ~(j \in choice.local /\ j \in done \cup {k}) => r.awaiting[j] = e.awaiting[j]
    BY <1>2, <2>8 DEF Answering, Passing
  <2>11. \A j \in Kinds : r.pending[j] = NoTicket
    BY <2>8 DEF Answering, Passing
  <2>12. /\ r.fetched \in {e.fetched, e.rev}
         /\ "inlays" \in choice.local /\ "inlays" \in done \cup {k} => r.fetched = e.rev
    BY <2>4, <2>8 DEF Answering, Passing
  <2>13. Passing(e, r, choice.local, done \cup {k})
    BY <2>8, <2>9, <2>10, <2>11, <2>12 DEF Answering, Passing
  <2> QED
    BY <2>13 DEF r
<1> QED
  BY <1>1, <1>2

LEMMA LocalLands ==
  ASSUME NEW e, Kept(e), NEW choice \in Outcomes(e),
         NEW so, Passing(e, so, choice.local, {})
  PROVE  Passing(e, LandLocal(so, e, choice), choice.local, Asked)
<1> DEFINE s1 == LandOwn(so, "completion", e, choice)
           s2 == LandOwn(s1, "signature", e, choice)
           s3 == LandOwn(s2, "hover", e, choice)
           s4 == LandOwn(s3, "definition", e, choice)
           s5 == LandOwn(s4, "inlays", e, choice)
           d0 == {}
           d1 == d0 \cup {"completion"}
           d2 == d1 \cup {"signature"}
           d3 == d2 \cup {"hover"}
           d4 == d3 \cup {"definition"}
           d5 == d4 \cup {"inlays"}
<1>1. LandLocal(so, e, choice) = s5 /\ d5 = Asked
  BY DEF LandLocal, Asked
<1>2. /\ "completion" \notin d0 /\ "signature" \notin d1 /\ "hover" \notin d2
      /\ "definition" \notin d3 /\ "inlays" \notin d4
  OBVIOUS
<1>3. Passing(e, so, choice.local, d0)
  OBVIOUS
<1>4. ASSUME NEW k \in Asked, NEW done, k \notin done, NEW x, Passing(e, x, choice.local, done)
      PROVE  Passing(e, LandOwn(x, k, e, choice), choice.local, done \cup {k})
  BY <1>4, PassGoesOn
<1> HIDE DEF s1, s2, s3, s4, s5, d0, d1, d2, d3, d4, d5
<1>5. Passing(e, s1, choice.local, d1)
  BY <1>2, <1>3, <1>4, "completion" \in Asked DEF Asked, s1, d1
<1>6. Passing(e, s2, choice.local, d2)
  BY <1>2, <1>4, <1>5, "signature" \in Asked DEF Asked, s2, d2
<1>7. Passing(e, s3, choice.local, d3)
  BY <1>2, <1>4, <1>6, "hover" \in Asked DEF Asked, s3, d3
<1>8. Passing(e, s4, choice.local, d4)
  BY <1>2, <1>4, <1>7, "definition" \in Asked DEF Asked, s4, d4
<1>9. Passing(e, s5, choice.local, d5)
  BY <1>2, <1>4, <1>8, "inlays" \in Asked DEF Asked, s5, d5
<1> QED
  BY <1>1, <1>9

\* What a pass sends is asked for; the hints are on their way.
LEMMA PassHeld ==
  ASSUME NEW e, NEW c, Held(e, c), ClientShape(c), NEW choice \in Outcomes(e),
         NEW so, Passing(e, so, choice.local, Asked),
         NEW d, d = [synced |-> e.rev,
                     asked |-> [k \in Kinds |-> IF k \in Sent(e, choice)
                                                THEN IF e.pending[k] = NoTicket THEN e.gesture.ticket ELSE e.pending[k]
                                                ELSE c.asked[k]]]
  PROVE  Held(so, d)
<1>1. /\ so.rev = e.rev /\ so.registered = e.registered /\ so.enabled = e.enabled /\ so.wait = e.wait
      /\ so.window = e.window /\ so.view = e.view
  BY DEF Passing, Beside, LandFields, Fields
<1>2. "inlays" \in Kinds /\ "inlays" \in Asked
  BY DEF Kinds, Asked
<1>3. d.asked["inlays"] = IF "inlays" \in Sent(e, choice)
                          THEN IF e.pending["inlays"] = NoTicket THEN e.gesture.ticket ELSE e.pending["inlays"]
                          ELSE c.asked["inlays"]
  BY <1>2
<1>4. "inlays" \notin GestureKind(e)
  BY DEF GestureKind, Held, Kept, Sound, Shape, GestureApart, Gestures
<1>5. "inlays" \in Sent(e, choice) <=> "inlays" \in Answerable(e) /\ "inlays" \notin choice.local
  BY <1>4 DEF Sent
<1>6. "inlays" \in Answerable(e) <=> e.pending["inlays"] # NoTicket /\ e.pending["inlays"].rev = e.rev
  BY <1>2 DEF Answerable, Recorded
<1>7. e.pending["inlays"] \in {NoTicket, e.awaiting["inlays"]} /\ e.rev # NoTicket.rev
  BY <1>2 DEF Held, Kept, Sound, Shape, Slots, Counts, NoTicket
<1>8. ASSUME e.awaiting["inlays"].rev = e.rev, e.awaiting["inlays"] \in {e.pending["inlays"], c.asked["inlays"]},
             "inlays" \notin choice.local
      PROVE  so.awaiting["inlays"] = e.awaiting["inlays"] /\ so.awaiting["inlays"] = d.asked["inlays"]
  <2>1. so.awaiting["inlays"] = e.awaiting["inlays"]
    BY <1>2, <1>8 DEF Passing
  <2>2. CASE e.pending["inlays"] = NoTicket
    BY <1>3, <1>5, <1>6, <1>7, <1>8, <2>1, <2>2
  <2>3. CASE e.pending["inlays"] # NoTicket
    BY <1>3, <1>5, <1>6, <1>7, <1>8, <2>1, <2>3
  <2> QED
    BY <2>2, <2>3
<1>9. "inlays" \in choice.local => so.fetched = e.rev
  BY <1>2 DEF Passing
<1>10. so.fetched \in {e.fetched, e.rev} /\ Kept(so)
  BY DEF Passing
<1>11. HintsWanted(so, d)
  BY <1>1, <1>8, <1>9, <1>10 DEF Held, HintsWanted
<1> QED
  BY <1>10, <1>11 DEF Held

\* What a pass makes of an editor and its client: r, d.
Passed(e, r, d) ==
  /\ Held(r, d) /\ ~r.refused /\ ClientShape(d) /\ d.synced = e.rev
  /\ r.registered = e.registered /\ r.gesture = NoGesture
  /\ Recorded(r) \subseteq {"signature"}
  /\ e.gesture.what = "none" => r.rev = e.rev

LEMMA GestureLands ==
  ASSUME NEW e, Kept(e), ~e.refused, NEW choice \in Outcomes(e),
         NEW so, Passing(e, so, choice.local, Asked), NEW d, Held(so, d)
  PROVE  /\ Landed(so, d, Gestured(so, e, choice)) /\ ~Gestured(so, e, choice).refused
         /\ e.gesture.what = "none" => Gestured(so, e, choice) = so
<1> DEFINE r == Gestured(so, e, choice)
           ticket == e.gesture.ticket
<1>1. ~so.refused /\ so.registered = e.registered
  BY DEF Passing, Beside, LandFields, Fields
<1>2. Shape(e) /\ e.gesture.what \in Gestures
  BY DEF Kept, Sound, Shape, GestureApart
<1>3. choice.gesture => e.gesture.what # "none"
  BY DEF Outcomes
<1>4. CASE ~choice.gesture
  <2>1. r = so
    BY <1>4 DEF Gestured
  <2> HIDE DEF r
  <2>2. Landed(so, d, r) /\ ~r.refused
    BY <1>1, <2>1 DEF Landed
  <2> QED
    BY <2>1, <2>2 DEF r
<1>5. CASE choice.gesture
  <2> DEFINE k == CHOOSE k \in GestureKind(e) : TRUE
             landed == Land(so, k, ticket, choice.some, choice.caret)
  <2>1. k \in {"definition", "tooltip", "insert"}
    BY <1>2, <1>3, <1>5 DEF GestureKind, Gestures
  <2>2. k = "definition" \/ k = e.gesture.what
    BY <1>2, <1>3, <1>5 DEF GestureKind, Gestures
  <2>3. r = [landed EXCEPT !.refused = IF Accepts(e, k, ticket) THEN @ ELSE so.refused]
    BY <1>5 DEF Gestured
  <2> HIDE DEF k
  <2>4. k \in Kinds /\ k \in Answered
    BY <2>1 DEF Kinds, Answered
  <2>5. Landed(so, d, landed)
    BY <2>4, AnyLands
  <2>6. Accepts(e, k, ticket) => landed.refused = so.refused
    <3> SUFFICES ASSUME Accepts(e, k, ticket) PROVE landed.refused = so.refused
      OBVIOUS
    <3>1. e.awaiting[k] = ticket /\ ticket.rev = e.rev
      BY DEF Accepts
    <3>2. ~(k \in choice.local /\ k \in Asked)
      <4> SUFFICES ASSUME k \in choice.local, k \in Asked PROVE FALSE
        OBVIOUS
      <4>1. e.pending[k] # NoTicket
        BY DEF Outcomes, Answerable, Recorded
      <4>2. e.pending[k] = ticket
        BY <1>2, <3>1, <4>1 DEF Shape, Slots
      <4> QED
        BY <1>2, <1>3, <1>5, <2>4, <4>2 DEF Shape, GestureApart
    <3>3. so.awaiting[k] = ticket
      BY <2>4, <3>1, <3>2 DEF Passing
    <3>4. so.rev = e.rev
      BY DEF Passing, Beside, LandFields, Fields
    <3>5. Accepts(so, k, ticket)
      BY <3>1, <3>3, <3>4 DEF Accepts
    <3> QED
      BY <2>4, <3>5, AcceptedLands
  <2> HIDE DEF landed
  <2>7. Beside(landed, r, {"refused"}) /\ ~r.refused
    BY <1>1, <2>3, <2>5, <2>6 DEF Beside, Landed, Held, Kept, Sound, Shape, Fields
  <2> HIDE DEF r
  <2>8. /\ Beside(landed, r, Loose)
        /\ r.registered = landed.registered /\ r.gesture = landed.gesture /\ r.pending = landed.pending
    BY <2>7 DEF Beside, Loose, Fields
  <2>9. Held(r, d)
    BY <2>5, <2>8, LooseHeld DEF Landed
  <2>10. Landed(so, d, r)
    BY <2>5, <2>8, <2>9 DEF Landed
  <2> QED
    BY <1>3, <1>5, <2>7, <2>10 DEF r
<1> QED
  BY <1>4, <1>5

LEMMA PassKeeps ==
  ASSUME NEW e, NEW c, Held(e, c), ~e.refused, ClientShape(c), NEW choice \in Outcomes(e)
  PROVE  Passed(e, Pass(e, c, choice).e, Pass(e, c, choice).c)
<1> DEFINE start == [e EXCEPT !.pending = [k \in Kinds |-> NoTicket], !.gesture = NoGesture]
           so == LandLocal(start, e, choice)
           d == [synced |-> e.rev,
                 asked |-> [k \in Kinds |-> IF k \in Sent(e, choice)
                                            THEN IF e.pending[k] = NoTicket THEN e.gesture.ticket ELSE e.pending[k]
                                            ELSE c.asked[k]]]
           r == Gestured(so, e, choice)
<1>1. Pass(e, c, choice).e = r /\ Pass(e, c, choice).c = d
  BY DEF Pass, PassLands
<1>2. Kept(e)
  BY DEF Held
<1>3. Passing(e, start, choice.local, {})
  BY <1>2, PassStarts
<1> HIDE DEF start
<1>4. Passing(e, so, choice.local, Asked)
  BY <1>2, <1>3, LocalLands
<1> HIDE DEF so
<1>5. Held(so, d)
  BY <1>4, PassHeld
<1>6. ClientShape(d) /\ d.synced = e.rev
  BY DEF ClientShape
<1> HIDE DEF d
<1>7. /\ Landed(so, d, r) /\ ~r.refused
      /\ e.gesture.what = "none" => r = so
  BY <1>2, <1>4, <1>5, GestureLands
<1> HIDE DEF r
<1>8. so.rev = e.rev /\ so.registered = e.registered /\ so.gesture = NoGesture
  BY <1>4 DEF Passing, Beside, LandFields, Fields
<1>9. Recorded(r) \subseteq {"signature"}
  BY <1>4, <1>7 DEF Recorded, Landed, Passing
<1>10. Passed(e, r, d)
  BY <1>6, <1>7, <1>8, <1>9 DEF Passed, Landed
<1> QED
  BY <1>1, <1>10

\* What a sync leaves.
Settled ==
  editor'.registered =>
    /\ client'.synced = editor'.rev
    /\ Recorded(editor') \subseteq {"signature"} /\ editor'.gesture = NoGesture

LEMMA SyncKeeps ==
  ASSUME NEW e, NEW c, Held(e, c), ~e.refused, ClientShape(c), Synced(e, c)
  PROVE  EditorInv' /\ Settled
<1>1. CASE ~e.registered
  <2>1. editor' = e /\ client' = c
    BY <1>1 DEF Synced, Settle
  <2> QED
    BY <1>1, <2>1 DEF EditorInv, Held, Settled
<1>2. CASE e.registered
  <2>1. PICK choice \in Outcomes(e) :
          LET first == Pass(e, c, choice)
          IN IF first.e.rev = e.rev THEN Settle(first)
             ELSE \E again \in Outcomes(first.e) : Settle(Pass(first.e, first.c, again))
    BY <1>2 DEF Synced
  <2> DEFINE first == Pass(e, c, choice)
  <2>2. Passed(e, first.e, first.c)
    BY PassKeeps
  <2>3. CASE first.e.rev = e.rev
    <3>1. editor' = first.e /\ client' = first.c
      BY <2>1, <2>3 DEF Settle
    <3> HIDE DEF first
    <3> QED
      BY <2>2, <2>3, <3>1 DEF Passed, EditorInv, Held, Settled
  <2>4. CASE first.e.rev # e.rev
    <3>1. PICK again \in Outcomes(first.e) : Settle(Pass(first.e, first.c, again))
      BY <2>1, <2>4
    <3> HIDE DEF first
    <3>2. first.e.gesture.what = "none"
      BY <2>2 DEF Passed, NoGesture
    <3> DEFINE second == Pass(first.e, first.c, again)
    <3>3. Passed(first.e, second.e, second.c)
      BY <2>2, PassKeeps DEF Passed
    <3>4. editor' = second.e /\ client' = second.c
      BY <3>1 DEF Settle
    <3> HIDE DEF second
    <3> QED
      BY <3>2, <3>3, <3>4 DEF Passed, EditorInv, Held, Settled
  <2> QED
    BY <2>3, <2>4
<1> QED
  BY <1>1, <1>2

\* The answer comes out of the client's hands as it lands.
LEMMA AnswerLands ==
  ASSUME NEW e, NEW c, Held(e, c), ClientShape(c), NEW k \in Kinds, NEW some, NEW p,
         NEW d, d = [c EXCEPT !.asked[k] = NoTicket]
  PROVE  Landed(e, d, Land(e, k, c.asked[k], some, p)) /\ ClientShape(d)
<1> DEFINE ticket == c.asked[k]
           r == Land(e, k, ticket, some, p)
<1>1. /\ ClientShape(d)
      /\ \A j \in Kinds : d.asked[j] = IF j = k THEN NoTicket ELSE c.asked[j]
  BY DEF ClientShape
<1>2. "inlays" \in Kinds
  BY DEF Kinds
<1>3. CASE k = "inlays" /\ Accepts(e, k, ticket)
  <2>1. Kept(e)
    BY DEF Held
  <2>2. Answering(e, "inlays", r)
    BY <1>3, <2>1, InlaysLand
  <2> HIDE DEF r
  <2>3. /\ r.rev = e.rev /\ r.registered = e.registered /\ r.enabled = e.enabled /\ r.wait = e.wait
        /\ r.window = e.window /\ r.view = e.view
    BY <2>2 DEF Answering, Beside, LandFields, Fields
  <2>4. HintsWanted(r, d)
    BY <2>2, <2>3 DEF Answering, HintsWanted, Held
  <2>5. Landed(e, d, r)
    BY <2>2, <2>3, <2>4 DEF Answering, Landed, Held
  <2> QED
    BY <1>1, <2>5 DEF r
<1>4. CASE ~(k = "inlays" /\ Accepts(e, k, ticket))
  <2>1. HintsWanted(e, d)
    BY <1>1, <1>2, <1>4 DEF Held, HintsWanted, Accepts
  <2>2. Held(e, d)
    BY <2>1 DEF Held
  <2>3. Landed(e, d, r)
    BY <2>2, AnyLands
  <2> QED
    BY <1>1, <2>3
<1> QED
  BY <1>3, <1>4

\* Every step that syncs.
Syncs == Sync \/ JumpHere \/ Answer \/ InlayRefresh

LEMMA SyncsKeep == EditorInv /\ Syncs => EditorInv' /\ Settled
<1> SUFFICES ASSUME EditorInv, Syncs PROVE EditorInv' /\ Settled
  OBVIOUS
<1>1. Held(editor, client) /\ ~editor.refused /\ ClientShape(client)
  BY InvHeld
<1>2. CASE Sync
  BY <1>1, <1>2, SyncKeeps DEF Sync
<1>3. CASE JumpHere
  <2>1. PICK p \in Places, escapes \in MayEscape : Synced(Select(editor, p, escapes), client)
    BY <1>3 DEF JumpHere
  <2>2. Landed(editor, client, Select(editor, p, escapes)) /\ Select(editor, p, escapes).refused = editor.refused
    BY <1>1, SelectHeld
  <2>3. Held(Select(editor, p, escapes), client) /\ ~Select(editor, p, escapes).refused
    BY <1>1, <2>2 DEF Landed
  <2> QED
    BY <1>1, <2>1, <2>3, SyncKeeps
<1>4. CASE Answer
  <2>1. PICK k \in Kinds :
          \E some \in BOOLEAN, p \in IF k = "definition" THEN Places ELSE {editor.caret} :
            Synced([Land(editor, k, client.asked[k], some, p) EXCEPT !.refused = editor.refused],
                   [client EXCEPT !.asked[k] = NoTicket])
    BY <1>4 DEF Answer
  <2>2. PICK some \in BOOLEAN, p \in IF k = "definition" THEN Places ELSE {editor.caret} :
            Synced([Land(editor, k, client.asked[k], some, p) EXCEPT !.refused = editor.refused],
                   [client EXCEPT !.asked[k] = NoTicket])
    BY <2>1
  <2> DEFINE landed == Land(editor, k, client.asked[k], some, p)
             r == [landed EXCEPT !.refused = editor.refused]
             d == [client EXCEPT !.asked[k] = NoTicket]
  <2>3. Landed(editor, d, landed) /\ ClientShape(d)
    BY <1>1, AnswerLands
  <2>4. Synced(r, d)
    BY <2>2
  <2> HIDE DEF landed, d
  <2>5. Beside(landed, r, Loose) /\ r.refused = editor.refused
    BY <2>3 DEF Beside, Loose, Fields, Landed, Held, Kept, Sound, Shape
  <2> HIDE DEF r
  <2>6. Held(r, d)
    BY <2>3, <2>5, LooseHeld DEF Landed
  <2> QED
    BY <1>1, <2>3, <2>4, <2>5, <2>6, SyncKeeps
<1>5. CASE InlayRefresh
  <2> DEFINE w == Wait(editor)
  <2>1. Held(w, client) /\ Beside(editor, w, {"wait"}) /\ Synced(w, client)
    BY <1>1, <1>5, WaitHeld DEF Held, InlayRefresh
  <2> HIDE DEF w
  <2>2. ~w.refused
    BY <1>1, <2>1 DEF Beside, Fields
  <2> QED
    BY <1>1, <2>1, <2>2, SyncKeeps
<1> QED
  BY <1>2, <1>3, <1>4, <1>5 DEF Syncs

----------------------------------------------------------------------------
(* The theorems. *)

LEMMA FreshHeld == Kept(Fresh) /\ ~Fresh.refused /\ HintsWanted(Fresh, NoClient)
<1>1. /\ DOMAIN Fresh = Fields /\ Fresh.rev = 1 /\ Fresh.issued = 0 /\ Fresh.strays = 0 /\ Fresh.view = 1
      /\ DOMAIN Fresh.awaiting = Kinds /\ DOMAIN Fresh.pending = Kinds
      /\ \A k \in Kinds : Fresh.awaiting[k] = NoTicket /\ Fresh.pending[k] = NoTicket
      /\ Fresh.gesture = NoGesture /\ Fresh.seen = 1
      /\ ~Fresh.misplaced /\ ~Fresh.refused /\ ~Fresh.spelt /\ ~Fresh.registered /\ Fresh.hints = 0
  BY DEF Fresh, Fields
<1>2. Counts(Fresh) /\ Mine(Fresh, NoTicket)
  BY <1>1 DEF Counts, Mine, NoTicket
<1>3. Asked \subseteq Kinds /\ {"tooltip", "insert"} \subseteq Kinds
  BY DEF Asked, Kinds
<1>4. Slots(Fresh)
  BY <1>1, <1>2, <1>3 DEF Slots
<1>5. GestureApart(Fresh)
  BY <1>1, <1>2 DEF GestureApart, NoGesture, Gestures
<1>6. Fits(Fresh, "completion") /\ Fits(Fresh, "definition")
  BY <1>1, <1>3 DEF Fits, NoTicket, Asked
<1>7. Shape(Fresh)
  BY <1>1, <1>2, <1>4, <1>5 DEF Shape
<1>8. HintsOnce(Fresh)
  BY <1>1, <1>7, HintsOnceAt
<1> QED
  BY <1>1, <1>6, <1>7, <1>8 DEF Kept, Sound, HintsWanted

LEMMA InitInv == Init => EditorInv
<1> SUFFICES ASSUME Init PROVE EditorInv
  OBVIOUS
<1>1. CASE editor = Fresh /\ client = NoClient
  BY <1>1, FreshHeld, NoClientShape DEF EditorInv
<1>2. CASE editor = Opened(Fresh) /\ client = [NoClient EXCEPT !.synced = Fresh.rev]
  <2>1. Held(Opened(Fresh), client) /\ Opened(Fresh).refused = Fresh.refused
    BY FreshHeld, OpenedHeld
  <2>2. ClientShape(client)
    BY <1>2, NoClientShape
  <2> QED
    BY <1>2, <2>1, <2>2, FreshHeld DEF EditorInv, Held
<1> QED
  BY <1>1, <1>2 DEF Init

\* The events and the host's calls that do not sync.
Events ==
  \/ Type \/ Overtype \/ Backspace \/ MoveCaret \/ Edit \/ Revisit \/ Collapse \/ Load \/ Scroll
  \/ Fold \/ SnippetTab \/ SnippetCancel \/ FindNext \/ OpenFind \/ CloseBar
  \/ PopupDismiss \/ PopupAccept \/ TriggerCompletion \/ SignatureClose
  \/ HoverQuery \/ HoverDismiss \/ GotoDefinition \/ Rename \/ SubmitRename \/ Format
  \/ Wake \/ InlayHover \/ InlayJump \/ InlayInsert \/ SetInlayHints

LEMMA EventsKeep == EditorInv /\ Events => EditorInv'
BY TypeKeeps, OvertypeKeeps, BackspaceKeeps, MoveCaretKeeps, EditKeeps, RevisitKeeps, CollapseKeeps, LoadKeeps,
   ScrollKeeps, StraysKeep, BarsKeep, PopupKeeps, PopupAcceptKeeps, HoverKeeps, UnawaitedKeep, WakeKeeps,
   GesturesKeep, SetInlayHintsKeeps
DEF Events

\* Until it is synced an event is counted.
LEMMA EventsCounted == Events => batch' = batch + 1
<1>1. Type \/ Overtype \/ Backspace \/ MoveCaret \/ Edit \/ Revisit \/ Collapse => batch' = batch + 1
  BY DEF Type, Overtype, Backspace, MoveCaret, Edit, Revisit, Collapse, Update, Rarely, Event
<1>2. Load \/ Scroll \/ Fold \/ SnippetTab \/ SnippetCancel \/ FindNext \/ OpenFind \/ CloseBar => batch' = batch + 1
  BY DEF Load, Scroll, Fold, SnippetTab, SnippetCancel, FindNext, OpenFind, CloseBar, Stray, Rarely, Event
<1>3. PopupDismiss \/ PopupAccept \/ TriggerCompletion \/ SignatureClose => batch' = batch + 1
  BY DEF PopupDismiss, PopupAccept, TriggerCompletion, SignatureClose, Update, Rarely, Event
<1>4. HoverQuery \/ HoverDismiss \/ GotoDefinition \/ Rename \/ SubmitRename \/ Format => batch' = batch + 1
  BY DEF HoverQuery, HoverDismiss, GotoDefinition, Rename, SubmitRename, Format, Update, Rarely, Event
<1>5. Wake \/ InlayHover \/ InlayJump \/ InlayInsert \/ SetInlayHints => batch' = batch + 1
  BY DEF Wake, InlayHover, InlayJump, InlayInsert, SetInlayHints, Update, Rarely, Event
<1> QED
  BY <1>1, <1>2, <1>3, <1>4, <1>5 DEF Events

LEMMA NextIs == Next <=> Events \/ OpenLsp \/ CloseLsp \/ Syncs
BY DEF Next, Events, Syncs

Inv == EditorInv /\ batch \in Nat

LEMMA InvKept == Inv /\ [Next]_vars => Inv'
<1> SUFFICES ASSUME Inv, [Next]_vars PROVE Inv'
  OBVIOUS
<1>1. CASE Events
  BY <1>1, EventsKeep, EventsCounted DEF Inv
<1>2. CASE OpenLsp \/ CloseLsp
  <2>1. batch' = batch
    BY <1>2 DEF OpenLsp, CloseLsp
  <2> QED
    BY <1>2, <2>1, RegistrationKeeps DEF Inv
<1>3. CASE Syncs
  <2>1. batch' = 0
    BY <1>3 DEF Syncs, Sync, JumpHere, Answer, InlayRefresh
  <2> QED
    BY <1>3, <2>1, SyncsKeep DEF Inv
<1>4. CASE UNCHANGED vars
  <2>1. editor' = editor /\ client' = client /\ batch' = batch
    BY <1>4 DEF vars
  <2> QED
    BY <2>1 DEF Inv, EditorInv
<1> QED
  BY <1>1, <1>2, <1>3, <1>4, NextIs

\* Slots, tickets, gesture and hints of the editor stay as described.
THEOREM EditorInvariance == Spec => []Inv
<1>1. Init => Inv
  BY InitInv DEF Init, Inv
<1> QED
  BY <1>1, InvKept, PTL DEF Spec

\* A completion list and a definition land where they were asked for, but
\* for the definition awaited while a closer is typed over, where the code
\* lands it although the caret has moved.
THEOREM AnswersLandInPlace == Spec => []AnswersFitTheCaret
<1>1. Inv => AnswersFitTheCaret
  BY DEF Inv, EditorInv, Kept, Sound, AnswersFitTheCaret
<1> QED
  BY <1>1, EditorInvariance, PTL

\* What the client answers by itself in a pass lands, the gesture included.
THEOREM OwnAnswersLand == Spec => []LocalAnswersLand
<1>1. Inv => LocalAnswersLand
  BY DEF Inv, EditorInv, LocalAnswersLand
<1> QED
  BY <1>1, EditorInvariance, PTL

\* While hints are on they are here or on their way, and an inserted hint
\* is not shown beside its text, but for one fetched before a redo put the
\* text back.
THEOREM HintsComeOnce == Spec => []HintsAreFetched
<1>1. Inv => HintsAreFetched
  BY DEF Inv, EditorInv, Kept, Sound, HintsOnce, HintsWanted, HintsAreFetched, HintsComing, NoHintTwice
<1> QED
  BY <1>1, EditorInvariance, PTL

\* A sync leaves the client at the editor's text with nothing left to send,
\* but for a signature box a jump asked for again.
THEOREM SyncsSettle == Spec => SyncSettles
<1> DEFINE Settles == editor'.registered /\ batch' = 0 /\ batch > 0 =>
                        /\ client'.synced = editor'.rev
                        /\ Recorded(editor') \subseteq {"signature"} /\ editor'.gesture = NoGesture
<1>1. Inv /\ [Next]_vars => [Settles]_vars
  <2> SUFFICES ASSUME Inv, Next PROVE Settles
    OBVIOUS
  <2>1. CASE Events
    BY <2>1, EventsCounted DEF Inv
  <2>2. CASE OpenLsp \/ CloseLsp
    <3>1. batch' = batch
      BY <2>2 DEF OpenLsp, CloseLsp
    <3> QED
      BY <3>1 DEF Inv
  <2>3. CASE Syncs
    BY <2>3, SyncsKeep DEF Inv, Settled
  <2> QED
    BY <2>1, <2>2, <2>3, NextIs
<1> QED
  BY <1>1, EditorInvariance, PTL DEF Spec, SyncSettles
=============================================================================
