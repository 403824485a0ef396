-------------------------- MODULE InputPath_proofs --------------------------
(***************************************************************************)
(* Proofs about the keyboard and mouse path, for every set of keys and     *)
(* buttons and every length of the queue.                                  *)
(*                                                                         *)
(* ChordInv is inductive.  ModifiersComeUp is not: it says nothing of a    *)
(* modifier whose press is still in the queue, which the core will believe *)
(* to be down once it has handled it.  ReleasesFollow says of these        *)
(* presses what ModifiersComeUp says of the keys the guest was told of,    *)
(* and of both that the user holding the key counts only while the window  *)
(* is visible.                                                             *)
(*                                                                         *)
(* CaptureFollowsIntent is not inductive either: it allows anything once   *)
(* the chord has switched the mouse, and handling a request ends that.     *)
(* IntentQueued says that a request that is still queued is the page's     *)
(* last word, with the chord or without.                                   *)
(*                                                                         *)
(* Both rest on what there is without a GUI, NothingLeft: what the page    *)
(* sends then is lost, and harmless because nothing is left to undo.       *)
(***************************************************************************)
EXTENDS InputPath, SequenceTheorems, TLAPS

\* The events after which the core does not believe k to be down.
Releases(k) == {KeyEvent(k, FALSE), FocusEvent(FALSE)}

\* The release of k will be seen, or is in queue q behind place i.
ReleaseAfter(q, i, k, held) ==
    k \in held \/ \E j \in DOMAIN q : j > i /\ q[j] \in Releases(k)

ReleasesIn(q, told, held) ==
    \A k \in Modifiers :
        /\ k \in told => ReleaseAfter(q, 0, k, held)
        /\ \A i \in DOMAIN q : q[i] = KeyEvent(k, TRUE) => ReleaseAfter(q, i, k, held)

\* The keys whose release the page will see if the window stays visible.
Watched == IF visible THEN hostKeys ELSE {}

ReleasesFollow == ReleasesIn(event_queue, bxkey_state, Watched)

\* WillBe of a queue and a present value.
WillBeIn(q, now, b) ==
    \/ /\ \A i \in DOMAIN q : q[i].type # "capture"
       /\ now = b
    \/ \E i \in DOMAIN q :
          /\ q[i] = CaptureRequest(b)
          /\ \A j \in DOMAIN q : j > i => q[j].type # "capture"

\* What mouse_enabled counts as, for a page that wants it to be b: a switch
\* by the chord is not held against it.
Present(b) == IF chorded THEN b ELSE mouse_enabled

IntentQueued ==
    /\ m_mouseCaptureUserReleased =>
          /\ ~m_mouseCaptured /\ ~m_mouseCapturePending
          /\ WillBeIn(event_queue, Present(FALSE), FALSE)
    /\ m_mouseCapturePending /\ asked => WillBeIn(event_queue, Present(TRUE), TRUE)

\* Without a GUI nothing is queued, nobody was asked, and neither the mouse nor
\* a key is held.
NothingLeft ==
    ~sink => /\ event_queue = <<>> /\ ~asked
             /\ mouse_enabled = FALSE /\ chorded = FALSE /\ bxkey_state = {}

Inv == TypeOK /\ ChordIsHeld /\ NothingLeft /\ ReleasesFollow /\ IntentQueued

-----------------------------------------------------------------------------
(* Queues: what sending and handling an event does to them. *)

\* The places of a queue after some events are sent: the old ones and, behind
\* them, the new ones.
LEMMA Sent ==
    ASSUME NEW q \in Seq(Event), NEW s \in Seq(Event)
    PROVE  /\ q \o s \in Seq(Event)
           /\ Len(q) \in Nat /\ Len(s) \in Nat
           /\ DOMAIN q = 1 .. Len(q) /\ DOMAIN s = 1 .. Len(s)
           /\ DOMAIN (q \o s) = 1 .. (Len(q) + Len(s))
           /\ Len(q \o s) = Len(q) + Len(s)
           /\ \A i \in 1 .. Len(q) : (q \o s)[i] = q[i]
           /\ \A i \in 1 .. Len(s) : (q \o s)[Len(q) + i] = s[i]
           /\ \A i \in 1 .. (Len(q) + Len(s)) :
                 i \in 1 .. Len(q)
                 \/ \E j \in 1 .. Len(s) : i = Len(q) + j /\ (q \o s)[i] = s[j]
<1>1. /\ q \o s \in Seq(Event)
      /\ Len(q \o s) = Len(q) + Len(s)
      /\ \A i \in 1 .. Len(q) + Len(s) :
            (q \o s)[i] = IF i <= Len(q) THEN q[i] ELSE s[i - Len(q)]
  BY ConcatProperties
<1>2. /\ Len(q) \in Nat /\ Len(s) \in Nat
      /\ DOMAIN q = 1 .. Len(q) /\ DOMAIN s = 1 .. Len(s)
      /\ DOMAIN (q \o s) = 1 .. Len(q \o s)
  BY <1>1, LenProperties
<1>3. \A i \in 1 .. (Len(q) + Len(s)) :
         i \in 1 .. Len(q)
         \/ \E j \in 1 .. Len(s) : i = Len(q) + j /\ (q \o s)[i] = s[j]
  <2> SUFFICES ASSUME NEW i \in 1 .. (Len(q) + Len(s)), i \notin 1 .. Len(q)
               PROVE  \E j \in 1 .. Len(s) : i = Len(q) + j /\ (q \o s)[i] = s[j]
    OBVIOUS
  <2> WITNESS i - Len(q) \in 1 .. Len(s)
  <2> QED  BY <1>1, <1>2
<1>4. \A i \in 1 .. Len(s) : (q \o s)[Len(q) + i] = s[i]
  <2> SUFFICES ASSUME NEW i \in 1 .. Len(s) PROVE (q \o s)[Len(q) + i] = s[i]
    OBVIOUS
  <2>1. Len(q) + i \in 1 .. Len(q) + Len(s) /\ ~(Len(q) + i <= Len(q))
    BY <1>2
  <2> QED  BY <2>1, <1>1, <1>2
<1> QED  BY <1>1, <1>2, <1>3, <1>4

\* The places of a queue whose first event was handled.
LEMMA Handled ==
    ASSUME NEW q \in Seq(Event), q # <<>>
    PROVE  /\ Head(q) \in Event /\ Head(q) = q[1]
           /\ Tail(q) \in Seq(Event)
           /\ Len(q) \in Nat \ {0}
           /\ Len(Tail(q)) = Len(q) - 1
           /\ DOMAIN q = 1 .. Len(q)
           /\ DOMAIN Tail(q) = 1 .. (Len(q) - 1)
           /\ \A i \in 1 .. (Len(q) - 1) : Tail(q)[i] = q[i + 1]
<1>1. /\ Head(q) \in Event /\ Tail(q) \in Seq(Event)
      /\ Len(Tail(q)) = Len(q) - 1
      /\ \A i \in 1 .. Len(Tail(q)) : Tail(q)[i] = q[i + 1]
  BY HeadTailProperties
<1>2. Len(q) \in Nat \ {0}  BY EmptySeq
<1>3. DOMAIN q = 1 .. Len(q) /\ DOMAIN Tail(q) = 1 .. Len(Tail(q))
  BY <1>1, LenProperties
<1>4. Head(q) = q[1]  OBVIOUS
<1> QED  BY <1>1, <1>2, <1>3, <1>4

-----------------------------------------------------------------------------
(* Releases that follow presses. *)

\* A release that is on its way stays so when further events are sent.
LEMMA ReleaseStays ==
    ASSUME NEW q \in Seq(Event), NEW s \in Seq(Event), NEW i \in Int, NEW k,
           NEW held, NEW watched,
           ReleaseAfter(q, i, k, held),
           k \in held => k \in watched \/ \E j \in DOMAIN s : s[j] \in Releases(k),
           i <= Len(q)
    PROVE  ReleaseAfter(q \o s, i, k, watched)
<1> DEFINE r == q \o s
<1>0. /\ Len(q) \in Nat /\ Len(s) \in Nat
      /\ DOMAIN q = 1 .. Len(q) /\ DOMAIN s = 1 .. Len(s)
      /\ DOMAIN r = 1 .. (Len(q) + Len(s))
      /\ \A l \in 1 .. Len(q) : r[l] = q[l]
      /\ \A l \in 1 .. Len(s) : r[Len(q) + l] = s[l]
  BY Sent
<1> HIDE DEF r
<1>1. CASE k \in watched  BY <1>1 DEF ReleaseAfter, r
<1>2. CASE \E j \in DOMAIN s : s[j] \in Releases(k)
  <2> PICK j \in DOMAIN s : s[j] \in Releases(k)  BY <1>2
  <2>1. Len(q) + j \in DOMAIN r /\ Len(q) + j > i /\ r[Len(q) + j] \in Releases(k)
    BY <1>0
  <2> QED  BY <2>1 DEF ReleaseAfter, r
<1>3. CASE \E j \in DOMAIN q : j > i /\ q[j] \in Releases(k)
  <2> PICK j \in DOMAIN q : j > i /\ q[j] \in Releases(k)  BY <1>3
  <2>1. j \in DOMAIN r /\ r[j] = q[j]  BY <1>0
  <2> QED  BY <2>1 DEF ReleaseAfter, r
<1> QED  BY <1>1, <1>2, <1>3 DEF ReleaseAfter

\* Sending events: a modifier that is no longer watched has its release among
\* them, and one whose press is among them is watched.
LEMMA SendReleases ==
    ASSUME NEW q \in Seq(Event), NEW s \in Seq(Event), NEW told, NEW held, NEW watched,
           ReleasesIn(q, told, held),
           \A k \in Modifiers \cap held :
               k \in watched \/ \E j \in DOMAIN s : s[j] \in Releases(k),
           \A k \in Modifiers, j \in DOMAIN s : s[j] = KeyEvent(k, TRUE) => k \in watched
    PROVE  ReleasesIn(q \o s, told, watched)
<1> DEFINE r == q \o s
<1>0. /\ Len(q) \in Nat /\ Len(s) \in Nat
      /\ DOMAIN q = 1 .. Len(q) /\ DOMAIN s = 1 .. Len(s)
      /\ DOMAIN r = 1 .. (Len(q) + Len(s))
      /\ \A l \in 1 .. Len(q) : r[l] = q[l]
      /\ \A l \in 1 .. (Len(q) + Len(s)) :
            l \in 1 .. Len(q) \/ \E j \in 1 .. Len(s) : l = Len(q) + j /\ r[l] = s[j]
  BY Sent
<1> SUFFICES ASSUME NEW k \in Modifiers
             PROVE  /\ k \in told => ReleaseAfter(r, 0, k, watched)
                    /\ \A i \in DOMAIN r :
                          r[i] = KeyEvent(k, TRUE) => ReleaseAfter(r, i, k, watched)
  BY DEF ReleasesIn
<1>a. k \in held => k \in watched \/ \E j \in DOMAIN s : s[j] \in Releases(k)
  OBVIOUS
<1>1. ASSUME k \in told PROVE ReleaseAfter(r, 0, k, watched)
  <2>1. ReleaseAfter(q, 0, k, held)  BY <1>1 DEF ReleasesIn
  <2> QED  BY <2>1, <1>a, <1>0, ReleaseStays
<1>2. ASSUME NEW i \in DOMAIN r, r[i] = KeyEvent(k, TRUE)
      PROVE  ReleaseAfter(r, i, k, watched)
  <2>1. CASE i \in 1 .. Len(q)
    <3>1. q[i] = KeyEvent(k, TRUE)  BY <2>1, <1>0, <1>2
    <3>2. ReleaseAfter(q, i, k, held)  BY <3>1, <2>1, <1>0 DEF ReleasesIn
    <3> QED  BY <3>2, <2>1, <1>a, <1>0, ReleaseStays
  <2>2. CASE i \notin 1 .. Len(q)
    <3>1. PICK j \in 1 .. Len(s) : r[i] = s[j]  BY <1>0, <1>2, <2>2
    <3>2. k \in watched  BY <3>1, <1>2, <1>0
    <3> QED  BY <3>2 DEF ReleaseAfter
  <2> QED  BY <2>1, <2>2
<1> QED  BY <1>1, <1>2

\* Handling an event: a key the guest is told to be down was down before and
\* not released by the event, or the event is its press.
LEMMA HandleReleases ==
    ASSUME NEW q \in Seq(Event), q # <<>>, NEW told, NEW after, NEW held,
           ReleasesIn(q, told, held),
           \A k \in Modifiers \cap after :
               (k \in told /\ Head(q) \notin Releases(k)) \/ Head(q) = KeyEvent(k, TRUE)
    PROVE  ReleasesIn(Tail(q), after, held)
<1> DEFINE r == Tail(q)
<1>0. /\ Head(q) = q[1]
      /\ Len(q) \in Nat \ {0}
      /\ DOMAIN q = 1 .. Len(q)
      /\ DOMAIN r = 1 .. (Len(q) - 1)
      /\ \A i \in 1 .. (Len(q) - 1) : r[i] = q[i + 1]
  BY Handled
<1> HIDE DEF r
<1>1. ASSUME NEW k, NEW i \in 0 .. Len(q) - 1, ReleaseAfter(q, i + 1, k, held)
      PROVE  ReleaseAfter(r, i, k, held)
  <2>1. CASE k \in held  BY <2>1 DEF ReleaseAfter
  <2>2. CASE \E j \in DOMAIN q : j > i + 1 /\ q[j] \in Releases(k)
    <3> PICK j \in DOMAIN q : j > i + 1 /\ q[j] \in Releases(k)  BY <2>2
    <3>1. j - 1 \in 1 .. (Len(q) - 1) /\ j - 1 > i /\ (j - 1) + 1 = j  BY <1>0, <1>1
    <3>2. r[j - 1] = q[j]  BY <3>1, <1>0
    <3>3. j - 1 \in DOMAIN r /\ j - 1 > i /\ r[j - 1] \in Releases(k)  BY <3>1, <3>2, <1>0
    <3> QED  BY <3>3 DEF ReleaseAfter
  <2> QED  BY <1>1, <2>1, <2>2 DEF ReleaseAfter
<1> SUFFICES ASSUME NEW k \in Modifiers
             PROVE  /\ k \in after => ReleaseAfter(r, 0, k, held)
                    /\ \A i \in DOMAIN r :
                          r[i] = KeyEvent(k, TRUE) => ReleaseAfter(r, i, k, held)
  BY DEF ReleasesIn, r
<1>2. ASSUME k \in after PROVE ReleaseAfter(r, 0, k, held)
  <2>1. CASE k \in told /\ Head(q) \notin Releases(k)
    <3>1. ReleaseAfter(q, 0, k, held)  BY <2>1, Zenon DEF ReleasesIn
    <3>2. ASSUME NEW j \in DOMAIN q, j > 0, q[j] \in Releases(k) PROVE j > 0 + 1
      <4>1. j # 1  BY <2>1, <3>2, <1>0, Zenon
      <4> QED  BY <4>1, <3>2, <1>0
    <3>3. ReleaseAfter(q, 0 + 1, k, held)  BY <3>1, <3>2, Zenon DEF ReleaseAfter
    <3> QED  BY <3>3, <1>1, <1>0
  <2>2. CASE Head(q) = KeyEvent(k, TRUE)
    <3>1. 1 \in DOMAIN q /\ q[1] = Head(q) /\ 0 + 1 = 1  BY <1>0
    <3>2. ReleaseAfter(q, 0 + 1, k, held)  BY <2>2, <3>1, Zenon DEF ReleasesIn
    <3> QED  BY <3>2, <1>1, <1>0
  <2> QED  BY <1>2, <2>1, <2>2
<1>3. ASSUME NEW i \in DOMAIN r, r[i] = KeyEvent(k, TRUE)
      PROVE  ReleaseAfter(r, i, k, held)
  <2>1. i + 1 \in DOMAIN q /\ q[i + 1] = r[i]  BY <1>0
  <2>2. ReleaseAfter(q, i + 1, k, held)  BY <1>3, <2>1, Zenon DEF ReleasesIn
  <2> QED  BY <2>2, <1>1, <1>0
<1> QED  BY <1>2, <1>3

-----------------------------------------------------------------------------
(* What the queued requests come to. *)

\* The fields of a request.
LEMMA RequestFields ==
    ASSUME NEW b
    PROVE  CaptureRequest(b).type = "capture" /\ CaptureRequest(b).enabled = b
BY DEF CaptureRequest

\* Events that ask for nothing leave the outcome as it was.
LEMMA SendWillBe ==
    ASSUME NEW q \in Seq(Event), NEW s \in Seq(Event), NEW now, NEW b,
           WillBeIn(q, now, b),
           \A j \in DOMAIN s : s[j].type # "capture"
    PROVE  WillBeIn(q \o s, now, b)
<1> DEFINE r == q \o s
<1>0. /\ Len(q) \in Nat /\ Len(s) \in Nat
      /\ DOMAIN q = 1 .. Len(q) /\ DOMAIN s = 1 .. Len(s)
      /\ DOMAIN r = 1 .. (Len(q) + Len(s))
      /\ \A l \in 1 .. Len(q) : r[l] = q[l]
      /\ \A l \in 1 .. (Len(q) + Len(s)) :
            l \in 1 .. Len(q) \/ \E j \in 1 .. Len(s) : l = Len(q) + j /\ r[l] = s[j]
  BY Sent
<1> HIDE DEF r
<1>1. CASE (\A i \in DOMAIN q : q[i].type # "capture") /\ now = b
  <2>1. ASSUME NEW i \in DOMAIN r PROVE r[i].type # "capture"
    <3>1. CASE i \in 1 .. Len(q)  BY <3>1, <1>1, <1>0
    <3>2. CASE i \notin 1 .. Len(q)  BY <3>2, <2>1, <1>0
    <3> QED  BY <3>1, <3>2
  <2> QED  BY <2>1, <1>1, Zenon DEF WillBeIn, r
<1>2. CASE \E i \in DOMAIN q :
              /\ q[i] = CaptureRequest(b)
              /\ \A j \in DOMAIN q : j > i => q[j].type # "capture"
  <2> PICK i \in DOMAIN q : /\ q[i] = CaptureRequest(b)
                            /\ \A j \in DOMAIN q : j > i => q[j].type # "capture"
    BY <1>2
  <2>1. i \in DOMAIN r /\ r[i] = q[i]  BY <1>0
  <2>2. ASSUME NEW j \in DOMAIN r, j > i PROVE r[j].type # "capture"
    <3>1. CASE j \in 1 .. Len(q)
      <4>1. j \in DOMAIN q /\ r[j] = q[j]  BY <3>1, <1>0
      <4> QED  BY <4>1, <2>2, Zenon
    <3>2. CASE j \notin 1 .. Len(q)  BY <3>2, <2>2, <1>0
    <3> QED  BY <3>1, <3>2
  <2> QED  BY <2>1, <2>2, Zenon DEF WillBeIn, r
<1> QED  BY <1>1, <1>2, Zenon DEF WillBeIn

\* The last request among the events that are sent decides.
LEMMA AskWillBe ==
    ASSUME NEW q \in Seq(Event), NEW s \in Seq(Event), NEW now, NEW b,
           NEW j0 \in DOMAIN s, s[j0] = CaptureRequest(b),
           \A j \in DOMAIN s : j > j0 => s[j].type # "capture"
    PROVE  WillBeIn(q \o s, now, b)
<1> DEFINE r == q \o s
<1>0. /\ Len(q) \in Nat /\ Len(s) \in Nat
      /\ DOMAIN q = 1 .. Len(q) /\ DOMAIN s = 1 .. Len(s)
      /\ DOMAIN r = 1 .. (Len(q) + Len(s))
      /\ \A l \in 1 .. Len(s) : r[Len(q) + l] = s[l]
      /\ \A l \in 1 .. (Len(q) + Len(s)) :
            l \in 1 .. Len(q) \/ \E j \in 1 .. Len(s) : l = Len(q) + j /\ r[l] = s[j]
  BY Sent
<1> HIDE DEF r
<1>1. Len(q) + j0 \in DOMAIN r /\ r[Len(q) + j0] = s[j0]  BY <1>0
<1>2. ASSUME NEW j \in DOMAIN r, j > Len(q) + j0 PROVE r[j].type # "capture"
  <2>1. PICK l \in 1 .. Len(s) : j = Len(q) + l /\ r[j] = s[l]  BY <1>0, <1>2
  <2>2. l \in DOMAIN s /\ l > j0  BY <2>1, <1>2, <1>0
  <2> QED  BY <2>1, <2>2, Zenon
<1> QED  BY <1>1, <1>2, Zenon DEF WillBeIn, r

\* Handling the first event: a request takes effect, anything else leaves the
\* outcome as it was.
LEMMA HandleWillBe ==
    ASSUME NEW q \in Seq(Event), q # <<>>, NEW now, NEW after, NEW b,
           WillBeIn(q, now, b),
           IF Head(q).type = "capture" THEN after = Head(q).enabled ELSE after = now
    PROVE  WillBeIn(Tail(q), after, b)
<1> DEFINE r == Tail(q)
<1>0. /\ Head(q) = q[1]
      /\ Len(q) \in Nat \ {0}
      /\ DOMAIN q = 1 .. Len(q)
      /\ DOMAIN r = 1 .. (Len(q) - 1)
      /\ \A i \in 1 .. (Len(q) - 1) : r[i] = q[i + 1]
  BY Handled
<1> HIDE DEF r
<1>s. ASSUME NEW i \in DOMAIN r PROVE i + 1 \in DOMAIN q /\ r[i] = q[i + 1] /\ i + 1 > 1
  BY <1>0
<1>1. CASE (\A i \in DOMAIN q : q[i].type # "capture") /\ now = b
  <2>1. 1 \in DOMAIN q  BY <1>0
  <2>2. Head(q).type # "capture"  BY <2>1, <1>1, <1>0
  <2>3. after = b  BY <2>2, <1>1, Zenon
  <2>4. \A i \in DOMAIN r : r[i].type # "capture"  BY <1>s, <1>1, Zenon
  <2> QED  BY <2>3, <2>4, Zenon DEF WillBeIn, r
<1>2. CASE \E i \in DOMAIN q :
              /\ q[i] = CaptureRequest(b)
              /\ \A j \in DOMAIN q : j > i => q[j].type # "capture"
  <2> PICK i \in DOMAIN q : /\ q[i] = CaptureRequest(b)
                            /\ \A j \in DOMAIN q : j > i => q[j].type # "capture"
    BY <1>2
  <2>1. CASE i = 1
    <3>1. Head(q) = CaptureRequest(b)  BY <2>1, <1>0, Zenon
    <3>2. after = b  BY <3>1, RequestFields, Zenon
    <3>3. \A j \in DOMAIN r : r[j].type # "capture"  BY <2>1, <1>s, Zenon
    <3> QED  BY <3>2, <3>3, Zenon DEF WillBeIn, r
  <2>2. CASE i # 1
    <3>1. i - 1 \in DOMAIN r /\ r[i - 1] = q[i]
      <4>1. i - 1 \in 1 .. (Len(q) - 1) /\ (i - 1) + 1 = i  BY <2>2, <1>0
      <4> QED  BY <4>1, <1>0
    <3>2. ASSUME NEW j \in DOMAIN r, j > i - 1 PROVE r[j].type # "capture"
      <4>1. j + 1 > i  BY <3>2, <1>0
      <4> QED  BY <4>1, <1>s, Zenon
    <3> QED  BY <3>1, <3>2, Zenon DEF WillBeIn, r
  <2> QED  BY <2>1, <2>2
<1> QED  BY <1>1, <1>2, Zenon DEF WillBeIn

-----------------------------------------------------------------------------
(* The type invariant. *)

\* The events the page sends are events.
LEMMA Events ==
    /\ \A k \in Keys, p \in BOOLEAN : KeyEvent(k, p) \in Event
    /\ \A bs \in SUBSET Buttons : PointerEvent(bs) \in Event
    /\ \A f \in BOOLEAN : FocusEvent(f) \in Event
    /\ \A e \in BOOLEAN : CaptureRequest(e) \in Event
    /\ \A e \in Event : <<e>> \in Seq(Event)
<1>1. \A e \in Event : <<e>> \in Seq(Event)  OBVIOUS
<1> QED  BY <1>1 DEF KeyEvent, PointerEvent, FocusEvent, CaptureRequest, Event

\* A queue to which events are sent is one still, and within its bound.
LEMMA SendType ==
    ASSUME TypeOK, NEW s \in Seq(Event), Send(s)
    PROVE  event_queue' \in Seq(Event) /\ Len(event_queue') <= MaxQueue
<1>1. event_queue \in Seq(Event) /\ Len(event_queue) <= MaxQueue  BY DEF TypeOK
<1>2. event_queue \o s \in Seq(Event) /\ Len(event_queue \o s) = Len(event_queue) + Len(s)
  BY <1>1, Sent
<1> QED  BY <1>1, <1>2 DEF Send

\* What a page learns when it looks at the core: it holds or awaits the mouse
\* only if the user has not released it, and awaits it only if it did.
LEMMA Update ==
    ASSUME NEW p \in BOOLEAN, NEW c \in BOOLEAN, NEW r \in BOOLEAN,
           mouse_enabled \in BOOLEAN, mouse_absxy \in BOOLEAN,
           NEW u, u = UpdateMouseCaptureFromCore(p, c, r)
    PROVE  /\ u.captured \in BOOLEAN /\ u.pending \in BOOLEAN /\ u.lost \in BOOLEAN
           /\ u.captured => ~r
           /\ u.pending => p
BY DEF UpdateMouseCaptureFromCore

\* The same of a page whose state is the present one.
LEMMA UpdateNow ==
    ASSUME TypeOK
    PROVE  /\ FromCore.captured \in BOOLEAN /\ FromCore.pending \in BOOLEAN
           /\ FromCore.lost \in BOOLEAN
           /\ FromCore.captured => ~m_mouseCaptureUserReleased
           /\ FromCore.pending => m_mouseCapturePending
<1>1. /\ m_mouseCapturePending \in BOOLEAN /\ m_mouseCaptured \in BOOLEAN
      /\ m_mouseCaptureUserReleased \in BOOLEAN
      /\ mouse_enabled \in BOOLEAN /\ mouse_absxy \in BOOLEAN
  BY DEF TypeOK
<1> QED  BY <1>1, Update DEF FromCore

\* The shortcut's toggle.
LEMMA ToggleType ==
    ASSUME TypeOK, ToggleMouseCaptureFromShortcut
    PROVE  /\ m_mouseCaptured' \in BOOLEAN /\ m_mouseCapturePending' \in BOOLEAN
           /\ m_mouseCaptureUserReleased' \in BOOLEAN
           /\ m_pointerButtons' \subseteq Buttons /\ asked' \in BOOLEAN
           /\ event_queue' \in Seq(Event) /\ Len(event_queue') <= MaxQueue
<1>0. /\ FromCore.captured \in BOOLEAN /\ FromCore.pending \in BOOLEAN
      /\ FromCore.lost \in BOOLEAN
  BY UpdateNow
<1>1. <<CaptureRequest(FALSE)>> \in Seq(Event) /\ <<CaptureRequest(TRUE)>> \in Seq(Event)
  BY Events, Zenon
<1>2. CASE /\ m_mouseCaptureUserReleased' = TRUE
           /\ m_mouseCaptured' = FALSE
           /\ m_mouseCapturePending' = FALSE
           /\ m_pointerButtons' = IF FromCore.lost \/ FromCore.captured THEN {}
                                  ELSE m_pointerButtons
           /\ Send(<<CaptureRequest(FALSE)>>)
           /\ asked' = sink
  <2>1. event_queue' \in Seq(Event) /\ Len(event_queue') <= MaxQueue
    BY <1>1, <1>2, SendType
  <2> QED  BY <2>1, <1>2 DEF TypeOK
<1>3. CASE /\ m_mouseCaptureUserReleased' = FALSE
           /\ IF mouse_absxy
              THEN Sees(FromCore) /\ UNCHANGED <<event_queue, asked>>
              ELSE /\ Sees(UpdateMouseCaptureFromCore(TRUE, FromCore.captured, FALSE))
                   /\ Send(<<CaptureRequest(TRUE)>>)
                   /\ asked' = sink
           /\ m_pointerButtons' = IF FromCore.lost THEN {} ELSE m_pointerButtons
  <2>1. CASE mouse_absxy
    BY <2>1, <1>3, <1>0 DEF TypeOK, Sees
  <2>2. CASE ~mouse_absxy
    <3>1. event_queue' \in Seq(Event) /\ Len(event_queue') <= MaxQueue
      BY <1>1, <1>3, <2>2, SendType
    <3> DEFINE u == UpdateMouseCaptureFromCore(TRUE, FromCore.captured, FALSE)
    <3>2. u.captured \in BOOLEAN /\ u.pending \in BOOLEAN
      BY <1>0, Update DEF TypeOK
    <3>3. m_mouseCaptured' = u.captured /\ m_mouseCapturePending' = u.pending
      BY <1>3, <2>2 DEF Sees
    <3> HIDE DEF u
    <3> QED  BY <3>1, <3>2, <3>3, <1>3 DEF TypeOK
  <2> QED  BY <2>1, <2>2
<1> QED  BY <1>2, <1>3, Zenon DEF ToggleMouseCaptureFromShortcut

\* The keyboard handlers of the page.
LEMMA KeyTypes ==
    ASSUME TypeOK, NEW k \in Keys, OnKeyDown(k) \/ OnKeyUp(k)
    PROVE  TypeOK'
<1>1. <<KeyEvent(k, TRUE)>> \in Seq(Event) /\ <<KeyEvent(k, FALSE)>> \in Seq(Event)
  BY Events, Zenon
<1>c. UNCHANGED <<hostButtons, core>>  BY DEF OnKeyDown, OnKeyUp
<1>h. hostKeys' \subseteq Keys  BY DEF OnKeyDown, OnKeyUp, TypeOK
<1>2. CASE UNCHANGED <<page, event_queue>>  BY <1>2, <1>c, <1>h DEF TypeOK, core, page
<1>3. CASE UNCHANGED page /\ (Send(<<KeyEvent(k, TRUE)>>) \/ Send(<<KeyEvent(k, FALSE)>>))
  <2>1. event_queue' \in Seq(Event) /\ Len(event_queue') <= MaxQueue
    BY <1>1, <1>3, SendType
  <2> QED  BY <2>1, <1>3, <1>c, <1>h DEF TypeOK, core, page
<1>4. CASE /\ m_mouseCaptureShortcutDown' \in BOOLEAN
           /\ UNCHANGED <<m_mouseCaptured, m_mouseCapturePending, m_mouseCaptureUserReleased,
                          m_pointerButtons, asked, event_queue, visible>>
  BY <1>4, <1>c, <1>h DEF TypeOK, core
<1>5. CASE /\ m_mouseCaptureShortcutDown' \in BOOLEAN /\ UNCHANGED visible
           /\ ToggleMouseCaptureFromShortcut
  <2>1. /\ m_mouseCaptured' \in BOOLEAN /\ m_mouseCapturePending' \in BOOLEAN
        /\ m_mouseCaptureUserReleased' \in BOOLEAN
        /\ m_pointerButtons' \subseteq Buttons /\ asked' \in BOOLEAN
        /\ event_queue' \in Seq(Event) /\ Len(event_queue') <= MaxQueue
    BY <1>5, ToggleType
  <2> QED  BY <2>1, <1>5, <1>c, <1>h DEF TypeOK, core
<1>6. CASE OnKeyDown(k)
  <2>1. CASE ~visible  BY <2>1, <1>6, <1>2 DEF OnKeyDown
  <2>2. CASE visible /\ k = "m" /\ Modifiers \subseteq hostKeys /\ m_mouseCaptureShortcutDown
    BY <2>2, <1>6, <1>4 DEF OnKeyDown
  <2>3. CASE visible /\ k = "m" /\ Modifiers \subseteq hostKeys /\ ~m_mouseCaptureShortcutDown
    BY <2>3, <1>6, <1>5 DEF OnKeyDown
  <2>4. CASE visible /\ ~(k = "m" /\ Modifiers \subseteq hostKeys)
    BY <2>4, <1>6, <1>3 DEF OnKeyDown
  <2> QED  BY <2>1, <2>2, <2>3, <2>4
<1>7. CASE OnKeyUp(k)
  <2>1. CASE ~visible  BY <2>1, <1>7, <1>2 DEF OnKeyUp
  <2>2. CASE visible /\ k = "m" /\ m_mouseCaptureShortcutDown
    BY <2>2, <1>7, <1>4 DEF OnKeyUp
  <2>3. CASE visible /\ ~(k = "m" /\ m_mouseCaptureShortcutDown)
    BY <2>3, <1>7, <1>3 DEF OnKeyUp
  <2> QED  BY <2>1, <2>2, <2>3
<1> QED  BY <1>6, <1>7

\* The pointer handlers and the visibility of the window.
LEMMA PointerTypes ==
    ASSUME TypeOK,
           \/ \E b \in Buttons : OnPointerPressed(b)
           \/ \E bs \in SUBSET Buttons, moved \in BOOLEAN : OnPointerMoved(bs, moved)
           \/ OnPointerReleased \/ OnMouseMoved \/ ButtonsUpUnseen
           \/ OnVisibilityChanged
    PROVE  TypeOK'
<1>0. /\ FromCore.captured \in BOOLEAN /\ FromCore.pending \in BOOLEAN
      /\ FromCore.lost \in BOOLEAN
  BY UpdateNow
<1>1. ASSUME NEW b \in Buttons, OnPointerPressed(b) PROVE TypeOK'
  <2> DEFINE ask == ~m_mouseCaptureUserReleased /\ ~mouse_absxy /\ ~mouse_enabled
             u   == UpdateMouseCaptureFromCore(m_mouseCapturePending \/ ask, m_mouseCaptured,
                                               m_mouseCaptureUserReleased)
             s   == (IF ask THEN <<CaptureRequest(TRUE)>> ELSE <<>>)
                    \o <<PointerEvent(m_pointerButtons')>>
  <2>1. /\ hostButtons' = {b}
        /\ m_pointerButtons' = IF u.lost THEN {} ELSE {b}
        /\ Sees(u)
        /\ Send(s)
        /\ asked' = IF ask THEN sink ELSE asked
        /\ pointerUnchanged
    BY <1>1, Zenon DEF OnPointerPressed
  <2>2. (m_mouseCapturePending \/ ask) \in BOOLEAN  BY DEF TypeOK
  <2>3. u.captured \in BOOLEAN /\ u.pending \in BOOLEAN /\ u.lost \in BOOLEAN
    BY <2>2, Update DEF TypeOK
  <2> HIDE DEF u
  <2>4. m_pointerButtons' \subseteq Buttons  BY <2>1
  <2>5. s \in Seq(Event)
    <3>1. <<PointerEvent(m_pointerButtons')>> \in Seq(Event)
          /\ <<CaptureRequest(TRUE)>> \in Seq(Event)
      BY <2>4, Events, Zenon
    <3>2. <<>> \in Seq(Event)  OBVIOUS
    <3> QED  BY <3>1, <3>2, Sent
  <2> HIDE DEF s
  <2>6. event_queue' \in Seq(Event) /\ Len(event_queue') <= MaxQueue
    BY <2>1, <2>5, SendType
  <2>7. m_mouseCaptured' \in BOOLEAN /\ m_mouseCapturePending' \in BOOLEAN
    BY <2>1, <2>3 DEF Sees
  <2>8. pointerUnchanged /\ hostButtons' \subseteq Buttons /\ asked' \in BOOLEAN
    BY <2>1 DEF TypeOK
  <2> QED  BY <2>4, <2>6, <2>7, <2>8 DEF TypeOK, pointerUnchanged, core
<1>2. ASSUME NEW bs \in SUBSET Buttons, NEW moved \in BOOLEAN, OnPointerMoved(bs, moved)
      PROVE  TypeOK'
  <2>1. /\ hostButtons' = bs /\ m_pointerButtons' = bs
        /\ Sees(FromCore) /\ pointerUnchanged /\ UNCHANGED asked
        /\ Send(<<PointerEvent(bs)>>) \/ UNCHANGED event_queue
    BY <1>2 DEF OnPointerMoved
  <2>2. <<PointerEvent(bs)>> \in Seq(Event)  BY Events
  <2>3. event_queue' \in Seq(Event) /\ Len(event_queue') <= MaxQueue
    BY <2>1, <2>2, SendType DEF TypeOK
  <2> QED  BY <2>1, <2>3, <1>0 DEF TypeOK, pointerUnchanged, core, Sees
<1>3. CASE OnPointerReleased
  <2>1. /\ hostButtons' = {} /\ m_pointerButtons' = {}
        /\ Sees(FromCore) /\ pointerUnchanged /\ Send(<<PointerEvent({})>>)
        /\ UNCHANGED asked
    BY <1>3 DEF OnPointerReleased
  <2>2. <<PointerEvent({})>> \in Seq(Event)  BY Events
  <2>3. event_queue' \in Seq(Event) /\ Len(event_queue') <= MaxQueue
    BY <2>1, <2>2, SendType
  <2> QED  BY <2>1, <2>3, <1>0 DEF TypeOK, pointerUnchanged, core, Sees
<1>4. CASE OnMouseMoved
  <2>1. /\ Sees(FromCore) /\ pointerUnchanged /\ UNCHANGED <<hostButtons, asked>>
        /\ m_pointerButtons' = IF FromCore.lost THEN {} ELSE m_pointerButtons
        /\ Send(<<PointerEvent(m_pointerButtons)>>) \/ UNCHANGED event_queue
    BY <1>4 DEF OnMouseMoved
  <2>2. <<PointerEvent(m_pointerButtons)>> \in Seq(Event)  BY Events DEF TypeOK
  <2>3. event_queue' \in Seq(Event) /\ Len(event_queue') <= MaxQueue
    BY <2>1, <2>2, SendType DEF TypeOK
  <2> QED  BY <2>1, <2>3, <1>0 DEF TypeOK, pointerUnchanged, core, Sees
<1>5. CASE ButtonsUpUnseen  BY <1>5 DEF TypeOK, ButtonsUpUnseen, page, core
<1>6. CASE OnVisibilityChanged
  <2>1. /\ visible' = ~visible
        /\ Send(<<FocusEvent(visible')>>)
        /\ UNCHANGED <<m_mouseCaptureUserReleased, m_mouseCaptureShortcutDown, asked, host, core>>
        /\ UNCHANGED <<m_mouseCaptured, m_mouseCapturePending, m_pointerButtons>>
           \/ ReleaseMouseCapture
    BY <1>6 DEF OnVisibilityChanged
  <2>2. visible' \in BOOLEAN  BY <2>1
  <2>3. <<FocusEvent(visible')>> \in Seq(Event)  BY <2>2, Events, Zenon
  <2>4. event_queue' \in Seq(Event) /\ Len(event_queue') <= MaxQueue
    BY <2>1, <2>3, SendType
  <2> QED  BY <2>1, <2>2, <2>4 DEF TypeOK, host, core, ReleaseMouseCapture
<1> QED  BY <1>1, <1>2, <1>3, <1>4, <1>5, <1>6, Zenon

-----------------------------------------------------------------------------
(* The toggle chord. *)

\* One button: it is added to the chord only if it is pressed, and dropped
\* from it when it is released.
LEMMA OneButton ==
    ASSUME NEW acc, acc.toggle \in BOOLEAN, NEW buttons, NEW b,
           NEW r, r = CheckButton(acc, buttons, b)
    PROVE  /\ r.toggle \in BOOLEAN
           /\ r.keystate \subseteq acc.keystate \cup (buttons \cap {b})
           /\ b \in mouse_buttons \ buttons => b \notin r.keystate
BY DEF CheckButton, mouse_toggle_check, Chord

\* All buttons: what the chord holds afterwards it held before, or the button
\* is pressed; a button that was released is not in it.
LEMMA AllButtons ==
    ASSUME TypeOK, NEW buttons \in SUBSET Buttons
    PROVE  /\ CheckButtons(buttons).toggle \in BOOLEAN
           /\ CheckButtons(buttons).keystate \subseteq toggle_keystate \cup buttons
           /\ CheckButtons(buttons).keystate \cap (mouse_buttons \ buttons) = {}
<1> DEFINE none  == [keystate |-> toggle_keystate, toggle |-> FALSE]
           left  == CheckButton(none, buttons, "left")
           right == CheckButton(left, buttons, "right")
           all   == CheckButton(right, buttons, "middle")
<1>0. none.toggle \in BOOLEAN /\ none.keystate = toggle_keystate  OBVIOUS
<1> HIDE DEF none
<1>1. /\ left.toggle \in BOOLEAN
      /\ left.keystate \subseteq toggle_keystate \cup (buttons \cap {"left"})
      /\ "left" \in mouse_buttons \ buttons => "left" \notin left.keystate
  BY <1>0, OneButton
<1> HIDE DEF left
<1>2. /\ right.toggle \in BOOLEAN
      /\ right.keystate \subseteq left.keystate \cup (buttons \cap {"right"})
      /\ "right" \in mouse_buttons \ buttons => "right" \notin right.keystate
  BY <1>1, OneButton
<1> HIDE DEF right
<1>3. /\ all.toggle \in BOOLEAN
      /\ all.keystate \subseteq right.keystate \cup (buttons \cap {"middle"})
      /\ "middle" \in mouse_buttons \ buttons => "middle" \notin all.keystate
  BY <1>2, OneButton
<1>4. all = CheckButtons(buttons)  BY DEF all, right, left, none, CheckButtons
<1> HIDE DEF all
<1>5. mouse_buttons \subseteq {"left", "right", "middle"}
  BY InputAssumption DEF TypeOK
<1>6. all.keystate \subseteq toggle_keystate \cup buttons  BY <1>1, <1>2, <1>3
<1>7. all.keystate \cap (mouse_buttons \ buttons) = {}
  <2> SUFFICES ASSUME NEW b \in all.keystate, b \in mouse_buttons \ buttons PROVE FALSE
    OBVIOUS
  <2>1. b \in right.keystate  BY <1>3
  <2>2. b \in left.keystate  BY <2>1, <1>2
  <2> QED  BY <2>1, <2>2, <1>1, <1>2, <1>3, <1>5
<1> QED  BY <1>3, <1>4, <1>6, <1>7

\* Handling an event keeps the types, and the chord made of what is down.
LEMMA HandleTypes ==
    ASSUME TypeOK, ChordIsHeld, handle_event
    PROVE  TypeOK' /\ ChordIsHeld'
<1> DEFINE e == Head(event_queue)
<1>0. event_queue \in Seq(Event) /\ event_queue # <<>>
  BY DEF TypeOK, handle_event
<1>1. /\ e \in Event /\ Tail(event_queue) \in Seq(Event)
      /\ Len(event_queue) \in Nat \ {0} /\ Len(Tail(event_queue)) = Len(event_queue) - 1
  BY <1>0, Handled
<1>2. event_queue' \in Seq(Event) /\ Len(event_queue') <= MaxQueue
  BY <1>1, InputAssumption DEF TypeOK, handle_event
<1>3. UNCHANGED <<host, page, sink, mouse_absxy>>  BY DEF handle_event, coreUnchanged
<1>4. /\ modifiers' \subseteq Modifiers /\ mouse_buttons' \subseteq Buttons
      /\ toggle_keystate' \subseteq Modifiers \cup Buttons
      /\ mouse_enabled' \in BOOLEAN /\ bxkey_state' \subseteq Keys /\ chorded' \in BOOLEAN
      /\ ChordIsHeld'
  <2>1. CASE e.type = "key" /\ HandleKey(e)
    <3>0. e.key \in Keys /\ e.pressed \in BOOLEAN  BY <1>1, <2>1 DEF Event
    <3>1. UNCHANGED <<mouse_buttons, mouse_enabled, chorded>>  BY <2>1 DEF HandleKey
    <3>2. bxkey_state' \subseteq Keys  BY <2>1, <3>0 DEF HandleKey, TypeOK
    <3>3. CASE e.key \notin Modifiers
      BY <2>1, <3>1, <3>2, <3>3 DEF HandleKey, TypeOK, ChordIsHeld
    <3>4. CASE e.key \in Modifiers /\ e.pressed
      <4>1. modifiers' = modifiers \cup {e.key}  BY <2>1, <3>4 DEF HandleKey
      <4>2. toggle_keystate' \subseteq toggle_keystate \cup {e.key}
        BY <2>1, <3>4 DEF HandleKey, mouse_toggle_check
      <4> QED  BY <3>1, <3>2, <3>4, <4>1, <4>2 DEF TypeOK, ChordIsHeld
    <3>5. CASE e.key \in Modifiers /\ ~e.pressed
      <4>1. modifiers' = modifiers \ {e.key}  BY <2>1, <3>5 DEF HandleKey
      <4>2. toggle_keystate' = toggle_keystate \ {e.key}
        BY <2>1, <3>5 DEF HandleKey, mouse_toggle_check
      <4> QED  BY <3>1, <3>2, <3>5, <4>1, <4>2 DEF TypeOK, ChordIsHeld
    <3> QED  BY <3>0, <3>3, <3>4, <3>5
  <2>2. CASE e.type = "pointer" /\ HandlePointer(e)
    <3>0. e.buttons \in SUBSET Buttons  BY <1>1, <2>2 DEF Event
    <3> DEFINE r == CheckButtons(e.buttons)
    <3>1. /\ r.toggle \in BOOLEAN
          /\ r.keystate \subseteq toggle_keystate \cup e.buttons
          /\ r.keystate \cap (mouse_buttons \ e.buttons) = {}
      BY <3>0, AllButtons
    <3>2. /\ toggle_keystate' = r.keystate
          /\ mouse_buttons' = e.buttons
          /\ mouse_enabled' = IF r.toggle THEN ~mouse_enabled ELSE mouse_enabled
          /\ chorded' = (chorded \/ r.toggle)
          /\ UNCHANGED <<modifiers, bxkey_state>>
      BY <2>2, Zenon DEF HandlePointer
    <3> HIDE DEF r, e
    <3> QED  BY <3>0, <3>1, <3>2 DEF TypeOK, ChordIsHeld
  <2>3. CASE e.type = "focus" /\ HandleFocus(e)
    BY <2>3 DEF HandleFocus, TypeOK, ChordIsHeld
  <2>4. CASE e.type = "capture" /\ HandleCapture(e)
    BY <1>1, <2>4 DEF HandleCapture, Event, TypeOK, ChordIsHeld
  <2> QED  BY <2>1, <2>2, <2>3, <2>4 DEF handle_event
<1> HIDE DEF e
<1> QED  BY <1>2, <1>3, <1>4 DEF TypeOK, host, page

\* Every step of the program keeps both.
LEMMA TypeStep ==
    ASSUME TypeOK, ChordIsHeld, [Next]_vars
    PROVE  TypeOK' /\ ChordIsHeld'
<1>p. TypeOK' /\ UNCHANGED core => ChordIsHeld'  BY DEF core, ChordIsHeld
<1>1. ASSUME NEW k \in Keys, OnKeyDown(k) \/ OnKeyUp(k) PROVE TypeOK' /\ UNCHANGED core
  BY <1>1, KeyTypes DEF OnKeyDown, OnKeyUp
<1>2. ASSUME \/ \E b \in Buttons : OnPointerPressed(b)
             \/ \E bs \in SUBSET Buttons, moved \in BOOLEAN : OnPointerMoved(bs, moved)
             \/ OnPointerReleased \/ OnMouseMoved \/ ButtonsUpUnseen
             \/ OnVisibilityChanged
      PROVE  TypeOK' /\ UNCHANGED core
  <2>1. TypeOK'  BY <1>2, PointerTypes, Zenon
  <2>2. UNCHANGED core
    BY <1>2 DEF OnPointerPressed, OnPointerMoved, OnPointerReleased, OnMouseMoved,
                ButtonsUpUnseen, OnVisibilityChanged, pointerUnchanged
  <2> QED  BY <2>1, <2>2
<1>3. CASE handle_event  BY <1>3, HandleTypes
<1>4. CASE set_mouse_mode_absxy
  BY <1>4 DEF set_mouse_mode_absxy, TypeOK, ChordIsHeld, host, page
<1>5. CASE exit \/ Restart
  <2>0. NoGui  BY <1>5 DEF exit, Restart
  <2>1. event_queue' \in Seq(Event) /\ Len(event_queue') <= MaxQueue
    BY <2>0, InputAssumption, EmptySeq DEF NoGui
  <2>2. /\ hostKeys' \subseteq Keys /\ hostButtons' \subseteq Buttons
        /\ visible' \in BOOLEAN
        /\ m_mouseCaptured' \in BOOLEAN /\ m_mouseCapturePending' \in BOOLEAN
        /\ m_mouseCaptureUserReleased' \in BOOLEAN
        /\ m_mouseCaptureShortcutDown' \in BOOLEAN
        /\ m_pointerButtons' \subseteq Buttons
    BY <1>5 DEF exit, Restart, ReleaseMouseCapture, TypeOK, host
  <2> QED  BY <2>0, <2>1, <2>2 DEF NoGui, TypeOK, ChordIsHeld
<1>6. CASE specific_init
  BY <1>6 DEF specific_init, TypeOK, ChordIsHeld, host, page
<1>7. CASE UNCHANGED vars
  BY <1>7 DEF vars, host, page, core, TypeOK, ChordIsHeld
<1> QED  BY <1>p, <1>1, <1>2, <1>3, <1>4, <1>5, <1>6, <1>7, Zenon DEF Next

-----------------------------------------------------------------------------
(* Without a GUI. *)

\* A page that sends something to nobody leaves the queue as it is, and a
\* request of its is not counted.
LEMMA SentToNobody ==
    ASSUME TypeOK, ~sink, ~asked,
           \/ \E k \in Keys : OnKeyDown(k) \/ OnKeyUp(k)
           \/ \E b \in Buttons : OnPointerPressed(b)
           \/ \E bs \in SUBSET Buttons, moved \in BOOLEAN : OnPointerMoved(bs, moved)
           \/ OnPointerReleased \/ OnMouseMoved \/ OnVisibilityChanged
    PROVE  UNCHANGED event_queue /\ ~asked' /\ UNCHANGED core
<1>s. ASSUME NEW s, Send(s) PROVE UNCHANGED event_queue  BY <1>s DEF Send
<1>t. ToggleMouseCaptureFromShortcut => UNCHANGED event_queue /\ ~asked'
  BY <1>s, Zenon DEF ToggleMouseCaptureFromShortcut
<1>1. ASSUME NEW k \in Keys, OnKeyDown(k) \/ OnKeyUp(k)
      PROVE  UNCHANGED event_queue /\ ~asked' /\ UNCHANGED core
  <2>1. UNCHANGED event_queue /\ ~asked'
    BY <1>1, <1>s, <1>t, Zenon DEF OnKeyDown, OnKeyUp, page
  <2> QED  BY <1>1, <2>1, Zenon DEF OnKeyDown, OnKeyUp
<1>2. ASSUME NEW b \in Buttons, OnPointerPressed(b)
      PROVE  UNCHANGED event_queue /\ ~asked' /\ UNCHANGED core
  <2>1. UNCHANGED event_queue /\ ~asked'  BY <1>2, <1>s, Zenon DEF OnPointerPressed
  <2> QED  BY <1>2, <2>1, Zenon DEF OnPointerPressed, pointerUnchanged
<1>3. ASSUME NEW bs \in SUBSET Buttons, NEW moved \in BOOLEAN, OnPointerMoved(bs, moved)
      PROVE  UNCHANGED event_queue /\ ~asked' /\ UNCHANGED core
  BY <1>3, <1>s, Zenon DEF OnPointerMoved, pointerUnchanged
<1>4. ASSUME OnPointerReleased \/ OnMouseMoved
      PROVE  UNCHANGED event_queue /\ ~asked' /\ UNCHANGED core
  <2>1. UNCHANGED asked /\ UNCHANGED core
    BY <1>4, Zenon DEF OnPointerReleased, OnMouseMoved, pointerUnchanged
  <2>2. UNCHANGED event_queue
    <3>1. CASE OnPointerReleased  BY <3>1, <1>s, Zenon DEF OnPointerReleased
    <3>2. CASE OnMouseMoved  BY <3>2, <1>s, Zenon DEF OnMouseMoved
    <3> QED  BY <1>4, <3>1, <3>2
  <2> QED  BY <2>1, <2>2, Zenon
<1>5. ASSUME OnVisibilityChanged
      PROVE  UNCHANGED event_queue /\ ~asked' /\ UNCHANGED core
  BY <1>5, <1>s, Zenon DEF OnVisibilityChanged
<1> QED  BY <1>1, <1>2, <1>3, <1>4, <1>5, Zenon

\* Every step of the program leaves nothing behind without a GUI.
LEMMA NothingStep ==
    ASSUME TypeOK, NothingLeft, [Next]_vars
    PROVE  NothingLeft'
<1>1. CASE sink
  <2>1. CASE exit \/ Restart  BY <2>1 DEF exit, Restart, NoGui, NothingLeft
  <2>2. CASE ~(exit \/ Restart)
    <3>1. UNCHANGED core \/ sink' = sink
      BY <2>2, <1>1 DEF Next, vars, OnKeyDown, OnKeyUp, OnPointerPressed, OnPointerMoved,
            OnPointerReleased, OnMouseMoved, ButtonsUpUnseen, OnVisibilityChanged,
            handle_event, coreUnchanged, set_mouse_mode_absxy, specific_init,
            pointerUnchanged
    <3> QED  BY <3>1, <1>1 DEF core, NothingLeft
  <2> QED  BY <2>1, <2>2
<1>2. CASE ~sink
  <2>0. event_queue = <<>> /\ ~asked  BY <1>2 DEF NothingLeft
  <2>1. CASE \/ \E k \in Keys : OnKeyDown(k) \/ OnKeyUp(k)
             \/ \E b \in Buttons : OnPointerPressed(b)
             \/ \E bs \in SUBSET Buttons, moved \in BOOLEAN : OnPointerMoved(bs, moved)
             \/ OnPointerReleased \/ OnMouseMoved \/ OnVisibilityChanged
    <3>1. UNCHANGED event_queue /\ ~asked' /\ UNCHANGED core
      BY <2>0, <2>1, <1>2, SentToNobody, Zenon
    <3> QED  BY <3>1 DEF NothingLeft, core
  <2>2. CASE ButtonsUpUnseen \/ UNCHANGED vars
    BY <2>2 DEF ButtonsUpUnseen, vars, page, core, NothingLeft
  <2>3. CASE exit \/ Restart  BY <2>3 DEF exit, Restart, NoGui, NothingLeft
  <2>4. CASE specific_init  BY <2>4 DEF specific_init, NothingLeft
  <2>5. ~handle_event /\ ~set_mouse_mode_absxy
    BY <2>0, <1>2 DEF handle_event, set_mouse_mode_absxy
  <2> QED  BY <2>1, <2>2, <2>3, <2>4, <2>5, Zenon DEF Next
<1> QED  BY <1>1, <1>2

-----------------------------------------------------------------------------
(* Modifiers come up. *)

\* The kinds of the events.
LEMMA EventTypes ==
    /\ \A k, p : KeyEvent(k, p).type = "key" /\ KeyEvent(k, p).key = k
    /\ \A bs : PointerEvent(bs).type = "pointer"
    /\ \A f : FocusEvent(f).type = "focus"
    /\ \A b : CaptureRequest(b).type = "capture"
BY DEF KeyEvent, PointerEvent, FocusEvent, CaptureRequest

\* The single events that are sent, as sequences.
LEMMA Single ==
    ASSUME NEW e \in Event
    PROVE  <<e>> \in Seq(Event) /\ DOMAIN <<e>> = {1} /\ <<e>>[1] = e
OBVIOUS

\* Two of them.
LEMMA Pair ==
    ASSUME NEW c \in Event, NEW p \in Event
    PROVE  /\ <<c>> \o <<p>> \in Seq(Event)
           /\ DOMAIN (<<c>> \o <<p>>) = 1 .. 2
           /\ (<<c>> \o <<p>>)[1] = c /\ (<<c>> \o <<p>>)[2] = p
           /\ <<>> \o <<p>> = <<p>>
<1> DEFINE a == <<c>>
           b == <<p>>
<1>1. /\ a \in Seq(Event) /\ b \in Seq(Event) /\ Len(a) = 1 /\ Len(b) = 1
      /\ a[1] = c /\ b[1] = p
  OBVIOUS
<1>2. <<>> \o b = b  OBVIOUS
<1> HIDE DEF a, b
<1>3. /\ a \o b \in Seq(Event) /\ DOMAIN (a \o b) = 1 .. (Len(a) + Len(b))
      /\ \A i \in 1 .. Len(a) : (a \o b)[i] = a[i]
      /\ \A i \in 1 .. Len(b) : (a \o b)[Len(a) + i] = b[i]
  BY <1>1, Sent
<1>4. DOMAIN (a \o b) = 1 .. 2 /\ (a \o b)[1] = c /\ (a \o b)[1 + 1] = p
  BY <1>1, <1>3
<1> QED  BY <1>2, <1>3, <1>4 DEF a, b

\* What a click sends.
LEMMA Click ==
    ASSUME NEW ask \in BOOLEAN, NEW bs \in SUBSET Buttons,
           NEW s, s = (IF ask THEN <<CaptureRequest(TRUE)>> ELSE <<>>) \o <<PointerEvent(bs)>>
    PROVE  /\ s \in Seq(Event)
           /\ \A j \in DOMAIN s : s[j].type # "key"
           /\ ask => /\ 1 \in DOMAIN s /\ s[1] = CaptureRequest(TRUE)
                     /\ \A j \in DOMAIN s : j > 1 => s[j].type # "capture"
           /\ ~ask => \A j \in DOMAIN s : s[j].type # "capture"
<1>1. CaptureRequest(TRUE) \in Event /\ PointerEvent(bs) \in Event
      /\ CaptureRequest(TRUE).type = "capture" /\ PointerEvent(bs).type = "pointer"
  BY Events, EventTypes, Zenon
<1> DEFINE c == CaptureRequest(TRUE)
           p == PointerEvent(bs)
<1>2. c \in Event /\ p \in Event /\ c.type = "capture" /\ p.type = "pointer"
  BY <1>1
<1>3. s = (IF ask THEN <<c>> ELSE <<>>) \o <<p>>  BY Zenon
<1>g. c = CaptureRequest(TRUE)  OBVIOUS
<1> HIDE DEF c, p
<1>4. CASE ask
  <2>1. s = <<c>> \o <<p>>  BY <1>3, <1>4
  <2>2. s \in Seq(Event) /\ DOMAIN s = 1 .. 2 /\ s[1] = c /\ s[2] = p
    <3>1. /\ <<c>> \o <<p>> \in Seq(Event)
          /\ DOMAIN (<<c>> \o <<p>>) = 1 .. 2
          /\ (<<c>> \o <<p>>)[1] = c /\ (<<c>> \o <<p>>)[2] = p
      BY <1>2, Pair, ZenonT(60)
    <3>2. s \in Seq(Event) /\ DOMAIN s = 1 .. 2  BY <2>1, <3>1, Zenon
    <3>3. s[1] = c  BY <2>1, <3>1, Zenon
    <3>4. s[2] = p  BY <2>1, <3>1, Zenon
    <3> QED  BY <3>2, <3>3, <3>4
  <2>3. \A j \in DOMAIN s : j = 1 \/ j = 2  BY <2>2
  <2>4. /\ \A j \in DOMAIN s : s[j].type # "key"
        /\ \A j \in DOMAIN s : j > 1 => s[j].type # "capture"
    <3>1. ~(1 > 1)  OBVIOUS
    <3>2. c.type # "key" /\ p.type # "key" /\ p.type # "capture"  BY <1>2
    <3> QED  BY <3>1, <3>2, <2>2, <2>3, Zenon
  <2>5. 1 \in DOMAIN s  BY <2>2
  <2> QED  BY <1>4, <1>g, <2>2, <2>4, <2>5, Zenon
<1>5. CASE ~ask
  <2>1. s = <<p>>  BY <1>3, <1>5, <1>2, Pair
  <2>2. s \in Seq(Event) /\ DOMAIN s = {1} /\ s[1] = p  BY <2>1, <1>2, Single
  <2>3. \A j \in DOMAIN s : s[j].type = "pointer"  BY <2>2, <1>2
  <2> QED  BY <1>5, <2>2, <2>3
<1> QED  BY <1>4, <1>5

\* Nothing is sent and no modifier is released.
LEMMA SendNothing ==
    ASSUME ReleasesFollow, UNCHANGED <<event_queue, bxkey_state>>,
           Modifiers \cap Watched \subseteq Watched'
    PROVE  ReleasesFollow'
<1> DEFINE watched == Watched'
<1>1. ReleasesIn(event_queue, bxkey_state, Watched)  BY DEF ReleasesFollow
<1>2. Modifiers \cap Watched \subseteq watched  OBVIOUS
<1> HIDE DEF watched
<1>3. ReleasesIn(event_queue, bxkey_state, watched)
  BY <1>1, <1>2 DEF ReleasesIn, ReleaseAfter
<1> QED  BY <1>3 DEF ReleasesFollow, watched

\* Without a GUI there is nothing to release.
LEMMA NoneToRelease ==
    ASSUME event_queue' = <<>>, bxkey_state' = {}
    PROVE  ReleasesFollow'
BY DEF ReleasesFollow, ReleasesIn

\* Events are sent, and the releases that need to be are among them.
LEMMA SendSome ==
    ASSUME TypeOK, NothingLeft, ReleasesFollow,
           NEW s \in Seq(Event), Send(s), UNCHANGED bxkey_state,
           \A k \in Modifiers \cap Watched :
               k \in Watched' \/ \E j \in DOMAIN s : s[j] \in Releases(k),
           \A k \in Modifiers, j \in DOMAIN s : s[j] = KeyEvent(k, TRUE) => k \in Watched'
    PROVE  ReleasesFollow'
<1> DEFINE watched == Watched'
<1>1. event_queue \in Seq(Event) /\ ReleasesIn(event_queue, bxkey_state, Watched)
  BY DEF TypeOK, ReleasesFollow
<1>2. /\ \A k \in Modifiers \cap Watched :
             k \in watched \/ \E j \in DOMAIN s : s[j] \in Releases(k)
      /\ \A k \in Modifiers, j \in DOMAIN s : s[j] = KeyEvent(k, TRUE) => k \in watched
  BY Zenon
<1> HIDE DEF watched
<1>3. ReleasesIn(event_queue \o s, bxkey_state, watched)  BY <1>1, <1>2, SendReleases, Zenon
<1>4. CASE sink  BY <1>3, <1>4 DEF ReleasesFollow, watched, Send
<1>5. CASE ~sink  BY <1>5, NoneToRelease DEF NothingLeft, Send
<1> QED  BY <1>4, <1>5

\* Events of the mouse are sent and no modifier is released.
LEMMA SendMouse ==
    ASSUME TypeOK, NothingLeft, ReleasesFollow,
           NEW s \in Seq(Event), Send(s), UNCHANGED bxkey_state,
           \A j \in DOMAIN s : s[j].type # "key",
           Modifiers \cap Watched \subseteq Watched'
    PROVE  ReleasesFollow'
<1>1. ASSUME NEW k \in Modifiers, NEW j \in DOMAIN s, s[j] = KeyEvent(k, TRUE)
      PROVE  k \in Watched'
  <2>1. KeyEvent(k, TRUE).type = "key"  BY EventTypes, Zenon
  <2>2. s[j].type # "key"  OBVIOUS
  <2> QED  BY <1>1, <2>1, <2>2, Zenon
<1> QED  BY <1>1, SendSome, Zenon

\* The shortcut.
LEMMA ToggleSends ==
    ASSUME ToggleMouseCaptureFromShortcut
    PROVE  \/ UNCHANGED event_queue
           \/ Send(<<CaptureRequest(FALSE)>>)
           \/ Send(<<CaptureRequest(TRUE)>>)
BY Zenon DEF ToggleMouseCaptureFromShortcut

\* A request is no key.
LEMMA RequestIsNoKey ==
    ASSUME NEW b \in BOOLEAN
    PROVE  /\ <<CaptureRequest(b)>> \in Seq(Event)
           /\ \A j \in DOMAIN <<CaptureRequest(b)>> : <<CaptureRequest(b)>>[j].type # "key"
<1>1. CaptureRequest(b) \in Event /\ CaptureRequest(b).type = "capture"
  BY Events, EventTypes, Zenon
<1> QED  BY <1>1, Single

\* A step that may send a request, and nothing else.
LEMMA SendRequest ==
    ASSUME TypeOK, NothingLeft, ReleasesFollow, UNCHANGED bxkey_state,
           \/ UNCHANGED event_queue
           \/ Send(<<CaptureRequest(FALSE)>>)
           \/ Send(<<CaptureRequest(TRUE)>>),
           Modifiers \cap Watched \subseteq Watched'
    PROVE  ReleasesFollow'
<1>1. CASE UNCHANGED event_queue  BY <1>1, SendNothing, Zenon
<1>2. CASE Send(<<CaptureRequest(FALSE)>>)
  BY <1>2, RequestIsNoKey, SendMouse, Zenon
<1>3. CASE Send(<<CaptureRequest(TRUE)>>)
  BY <1>3, RequestIsNoKey, SendMouse, Zenon
<1> QED  BY <1>1, <1>2, <1>3

\* The keyboard handlers of the page.
LEMMA KeysFollow ==
    ASSUME TypeOK, NothingLeft, ReleasesFollow, NEW k \in Keys, OnKeyDown(k) \/ OnKeyUp(k)
    PROVE  ReleasesFollow'
<1>c. UNCHANGED bxkey_state  BY DEF OnKeyDown, OnKeyUp, core
<1>m. "m" \notin Modifiers  BY DEF Modifiers
<1>1. CASE OnKeyDown(k)
  <2>0. hostKeys' = hostKeys \cup {k} /\ visible' = visible
    BY <1>1 DEF OnKeyDown, page
  <2>w. Modifiers \cap Watched \subseteq Watched'  BY <2>0 DEF Watched
  <2>1. CASE ~visible \/ (k = "m" /\ Modifiers \subseteq hostKeys)
    <3>1. \/ UNCHANGED event_queue
          \/ Send(<<CaptureRequest(FALSE)>>)
          \/ Send(<<CaptureRequest(TRUE)>>)
      BY <2>1, <1>1, ToggleSends, Zenon DEF OnKeyDown
    <3> QED  BY <3>1, <2>w, <1>c, SendRequest, Zenon
  <2>2. CASE visible /\ ~(k = "m" /\ Modifiers \subseteq hostKeys)
    <3>1. Send(<<KeyEvent(k, TRUE)>>)  BY <2>2, <1>1 DEF OnKeyDown
    <3>2. KeyEvent(k, TRUE) \in Event /\ <<KeyEvent(k, TRUE)>> \in Seq(Event)
      BY Events, Zenon
    <3>3. /\ DOMAIN <<KeyEvent(k, TRUE)>> = {1}
          /\ <<KeyEvent(k, TRUE)>>[1] = KeyEvent(k, TRUE)
      BY <3>2, Single, Zenon
    <3>4. k \in Watched'  BY <2>0, <2>2 DEF Watched
    <3>5. ASSUME NEW l \in Modifiers, NEW j \in DOMAIN <<KeyEvent(k, TRUE)>>,
                 <<KeyEvent(k, TRUE)>>[j] = KeyEvent(l, TRUE)
          PROVE  l \in Watched'
      <4>1. j = 1  BY <3>3, <3>5, Zenon
      <4>2. KeyEvent(k, TRUE) = KeyEvent(l, TRUE)  BY <4>1, <3>3, <3>5, Zenon
      <4>3. l = k  BY <4>2 DEF KeyEvent
      <4> QED  BY <4>3, <3>4
    <3> QED  BY <3>1, <3>2, <3>5, <2>w, <1>c, SendSome, Zenon
  <2> QED  BY <2>1, <2>2
<1>2. CASE OnKeyUp(k)
  <2>0. hostKeys' = hostKeys \ {k} /\ visible' = visible
    BY <1>2 DEF OnKeyUp, page
  <2>1. CASE ~visible \/ (k = "m" /\ m_mouseCaptureShortcutDown)
    <3>1. UNCHANGED event_queue  BY <2>1, <1>2 DEF OnKeyUp
    <3>2. Modifiers \cap Watched \subseteq Watched'  BY <2>0, <2>1, <1>m DEF Watched
    <3> QED  BY <3>1, <3>2, <1>c, SendNothing, Zenon
  <2>2. CASE visible /\ ~(k = "m" /\ m_mouseCaptureShortcutDown)
    <3>1. Send(<<KeyEvent(k, FALSE)>>)  BY <2>2, <1>2 DEF OnKeyUp
    <3>2. KeyEvent(k, FALSE) \in Event /\ <<KeyEvent(k, FALSE)>> \in Seq(Event)
      BY Events, Zenon
    <3>3. /\ DOMAIN <<KeyEvent(k, FALSE)>> = {1}
          /\ <<KeyEvent(k, FALSE)>>[1] = KeyEvent(k, FALSE)
      BY <3>2, Single, Zenon
    <3>4. ASSUME NEW l \in Modifiers \cap Watched
          PROVE  l \in Watched'
                 \/ \E j \in DOMAIN <<KeyEvent(k, FALSE)>> : <<KeyEvent(k, FALSE)>>[j] \in Releases(l)
      <4>1. CASE l # k  BY <4>1, <2>0, <2>2 DEF Watched
      <4>2. CASE l = k  BY <4>2, <3>3, Zenon DEF Releases
      <4> QED  BY <4>1, <4>2
    <3>5. ASSUME NEW l \in Modifiers, NEW j \in DOMAIN <<KeyEvent(k, FALSE)>>,
                 <<KeyEvent(k, FALSE)>>[j] = KeyEvent(l, TRUE)
          PROVE  l \in Watched'
      <4>1. j = 1  BY <3>3, <3>5, Zenon
      <4>2. KeyEvent(k, FALSE) = KeyEvent(l, TRUE)  BY <4>1, <3>3, <3>5, Zenon
      <4> QED  BY <4>2 DEF KeyEvent
    <3> QED  BY <3>1, <3>2, <3>4, <3>5, <1>c, SendSome, Zenon
  <2> QED  BY <2>1, <2>2
<1> QED  BY <1>1, <1>2

\* The pointer handlers.
LEMMA PointerFollow ==
    ASSUME TypeOK, NothingLeft, ReleasesFollow,
           \/ \E b \in Buttons : OnPointerPressed(b)
           \/ \E bs \in SUBSET Buttons, moved \in BOOLEAN : OnPointerMoved(bs, moved)
           \/ OnPointerReleased \/ OnMouseMoved
    PROVE  ReleasesFollow'
<1>p. ASSUME NEW bs \in SUBSET Buttons
      PROVE  /\ <<PointerEvent(bs)>> \in Seq(Event)
             /\ \A j \in DOMAIN <<PointerEvent(bs)>> : <<PointerEvent(bs)>>[j].type # "key"
  <2>1. PointerEvent(bs) \in Event /\ PointerEvent(bs).type = "pointer"
    BY Events, EventTypes, Zenon
  <2> QED  BY <2>1, Single
<1>k. ASSUME pointerUnchanged
      PROVE  UNCHANGED bxkey_state /\ Modifiers \cap Watched \subseteq Watched'
  BY <1>k DEF pointerUnchanged, core, Watched
<1>1. ASSUME NEW b \in Buttons, OnPointerPressed(b) PROVE ReleasesFollow'
  <2> DEFINE ask == ~m_mouseCaptureUserReleased /\ ~mouse_absxy /\ ~mouse_enabled
             s   == (IF ask THEN <<CaptureRequest(TRUE)>> ELSE <<>>)
                    \o <<PointerEvent(m_pointerButtons')>>
  <2>1. Send(s) /\ pointerUnchanged  BY <1>1, Zenon DEF OnPointerPressed
  <2>2. m_pointerButtons' \in SUBSET Buttons  BY <1>1 DEF OnPointerPressed
  <2>3. ask \in BOOLEAN  BY DEF TypeOK
  <2>4. s \in Seq(Event) /\ \A j \in DOMAIN s : s[j].type # "key"
    BY <2>2, <2>3, Click, Zenon
  <2> HIDE DEF s
  <2> QED  BY <2>1, <2>4, <1>k, SendMouse, Zenon
<1>2. ASSUME NEW bs \in SUBSET Buttons, NEW moved \in BOOLEAN, OnPointerMoved(bs, moved)
      PROVE  ReleasesFollow'
  <2>1. pointerUnchanged /\ (Send(<<PointerEvent(bs)>>) \/ UNCHANGED event_queue)
    BY <1>2, Zenon DEF OnPointerMoved
  <2> QED  BY <2>1, <1>p, <1>k, SendMouse, SendNothing, Zenon
<1>3. CASE OnPointerReleased
  <2>1. pointerUnchanged /\ Send(<<PointerEvent({})>>) /\ {} \in SUBSET Buttons
    BY <1>3, Zenon DEF OnPointerReleased
  <2> QED  BY <2>1, <1>p, <1>k, SendMouse, Zenon
<1>4. CASE OnMouseMoved
  <2>1. pointerUnchanged /\ (Send(<<PointerEvent(m_pointerButtons)>>) \/ UNCHANGED event_queue)
    BY <1>4, Zenon DEF OnMouseMoved
  <2>2. m_pointerButtons \in SUBSET Buttons  BY DEF TypeOK
  <2> QED  BY <2>1, <2>2, <1>p, <1>k, SendMouse, SendNothing, Zenon
<1> QED  BY <1>1, <1>2, <1>3, <1>4, Zenon

\* A window that is hidden sends the event that stands for every release.
LEMMA VisibilityFollow ==
    ASSUME TypeOK, NothingLeft, ReleasesFollow, OnVisibilityChanged
    PROVE  ReleasesFollow'
<1>0. /\ visible' = ~visible /\ Send(<<FocusEvent(visible')>>)
      /\ UNCHANGED <<bxkey_state, hostKeys>>
  BY DEF OnVisibilityChanged, host, core
<1>1. visible' \in BOOLEAN  BY <1>0
<1>2. FocusEvent(visible') \in Event /\ FocusEvent(visible').type = "focus"
  BY <1>1, Events, EventTypes, Zenon
<1>3. /\ <<FocusEvent(visible')>> \in Seq(Event)
      /\ DOMAIN <<FocusEvent(visible')>> = {1}
      /\ <<FocusEvent(visible')>>[1] = FocusEvent(visible')
  BY <1>2, Single, Zenon
<1>4. \A j \in DOMAIN <<FocusEvent(visible')>> : <<FocusEvent(visible')>>[j].type # "key"
  BY <1>2, <1>3, Zenon
<1>5. CASE visible'
  <2>1. Modifiers \cap Watched \subseteq Watched'  BY <1>0, <1>5 DEF Watched
  <2> QED  BY <2>1, <1>0, <1>3, <1>4, SendMouse, Zenon
<1>6. CASE ~visible'
  <2>1. FocusEvent(visible') = FocusEvent(FALSE)
    <3>1. visible' = FALSE  BY <1>1, <1>6
    <3> QED  BY <3>1, Zenon
  <2>2. ASSUME NEW k \in Modifiers \cap Watched
        PROVE  k \in Watched' \/ \E j \in DOMAIN <<FocusEvent(visible')>> :
                                     <<FocusEvent(visible')>>[j] \in Releases(k)
    BY <2>1, <1>3, Zenon DEF Releases
  <2>3. ASSUME NEW k \in Modifiers, NEW j \in DOMAIN <<FocusEvent(visible')>>,
               <<FocusEvent(visible')>>[j] = KeyEvent(k, TRUE)
        PROVE  k \in Watched'
    <3>1. KeyEvent(k, TRUE).type = "key"  BY EventTypes, Zenon
    <3> QED  BY <2>3, <3>1, <1>4, Zenon
  <2> QED  BY <2>2, <2>3, <1>0, <1>3, SendSome, Zenon
<1> QED  BY <1>5, <1>6

\* The core handles a press, a release, or something that is neither.
LEMMA HandleFollow ==
    ASSUME TypeOK, ReleasesFollow, handle_event
    PROVE  ReleasesFollow'
<1> DEFINE q == event_queue
           e == Head(q)
<1>0. q \in Seq(Event) /\ q # <<>> /\ ReleasesIn(q, bxkey_state, Watched)
  BY DEF TypeOK, handle_event, ReleasesFollow
<1>1. e \in Event  BY <1>0, Handled
<1>2. event_queue' = Tail(q) /\ Watched' = Watched
  BY DEF handle_event, coreUnchanged, host, page, Watched
<1>3. ASSUME NEW k \in Modifiers \cap bxkey_state'
      PROVE  (k \in bxkey_state /\ e \notin Releases(k)) \/ e = KeyEvent(k, TRUE)
  <2>1. CASE e.type = "key" /\ HandleKey(e)
    <3>0. e \in [type : {"key"}, key : Keys, pressed : BOOLEAN]
      BY <1>1, <2>1 DEF Event
    <3>1. CASE e.pressed
      <4>1. bxkey_state' = bxkey_state \cup {e.key}  BY <2>1, <3>1 DEF HandleKey
      <4>2. CASE k = e.key  BY <4>2, <3>0, <3>1 DEF KeyEvent
      <4>3. CASE k # e.key
        <5>1. k \in bxkey_state  BY <4>1, <4>3
        <5>2. e # FocusEvent(FALSE)  BY <2>1, EventTypes, Zenon
        <5>3. e # KeyEvent(k, FALSE)  BY <4>3 DEF KeyEvent
        <5> QED  BY <5>1, <5>2, <5>3, Zenon DEF Releases
      <4> QED  BY <4>2, <4>3
    <3>2. CASE ~e.pressed
      <4>1. bxkey_state' = bxkey_state \ {e.key}  BY <2>1, <3>2 DEF HandleKey
      <4>2. k \in bxkey_state /\ k # e.key  BY <4>1
      <4>3. e # KeyEvent(k, FALSE)  BY <4>2 DEF KeyEvent
      <4>4. e # FocusEvent(FALSE)  BY <2>1, EventTypes, Zenon
      <4> QED  BY <4>2, <4>3, <4>4, Zenon DEF Releases
    <3> QED  BY <3>1, <3>2
  <2>k. ASSUME e.type # "key", e.type # "focus", UNCHANGED bxkey_state
        PROVE  k \in bxkey_state /\ e \notin Releases(k)
    <3>t. KeyEvent(k, FALSE).type = "key" /\ FocusEvent(FALSE).type = "focus"
      BY EventTypes, Zenon
    <3>1. e # KeyEvent(k, FALSE)
      <4> SUFFICES ASSUME e = KeyEvent(k, FALSE) PROVE FALSE  OBVIOUS
      <4>1. e.type = "key"  BY <3>t, Zenon
      <4> QED  BY <4>1, <2>k, Zenon
    <3>2. e # FocusEvent(FALSE)
      <4> SUFFICES ASSUME e = FocusEvent(FALSE) PROVE FALSE  OBVIOUS
      <4>1. e.type = "focus"  BY <3>t, Zenon
      <4> QED  BY <4>1, <2>k, Zenon
    <3> QED  BY <2>k, <3>1, <3>2, Zenon DEF Releases
  <2>2. CASE e.type = "pointer" /\ HandlePointer(e)
    <3>1. UNCHANGED bxkey_state  BY <2>2, Zenon DEF HandlePointer
    <3>2. e.type # "key" /\ e.type # "focus"  BY <2>2
    <3> QED  BY <3>1, <3>2, <2>k, Zenon
  <2>3. CASE e.type = "focus" /\ HandleFocus(e)
    <3>1. CASE e.focused
      <4>1. UNCHANGED bxkey_state  BY <2>3, <3>1 DEF HandleFocus
      <4>2. e # FocusEvent(FALSE)  BY <3>1 DEF FocusEvent
      <4>3. e # KeyEvent(k, FALSE)  BY <2>3, EventTypes, Zenon
      <4> QED  BY <4>1, <4>2, <4>3, Zenon DEF Releases
    <3>2. CASE ~e.focused  BY <2>3, <3>2 DEF HandleFocus
    <3> QED  BY <3>1, <3>2
  <2>4. CASE e.type = "capture" /\ HandleCapture(e)
    <3>1. UNCHANGED bxkey_state  BY <2>4 DEF HandleCapture
    <3>2. e.type # "key" /\ e.type # "focus"  BY <2>4
    <3> QED  BY <3>1, <3>2, <2>k, Zenon
  <2> QED  BY <2>1, <2>2, <2>3, <2>4, Zenon DEF handle_event
<1> DEFINE after == bxkey_state'
<1>4. \A k \in Modifiers \cap after :
         (k \in bxkey_state /\ Head(q) \notin Releases(k)) \/ Head(q) = KeyEvent(k, TRUE)
  BY <1>3, Zenon
<1> HIDE DEF after, q
<1>5. ReleasesIn(Tail(q), after, Watched)  BY <1>0, <1>4, HandleReleases, Zenon
<1> QED  BY <1>2, <1>5, Zenon DEF after, ReleasesFollow

\* Every step of the program keeps the releases on their way.
LEMMA FollowStep ==
    ASSUME TypeOK, NothingLeft, ReleasesFollow, [Next]_vars
    PROVE  ReleasesFollow'
<1>1. ASSUME NEW k \in Keys, OnKeyDown(k) \/ OnKeyUp(k) PROVE ReleasesFollow'
  BY <1>1, KeysFollow, Zenon
<1>2. CASE \/ \E b \in Buttons : OnPointerPressed(b)
           \/ \E bs \in SUBSET Buttons, moved \in BOOLEAN : OnPointerMoved(bs, moved)
           \/ OnPointerReleased \/ OnMouseMoved
  BY <1>2, PointerFollow, Zenon
<1>3. CASE OnVisibilityChanged  BY <1>3, VisibilityFollow
<1>4. CASE handle_event  BY <1>4, HandleFollow
<1>5. CASE ButtonsUpUnseen \/ set_mouse_mode_absxy \/ specific_init \/ UNCHANGED vars
  <2>1. UNCHANGED <<event_queue, bxkey_state, hostKeys, visible>>
    BY <1>5 DEF ButtonsUpUnseen, set_mouse_mode_absxy, specific_init, vars, host, page, core
  <2>2. Modifiers \cap Watched \subseteq Watched'  BY <2>1 DEF Watched
  <2> QED  BY <2>1, <2>2, SendNothing, Zenon
<1>6. CASE exit \/ Restart  BY <1>6, NoneToRelease DEF exit, Restart, NoGui
<1> QED  BY <1>1, <1>2, <1>3, <1>4, <1>5, <1>6, Zenon DEF Next

-----------------------------------------------------------------------------
(* The capture follows the page. *)

\* The intent the requests carry is the one CaptureFollowsIntent is about.
LEMMA IntentSuffices ==
    ASSUME IntentQueued
    PROVE  CaptureFollowsIntent
<1>1. ASSUME NEW b \in BOOLEAN, WillBeIn(event_queue, Present(b), b)
      PROVE  chorded \/ WillBe(b)
  <2>1. CASE chorded  BY <2>1
  <2>2. CASE ~chorded
    <3>1. Present(b) = mouse_enabled  BY <2>2, Zenon DEF Present
    <3>2. WillBeIn(event_queue, mouse_enabled, b)  BY <1>1, <3>1, Zenon
    <3> QED  BY <3>2, Zenon DEF WillBeIn, WillBe
  <2> QED  BY <2>1, <2>2
<1> QED  BY <1>1, Zenon DEF IntentQueued, CaptureFollowsIntent

\* A step of the page that asks for nothing and awaits and releases nothing
\* that it did not before, whether or not what it sends is heard.
LEMMA AsksNothing ==
    ASSUME TypeOK, IntentQueued, UNCHANGED <<chorded, mouse_enabled, asked>>,
           NEW s \in Seq(Event), event_queue' = event_queue \o s \/ UNCHANGED event_queue,
           \A j \in DOMAIN s : s[j].type # "capture",
           m_mouseCapturePending' => m_mouseCapturePending,
           m_mouseCaptureUserReleased' =>
               m_mouseCaptureUserReleased /\ ~m_mouseCaptured' /\ ~m_mouseCapturePending'
    PROVE  IntentQueued'
<1>1. event_queue \in Seq(Event)  BY DEF TypeOK
<1>2. ASSUME NEW b, WillBeIn(event_queue, Present(b), b)
      PROVE  WillBeIn(event_queue', Present(b)', b)
  <2>1. Present(b)' = Present(b)  BY Zenon DEF Present
  <2>2. WillBeIn(event_queue \o s, Present(b), b)  BY <1>1, <1>2, SendWillBe, Zenon
  <2> QED  BY <1>2, <2>1, <2>2, Zenon
<1> QED  BY <1>2, Zenon DEF IntentQueued

\* What was sent is in the queue, or was dropped.
LEMMA SentOrDropped ==
    ASSUME NEW s, Send(s)
    PROVE  event_queue' = event_queue \o s \/ UNCHANGED event_queue
BY DEF Send

\* A step that sends nothing asks for nothing.
LEMMA NothingSent ==
    <<>> \in Seq(Event) /\ \A j \in DOMAIN <<>> : <<>>[j].type # "capture"
BY EmptySeq

\* A single request is a queue whose last request it is.
LEMMA AskOnce ==
    ASSUME TypeOK, NEW b \in BOOLEAN, sink, Send(<<CaptureRequest(b)>>)
    PROVE  WillBeIn(event_queue', Present(b)', b)
<1>1. CaptureRequest(b) \in Event  BY Events, Zenon
<1>2. /\ <<CaptureRequest(b)>> \in Seq(Event)
      /\ DOMAIN <<CaptureRequest(b)>> = {1}
      /\ <<CaptureRequest(b)>>[1] = CaptureRequest(b)
  BY <1>1, Single, Zenon
<1> DEFINE s == <<CaptureRequest(b)>>
<1> HIDE DEF s
<1>3. s \in Seq(Event) /\ 1 \in DOMAIN s /\ s[1] = CaptureRequest(b)
  BY <1>2, Zenon DEF s
<1>4. ~(1 > 1)  OBVIOUS
<1>5. \A j \in DOMAIN s : j > 1 => s[j].type # "capture"
  BY <1>2, <1>4, Zenon DEF s
<1>6. event_queue \in Seq(Event) /\ event_queue' = event_queue \o s
  BY Zenon DEF TypeOK, Send, s
<1> DEFINE now == Present(b)'
<1> HIDE DEF now
<1>7. WillBeIn(event_queue \o s, now, b)  BY <1>3, <1>5, <1>6, AskWillBe, Zenon
<1> QED  BY <1>6, <1>7, Zenon DEF now

\* The shortcut: a release is asked for with the flag that says so, and a
\* page that starts to wait has asked for the mouse.
LEMMA ToggleCapture ==
    ASSUME TypeOK, NothingLeft, IntentQueued, UNCHANGED core, ToggleMouseCaptureFromShortcut
    PROVE  IntentQueued'
<1>0. UNCHANGED <<chorded, mouse_enabled>>  BY DEF core
<1>1. CASE /\ m_mouseCaptureUserReleased' = TRUE
           /\ m_mouseCaptured' = FALSE
           /\ m_mouseCapturePending' = FALSE
           /\ Send(<<CaptureRequest(FALSE)>>)
  <2>1. CASE sink
    <3>1. WillBeIn(event_queue', Present(FALSE)', FALSE)  BY <2>1, <1>1, AskOnce, Zenon
    <3> QED  BY <3>1, <1>1, Zenon DEF IntentQueued
  <2>2. CASE ~sink
    <3>1. event_queue' = <<>> /\ mouse_enabled' = FALSE /\ chorded' = FALSE
      BY <2>2, <1>0, <1>1 DEF Send, NothingLeft
    <3>2. Present(FALSE)' = FALSE  BY <3>1, Zenon DEF Present
    <3>3. \A i \in DOMAIN <<>> : <<>>[i].type # "capture"  OBVIOUS
    <3>4. WillBeIn(event_queue', Present(FALSE)', FALSE)
      BY <3>1, <3>2, <3>3, Zenon DEF WillBeIn
    <3> QED  BY <3>4, <1>1, Zenon DEF IntentQueued
  <2> QED  BY <2>1, <2>2
<1>2. CASE /\ m_mouseCaptureUserReleased' = FALSE
           /\ mouse_absxy /\ Sees(FromCore) /\ UNCHANGED <<event_queue, asked>>
  <2>1. m_mouseCapturePending' => m_mouseCapturePending
    BY <1>2, UpdateNow, Zenon DEF Sees
  <2>4. ~m_mouseCaptureUserReleased'  BY <1>2
  <2> QED  BY <2>1, <2>4, <1>0, <1>2, NothingSent, AsksNothing, Zenon
<1>3. CASE /\ m_mouseCaptureUserReleased' = FALSE
           /\ Send(<<CaptureRequest(TRUE)>>) /\ asked' = sink
  <2>1. CASE sink
    <3>1. WillBeIn(event_queue', Present(TRUE)', TRUE)  BY <2>1, <1>3, AskOnce, Zenon
    <3> QED  BY <3>1, <1>3, Zenon DEF IntentQueued
  <2>2. CASE ~sink
    <3>1. ~asked' /\ ~m_mouseCaptureUserReleased'  BY <2>2, <1>3
    <3> QED  BY <3>1, Zenon DEF IntentQueued
  <2> QED  BY <2>1, <2>2
<1> QED  BY <1>1, <1>2, <1>3, Zenon DEF ToggleMouseCaptureFromShortcut

\* The keyboard handlers of the page.
LEMMA KeysCapture ==
    ASSUME TypeOK, NothingLeft, IntentQueued, NEW k \in Keys, OnKeyDown(k) \/ OnKeyUp(k)
    PROVE  IntentQueued'
<1>c. UNCHANGED core  BY DEF OnKeyDown, OnKeyUp
<1>0. UNCHANGED <<chorded, mouse_enabled>>  BY <1>c DEF core
<1>f. m_mouseCaptureUserReleased => ~m_mouseCaptured /\ ~m_mouseCapturePending
  BY Zenon DEF IntentQueued
<1>1. CASE ToggleMouseCaptureFromShortcut  BY <1>1, <1>c, ToggleCapture
<1>2. ASSUME UNCHANGED <<m_mouseCaptured, m_mouseCapturePending, m_mouseCaptureUserReleased,
                         asked>>,
             \/ UNCHANGED event_queue
             \/ \E p \in BOOLEAN : Send(<<KeyEvent(k, p)>>)
      PROVE  IntentQueued'
  <2>1. CASE UNCHANGED event_queue
    BY <2>1, <1>0, <1>2, <1>f, NothingSent, AsksNothing, Zenon
  <2>2. ASSUME NEW p \in BOOLEAN, Send(<<KeyEvent(k, p)>>) PROVE IntentQueued'
    <3>1. KeyEvent(k, p) \in Event /\ KeyEvent(k, p).type = "key"  BY Events, EventTypes, Zenon
    <3>2. /\ <<KeyEvent(k, p)>> \in Seq(Event)
          /\ DOMAIN <<KeyEvent(k, p)>> = {1}
          /\ <<KeyEvent(k, p)>>[1] = KeyEvent(k, p)
      BY <3>1, Single, Zenon
    <3>3. \A j \in DOMAIN <<KeyEvent(k, p)>> : <<KeyEvent(k, p)>>[j].type # "capture"
      BY <3>1, <3>2, Zenon
    <3>4. event_queue' = event_queue \o <<KeyEvent(k, p)>> \/ UNCHANGED event_queue
      BY <2>2, SentOrDropped, Zenon
    <3> QED  BY <3>2, <3>3, <3>4, <1>0, <1>2, <1>f, AsksNothing, Zenon
  <2> QED  BY <1>2, <2>1, <2>2, Zenon
<1>3. ~ToggleMouseCaptureFromShortcut =>
         /\ UNCHANGED <<m_mouseCaptured, m_mouseCapturePending, m_mouseCaptureUserReleased,
                        asked>>
         /\ \/ UNCHANGED event_queue
            \/ \E p \in BOOLEAN : Send(<<KeyEvent(k, p)>>)
  <2>t. TRUE \in BOOLEAN /\ FALSE \in BOOLEAN  OBVIOUS
  <2>1. CASE OnKeyDown(k)
    <3>1. UNCHANGED page \/ UNCHANGED <<m_mouseCaptured, m_mouseCapturePending,
                                         m_mouseCaptureUserReleased, asked>>
          \/ ToggleMouseCaptureFromShortcut
      BY <2>1, Zenon DEF OnKeyDown
    <3>2. UNCHANGED event_queue \/ Send(<<KeyEvent(k, TRUE)>>) \/ ToggleMouseCaptureFromShortcut
      BY <2>1, Zenon DEF OnKeyDown
    <3> QED  BY <2>t, <3>1, <3>2, Zenon DEF page
  <2>2. CASE OnKeyUp(k)
    <3>1. UNCHANGED page \/ UNCHANGED <<m_mouseCaptured, m_mouseCapturePending,
                                         m_mouseCaptureUserReleased, asked>>
      BY <2>2, Zenon DEF OnKeyUp
    <3>2. UNCHANGED event_queue \/ Send(<<KeyEvent(k, FALSE)>>)
      BY <2>2, Zenon DEF OnKeyUp
    <3> QED  BY <2>t, <3>1, <3>2, Zenon DEF page
  <2> QED  BY <2>1, <2>2
<1> QED  BY <1>1, <1>2, <1>3, Zenon

\* The pointer handlers: a click asks for the mouse only if the user has not
\* released it, and the others ask for nothing.
LEMMA PointerCapture ==
    ASSUME TypeOK, IntentQueued,
           \/ \E b \in Buttons : OnPointerPressed(b)
           \/ \E bs \in SUBSET Buttons, moved \in BOOLEAN : OnPointerMoved(bs, moved)
           \/ OnPointerReleased \/ OnMouseMoved
    PROVE  IntentQueued'
<1>0. /\ m_mouseCapturePending \in BOOLEAN /\ m_mouseCaptured \in BOOLEAN
      /\ m_mouseCaptureUserReleased \in BOOLEAN
      /\ mouse_enabled \in BOOLEAN /\ mouse_absxy \in BOOLEAN
      /\ event_queue \in Seq(Event)
  BY DEF TypeOK
<1>f. m_mouseCaptureUserReleased => ~m_mouseCaptured /\ ~m_mouseCapturePending
  BY Zenon DEF IntentQueued
<1>k. ASSUME pointerUnchanged
      PROVE  UNCHANGED <<chorded, mouse_enabled, m_mouseCaptureUserReleased>>
  BY <1>k DEF pointerUnchanged, core
<1>p. ASSUME NEW bs \in SUBSET Buttons
      PROVE  /\ <<PointerEvent(bs)>> \in Seq(Event)
             /\ \A j \in DOMAIN <<PointerEvent(bs)>> :
                   <<PointerEvent(bs)>>[j].type # "capture"
  <2>1. PointerEvent(bs) \in Event /\ PointerEvent(bs).type = "pointer"
    BY Events, EventTypes, Zenon
  <2> QED  BY <2>1, Single
<1>s. ASSUME pointerUnchanged, UNCHANGED asked, Sees(FromCore), NEW bs \in SUBSET Buttons,
             Send(<<PointerEvent(bs)>>) \/ UNCHANGED event_queue
      PROVE  IntentQueued'
  <2>1. /\ m_mouseCapturePending' => m_mouseCapturePending
        /\ m_mouseCaptured' => ~m_mouseCaptureUserReleased
    BY <1>s, UpdateNow, Zenon DEF Sees
  <2>2. m_mouseCaptureUserReleased' =>
           m_mouseCaptureUserReleased /\ ~m_mouseCaptured' /\ ~m_mouseCapturePending'
    BY <2>1, <1>s, <1>k, <1>f, Zenon
  <2>3. CASE UNCHANGED event_queue
    BY <2>1, <2>2, <2>3, <1>s, <1>k, NothingSent, AsksNothing, Zenon
  <2>4. CASE Send(<<PointerEvent(bs)>>)
    <3>1. event_queue' = event_queue \o <<PointerEvent(bs)>> \/ UNCHANGED event_queue
      BY <2>4, SentOrDropped, Zenon
    <3> QED  BY <3>1, <2>1, <2>2, <1>p, <1>s, <1>k, AsksNothing, Zenon
  <2> QED  BY <1>s, <2>3, <2>4
<1>1. ASSUME NEW b \in Buttons, OnPointerPressed(b) PROVE IntentQueued'
  <2> DEFINE ask == ~m_mouseCaptureUserReleased /\ ~mouse_absxy /\ ~mouse_enabled
             u   == UpdateMouseCaptureFromCore(m_mouseCapturePending \/ ask, m_mouseCaptured,
                                               m_mouseCaptureUserReleased)
             s   == (IF ask THEN <<CaptureRequest(TRUE)>> ELSE <<>>)
                    \o <<PointerEvent(m_pointerButtons')>>
  <2>1. /\ Send(s) /\ Sees(u) /\ pointerUnchanged
        /\ asked' = IF ask THEN sink ELSE asked
    BY <1>1, Zenon DEF OnPointerPressed
  <2>2. m_pointerButtons' \in SUBSET Buttons  BY <1>1 DEF OnPointerPressed
  <2>3. ask \in BOOLEAN /\ (m_mouseCapturePending \/ ask) \in BOOLEAN  BY <1>0
  <2>4. /\ s \in Seq(Event)
        /\ ask => /\ 1 \in DOMAIN s /\ s[1] = CaptureRequest(TRUE)
                  /\ \A j \in DOMAIN s : j > 1 => s[j].type # "capture"
        /\ ~ask => \A j \in DOMAIN s : s[j].type # "capture"
    BY <2>2, <2>3, Click, Zenon
  <2>5. /\ u.captured => ~m_mouseCaptureUserReleased
        /\ u.pending => m_mouseCapturePending \/ ask
    BY <2>3, <1>0, Update, Zenon
  <2>6. ask => ~m_mouseCaptureUserReleased  BY Zenon
  <2> HIDE DEF s, u, ask
  <2>7. event_queue' = event_queue \o s \/ UNCHANGED event_queue
    BY <2>1, SentOrDropped, Zenon
  <2>8. CASE ask /\ sink
    <3> DEFINE now == Present(TRUE)'
    <3> HIDE DEF now
    <3>1. WillBeIn(event_queue \o s, now, TRUE)
      BY <2>4, <2>8, <1>0, AskWillBe, Zenon
    <3>2. WillBeIn(event_queue', Present(TRUE)', TRUE)
      BY <3>1, <2>1, <2>8, Zenon DEF now, Send
    <3>3. ~m_mouseCaptureUserReleased'  BY <2>1, <1>k, <2>6, <2>8
    <3> QED  BY <3>2, <3>3, Zenon DEF IntentQueued
  <2>a. CASE ask /\ ~sink
    <3>1. ~asked' /\ ~m_mouseCaptureUserReleased'  BY <2>1, <1>k, <2>6, <2>a
    <3> QED  BY <3>1, Zenon DEF IntentQueued
  <2>9. CASE ~ask
    <3>1. m_mouseCapturePending' => m_mouseCapturePending  BY <2>1, <2>5, <2>9, Zenon DEF Sees
    <3>4. UNCHANGED asked  BY <2>1, <2>9
    <3>2. m_mouseCaptured' => ~m_mouseCaptureUserReleased  BY <2>1, <2>5, Zenon DEF Sees
    <3>3. m_mouseCaptureUserReleased' =>
             m_mouseCaptureUserReleased /\ ~m_mouseCaptured' /\ ~m_mouseCapturePending'
      BY <3>1, <3>2, <2>1, <1>k, <1>f, Zenon
    <3> QED  BY <3>1, <3>3, <3>4, <2>1, <2>4, <2>7, <2>9, <1>k, AsksNothing, Zenon
  <2> QED  BY <2>8, <2>9, <2>a
<1>2. ASSUME NEW bs \in SUBSET Buttons, NEW moved \in BOOLEAN, OnPointerMoved(bs, moved)
      PROVE  IntentQueued'
  <2>1. /\ pointerUnchanged /\ Sees(FromCore) /\ UNCHANGED asked
        /\ Send(<<PointerEvent(bs)>>) \/ UNCHANGED event_queue
    BY <1>2, Zenon DEF OnPointerMoved
  <2> QED  BY <2>1, <1>s, Zenon
<1>3. CASE OnPointerReleased
  <2>1. /\ pointerUnchanged /\ Sees(FromCore) /\ Send(<<PointerEvent({})>>)
        /\ {} \in SUBSET Buttons /\ UNCHANGED asked
    BY <1>3, Zenon DEF OnPointerReleased
  <2> QED  BY <2>1, <1>s, Zenon
<1>4. CASE OnMouseMoved
  <2>1. /\ pointerUnchanged /\ Sees(FromCore) /\ UNCHANGED asked
        /\ Send(<<PointerEvent(m_pointerButtons)>>) \/ UNCHANGED event_queue
    BY <1>4, Zenon DEF OnMouseMoved
  <2>2. m_pointerButtons \in SUBSET Buttons  BY DEF TypeOK
  <2> QED  BY <2>1, <2>2, <1>s, Zenon
<1> QED  BY <1>1, <1>2, <1>3, <1>4, Zenon

\* The window appears or disappears, which releases the capture of the page.
LEMMA VisibilityCapture ==
    ASSUME TypeOK, IntentQueued, OnVisibilityChanged
    PROVE  IntentQueued'
<1>0. /\ visible' = ~visible /\ Send(<<FocusEvent(visible')>>)
      /\ UNCHANGED <<chorded, mouse_enabled, m_mouseCaptureUserReleased, asked>>
      /\ \/ UNCHANGED <<m_mouseCaptured, m_mouseCapturePending>>
         \/ m_mouseCaptured' = FALSE /\ m_mouseCapturePending' = FALSE
  BY DEF OnVisibilityChanged, ReleaseMouseCapture, core
<1>1. visible' \in BOOLEAN  BY <1>0
<1>2. FocusEvent(visible') \in Event /\ FocusEvent(visible').type = "focus"
  BY <1>1, Events, EventTypes, Zenon
<1>3. /\ <<FocusEvent(visible')>> \in Seq(Event)
      /\ DOMAIN <<FocusEvent(visible')>> = {1}
      /\ <<FocusEvent(visible')>>[1] = FocusEvent(visible')
  BY <1>2, Single, Zenon
<1>4. \A j \in DOMAIN <<FocusEvent(visible')>> : <<FocusEvent(visible')>>[j].type # "capture"
  BY <1>2, <1>3, Zenon
<1>5. event_queue' = event_queue \o <<FocusEvent(visible')>> \/ UNCHANGED event_queue
  BY <1>0, SentOrDropped, Zenon
<1>6. m_mouseCaptureUserReleased => ~m_mouseCaptured /\ ~m_mouseCapturePending
  BY Zenon DEF IntentQueued
<1>7. /\ m_mouseCapturePending' => m_mouseCapturePending
      /\ m_mouseCaptureUserReleased' =>
            m_mouseCaptureUserReleased /\ ~m_mouseCaptured' /\ ~m_mouseCapturePending'
  <2>1. CASE UNCHANGED <<m_mouseCaptured, m_mouseCapturePending>>
    BY <2>1, <1>0, <1>6
  <2>2. CASE m_mouseCaptured' = FALSE /\ m_mouseCapturePending' = FALSE
    BY <2>2, <1>0
  <2> QED  BY <1>0, <2>1, <2>2
<1> QED  BY <1>0, <1>3, <1>4, <1>5, <1>7, AsksNothing, Zenon

\* The core: a request it handles takes effect, and only the chord changes
\* mouse_enabled otherwise.
LEMMA HandleCaptures ==
    ASSUME TypeOK, IntentQueued, handle_event
    PROVE  IntentQueued'
<1> DEFINE q == event_queue
           e == Head(q)
           after == mouse_enabled'
<1>0. q \in Seq(Event) /\ q # <<>>  BY DEF TypeOK, handle_event
<1>1. /\ event_queue' = Tail(q)
      /\ UNCHANGED <<m_mouseCaptured, m_mouseCapturePending, m_mouseCaptureUserReleased, asked>>
  BY DEF handle_event, coreUnchanged, page
<1>2. mouse_enabled \in BOOLEAN /\ chorded \in BOOLEAN  BY DEF TypeOK
<1>3. \/ chorded' /\ e.type # "capture"
      \/ /\ chorded' = chorded /\ after = mouse_enabled /\ e.type # "capture"
      \/ /\ chorded' = FALSE /\ after = e.enabled /\ e.type = "capture"
         /\ Len(q) \in Nat
  <2>1. CASE e.type = "key" /\ HandleKey(e)  BY <2>1 DEF HandleKey
  <2>2. CASE e.type = "pointer" /\ HandlePointer(e)
    <3>1. e.type # "capture"  BY <2>2
    <3>2. CASE CheckButtons(e.buttons).toggle
      BY <2>2, <3>1, <3>2, Zenon DEF HandlePointer
    <3>3. CASE ~CheckButtons(e.buttons).toggle
      <4>1. mouse_enabled' = mouse_enabled  BY <2>2, <3>3, Zenon DEF HandlePointer
      <4>2. chorded' = (chorded \/ CheckButtons(e.buttons).toggle)
        BY <2>2, Zenon DEF HandlePointer
      <4>3. chorded' = chorded
        <5>1. CASE chorded  BY <5>1, <4>2, <1>2
        <5>2. CASE ~chorded  BY <5>2, <4>2, <3>3, <1>2
        <5> QED  BY <5>1, <5>2
      <4> QED  BY <3>1, <4>1, <4>3, Zenon
    <3> QED  BY <3>2, <3>3
  <2>3. CASE e.type = "focus" /\ HandleFocus(e)  BY <2>3 DEF HandleFocus
  <2>4. CASE e.type = "capture" /\ HandleCapture(e)
    <3>1. Len(q) \in Nat  BY <1>0, LenProperties
    <3> QED  BY <2>4, <3>1 DEF HandleCapture
  <2> QED  BY <2>1, <2>2, <2>3, <2>4, Zenon DEF handle_event
<1>4. ASSUME NEW b \in BOOLEAN, WillBeIn(q, Present(b), b)
      PROVE  WillBeIn(Tail(q), Present(b)', b)
  <2> DEFINE now  == Present(b)
             then == Present(b)'
  <2>1. CASE /\ chorded' = FALSE /\ after = e.enabled /\ e.type = "capture"
    <3>1. then = Head(q).enabled  BY <2>1 DEF Present
    <3>2. IF Head(q).type = "capture" THEN then = Head(q).enabled ELSE then = now
      BY <2>1, <3>1, Zenon
    <3> HIDE DEF now, then, q
    <3>3. WillBeIn(Tail(q), then, b)  BY <3>2, <1>0, <1>4, HandleWillBe, Zenon DEF now
    <3> QED  BY <3>3 DEF then
  <2>2. CASE e.type # "capture" /\ (chorded' \/ (chorded' = chorded /\ after = mouse_enabled))
    <3>1. then = b \/ then = now
      <4>1. CASE chorded'  BY <4>1, Zenon DEF Present
      <4>2. CASE chorded' = chorded /\ after = mouse_enabled  BY <4>2, Zenon DEF Present
      <4> QED  BY <4>1, <4>2, <2>2
    <3>2. IF Head(q).type = "capture" THEN now = Head(q).enabled ELSE now = now
      BY <2>2, Zenon
    <3> HIDE DEF now, then, q
    <3>3. WillBeIn(Tail(q), now, b)  BY <3>2, <1>0, <1>4, HandleWillBe, Zenon DEF now
    <3>4. WillBeIn(Tail(q), then, b)
      <4>1. CASE then = now  BY <4>1, <3>3
      <4>2. CASE then = b  BY <4>2, <3>3, Zenon DEF WillBeIn
      <4> QED  BY <4>1, <4>2, <3>1
    <3> QED  BY <3>4 DEF then
  <2> QED  BY <2>1, <2>2, <1>3, Zenon
<1> HIDE DEF after, e
<1> QED  BY <1>1, <1>4, Zenon DEF IntentQueued

\* Every step of the program keeps the requests the page's last word.
LEMMA IntentStep ==
    ASSUME TypeOK, NothingLeft, IntentQueued, [Next]_vars
    PROVE  IntentQueued'
<1>1. ASSUME NEW k \in Keys, OnKeyDown(k) \/ OnKeyUp(k) PROVE IntentQueued'
  BY <1>1, KeysCapture, Zenon
<1>2. CASE \/ \E b \in Buttons : OnPointerPressed(b)
           \/ \E bs \in SUBSET Buttons, moved \in BOOLEAN : OnPointerMoved(bs, moved)
           \/ OnPointerReleased \/ OnMouseMoved
  BY <1>2, PointerCapture, Zenon
<1>3. CASE OnVisibilityChanged  BY <1>3, VisibilityCapture
<1>4. CASE handle_event  BY <1>4, HandleCaptures
<1>5. CASE ButtonsUpUnseen \/ set_mouse_mode_absxy \/ specific_init \/ UNCHANGED vars
  <2>1. UNCHANGED <<event_queue, chorded, mouse_enabled, m_mouseCaptured,
                    m_mouseCapturePending, m_mouseCaptureUserReleased, asked>>
    BY <1>5 DEF ButtonsUpUnseen, set_mouse_mode_absxy, specific_init, vars, host, page, core
  <2>2. Present(FALSE)' = Present(FALSE) /\ Present(TRUE)' = Present(TRUE)
    BY <2>1, Zenon DEF Present
  <2> QED  BY <2>1, <2>2, Zenon DEF IntentQueued
<1>6. CASE exit \/ Restart
  <2>1. event_queue' = <<>> /\ mouse_enabled' = FALSE /\ chorded' = FALSE /\ ~asked'
    BY <1>6 DEF exit, Restart, NoGui
  <2>2. m_mouseCaptureUserReleased' => ~m_mouseCaptured' /\ ~m_mouseCapturePending'
    <3>1. m_mouseCaptureUserReleased => ~m_mouseCaptured /\ ~m_mouseCapturePending
      BY Zenon DEF IntentQueued
    <3> QED  BY <3>1, <1>6 DEF exit, Restart, ReleaseMouseCapture
  <2>3. \A i \in DOMAIN <<>> : <<>>[i].type # "capture"  OBVIOUS
  <2>4. Present(FALSE)' = FALSE  BY <2>1, Zenon DEF Present
  <2>5. WillBeIn(event_queue', Present(FALSE)', FALSE)  BY <2>1, <2>3, <2>4, Zenon DEF WillBeIn
  <2> QED  BY <2>1, <2>2, <2>5, Zenon DEF IntentQueued
<1> QED  BY <1>1, <1>2, <1>3, <1>4, <1>5, <1>6, Zenon DEF Next

-----------------------------------------------------------------------------
(* The theorems. *)

\* The inductive invariant holds of the program.
THEOREM Invariant == Spec => []Inv
<1>1. Init => Inv
  <2> SUFFICES ASSUME Init PROVE Inv  OBVIOUS
  <2>1. event_queue \in Seq(Event) /\ Len(event_queue) <= MaxQueue
    BY EmptySeq, InputAssumption DEF Init
  <2>2. TypeOK /\ ChordIsHeld  BY <2>1 DEF Init, TypeOK, ChordIsHeld
  <2>3. ReleasesFollow  BY DEF Init, ReleasesFollow, ReleasesIn
  <2>4. IntentQueued  BY DEF Init, IntentQueued
  <2>5. NothingLeft  BY DEF Init, NothingLeft
  <2> QED  BY <2>2, <2>3, <2>4, <2>5 DEF Inv
<1>2. Inv /\ [Next]_vars => Inv'
  <2> SUFFICES ASSUME Inv, [Next]_vars PROVE Inv'  OBVIOUS
  <2>1. TypeOK /\ ChordIsHeld /\ NothingLeft /\ ReleasesFollow /\ IntentQueued  BY DEF Inv
  <2>2. TypeOK' /\ ChordIsHeld'  BY <2>1, TypeStep
  <2>3. ReleasesFollow'  BY <2>1, FollowStep
  <2>4. IntentQueued'  BY <2>1, IntentStep
  <2>5. NothingLeft'  BY <2>1, NothingStep
  <2> QED  BY <2>2, <2>3, <2>4, <2>5 DEF Inv
<1> QED  BY <1>1, <1>2, PTL DEF Spec

\* The toggle chord is made of keys and buttons that are down as far as the
\* GUI has been told (mouse_toggle_check and release_keyboard_state).
THEOREM Chord_held == Spec => []ChordInv
<1>1. Inv => ChordInv  BY DEF Inv, ChordInv
<1> QED  BY <1>1, Invariant, PTL

\* A modifier the guest believes to be down is held, or an event that releases
\* it is in the queue, however long the queue is and whenever the window was
\* hidden (OnVisibilityChanged, OnKeyUp, release_keyboard_state).
THEOREM Modifiers_come_up == Spec => []ModifiersComeUp
<1>1. Inv => ModifiersComeUp
  <2> SUFFICES ASSUME ReleasesFollow, NEW k \in Modifiers \cap bxkey_state
               PROVE  k \in hostKeys \/ Queued(KeyEvent(k, FALSE)) \/ Queued(FocusEvent(FALSE))
    BY Zenon DEF Inv, ModifiersComeUp
  <2>1. ReleaseAfter(event_queue, 0, k, Watched)  BY Zenon DEF ReleasesFollow, ReleasesIn
  <2>2. k \in Watched => k \in hostKeys  BY DEF Watched
  <2> QED  BY <2>1, <2>2, Zenon DEF ReleaseAfter, Releases, Queued
<1> QED  BY <1>1, Invariant, PTL

\* Unless the chord switched the mouse behind the page's back, the core ends
\* up with the mouse where the page means it to be, unless the page asked when
\* there was no GUI to hear it (ToggleMouseCaptureFromShortcut,
\* OnPointerPressed, RequestMouseCapture).
THEOREM Capture_follows == Spec => []CaptureFollowsIntent
<1>1. Inv => CaptureFollowsIntent  BY IntentSuffices DEF Inv
<1> QED  BY <1>1, Invariant, PTL
=============================================================================
