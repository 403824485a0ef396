----------------------------- MODULE InputPath -----------------------------
(***************************************************************************)
(* Keyboard and mouse of the DirectX display: the handlers of DirectXPage  *)
(* on the UI thread, the event queue of gui/uwp_dx.cc, and handle_events   *)
(* on the emulator thread, with the mouse toggle chord of gui/gui.cc and   *)
(* the key state of iodev/devices.cc.                                      *)
(*                                                                         *)
(* Whether the mouse is captured is kept four times: by the page, which    *)
(* acts on clicks and on Ctrl+Alt+M, in the bridge, where the page reads   *)
(* what the core last said, in the parameter mouse_enabled, and in         *)
(* bx_devices.  The emulator thread sets the last three together; requests *)
(* of the page reach it through the queue.                                 *)
(*                                                                         *)
(* A session is one start of the emulator from the page.  Its GUI comes    *)
(* up later on the emulator thread and may go down before the page ends    *)
(* the session; outside that time the bridge drops what the page sends.    *)
(*                                                                         *)
(* The page hears of keys only while its window is visible; the window is  *)
(* taken to lose the focus only by being hidden, which is all the page     *)
(* tells the core.  The toggle method is the default one, ctrl and the     *)
(* middle button, or ctrl and both others.                                 *)
(***************************************************************************)
EXTENDS Integers, Sequences

CONSTANTS Keys,       \* keys of the host, "ctrl", "alt" and "m" among them
          Buttons,    \* mouse buttons, of "left", "right" and "middle"
          MaxQueue    \* bound: events waiting

Modifiers == {"ctrl", "alt"}

ASSUME InputAssumption ==
    /\ Modifiers \cup {"m"} \subseteq Keys
    /\ Buttons \subseteq {"left", "right", "middle"}
    /\ Keys \cap Buttons = {}
    /\ MaxQueue \in Nat \ {0}

VARIABLES
    hostKeys, hostButtons,         \* what the user holds down
    visible,                       \* m_windowVisible
    m_mouseCaptured, m_mouseCapturePending,
    m_mouseCaptureUserReleased, m_mouseCaptureShortcutDown,
    m_pointerButtons,
    asked,                         \* the page's last request found a GUI
    sink,                          \* g_sink holds the functions of a GUI
    event_queue,
    modifiers,                     \* ctrl_l_down, alt_l_down and the right ones
    mouse_buttons,
    toggle_keystate,
    mouse_enabled,                 \* the parameter, and g_mouseCaptured with it
    mouse_absxy,                   \* and g_mouseAbsolute
    bxkey_state,                   \* the keys the guest was told are down
    chorded                        \* the chord was the last to set mouse_enabled

host == <<hostKeys, hostButtons>>
page == <<m_mouseCaptured, m_mouseCapturePending, m_mouseCaptureUserReleased,
          m_mouseCaptureShortcutDown, m_pointerButtons, visible, asked>>
core == <<sink, modifiers, mouse_buttons, toggle_keystate, mouse_enabled, mouse_absxy,
          bxkey_state, chorded>>
vars == <<host, page, event_queue, core>>

Event == [type : {"key"}, key : Keys, pressed : BOOLEAN]
         \cup [type : {"pointer"}, buttons : SUBSET Buttons]
         \cup [type : {"focus"}, focused : BOOLEAN]
         \cup [type : {"capture"}, enabled : BOOLEAN]

KeyEvent(k, p)      == [type |-> "key", key |-> k, pressed |-> p]
PointerEvent(bs)    == [type |-> "pointer", buttons |-> bs]
FocusEvent(f)       == [type |-> "focus", focused |-> f]
CaptureRequest(e)   == [type |-> "capture", enabled |-> e]

Init ==
    /\ hostKeys = {}
    /\ hostButtons = {}
    /\ visible = TRUE
    /\ m_mouseCaptured = FALSE
    /\ m_mouseCapturePending = FALSE
    /\ m_mouseCaptureUserReleased = FALSE
    /\ m_mouseCaptureShortcutDown = FALSE
    /\ m_pointerButtons = {}
    /\ asked = FALSE
    /\ sink = FALSE
    /\ event_queue = <<>>
    /\ modifiers = {}
    /\ mouse_buttons = {}
    /\ toggle_keystate = {}
    /\ mouse_enabled = FALSE
    /\ mouse_absxy = FALSE
    /\ bxkey_state = {}
    /\ chorded = FALSE

-----------------------------------------------------------------------------
(* The UI thread: the capture state of the page. *)

\* The bridge's Send functions and the enqueue functions of the sink: without
\* one the events are dropped.
Send(events) ==
    \/ /\ sink
       /\ Len(event_queue) + Len(events) <= MaxQueue
       /\ event_queue' = event_queue \o events
    \/ /\ ~sink
       /\ UNCHANGED event_queue

\* UpdateMouseCaptureFromCore, from a page whose flags are pending, captured
\* and released.
UpdateMouseCaptureFromCore(pending, captured, released) ==
    LET waiting       == pending /\ ~mouse_enabled /\ ~mouse_absxy
        shouldCapture == ~released /\ (mouse_enabled \/ waiting) /\ ~mouse_absxy
    IN  [captured |-> shouldCapture,
         pending  |-> waiting /\ (captured = shouldCapture \/ shouldCapture),
         lost     |-> captured /\ ~shouldCapture]

Sees(u) ==
    /\ m_mouseCaptured' = u.captured
    /\ m_mouseCapturePending' = u.pending

FromCore == UpdateMouseCaptureFromCore(m_mouseCapturePending, m_mouseCaptured,
                                       m_mouseCaptureUserReleased)

\* ReleaseMouseCapture
ReleaseMouseCapture ==
    /\ m_mouseCaptured' = FALSE
    /\ m_mouseCapturePending' = FALSE
    /\ m_pointerButtons' = IF m_mouseCaptured \/ m_mouseCapturePending THEN {}
                           ELSE m_pointerButtons

\* ToggleMouseCaptureFromShortcut
ToggleMouseCaptureFromShortcut ==
    LET u == FromCore IN
    \/ /\ u.captured \/ u.pending \/ mouse_enabled
       /\ m_mouseCaptureUserReleased' = TRUE
       /\ m_mouseCaptured' = FALSE
       /\ m_mouseCapturePending' = FALSE
       /\ m_pointerButtons' = IF u.lost \/ u.captured THEN {} ELSE m_pointerButtons
       /\ Send(<<CaptureRequest(FALSE)>>)
       /\ asked' = sink
    \/ /\ ~(u.captured \/ u.pending \/ mouse_enabled)
       /\ m_mouseCaptureUserReleased' = FALSE
       /\ IF mouse_absxy
          THEN Sees(u) /\ UNCHANGED <<event_queue, asked>>
          ELSE /\ Sees(UpdateMouseCaptureFromCore(TRUE, u.captured, FALSE))
               /\ Send(<<CaptureRequest(TRUE)>>)
               /\ asked' = sink
       /\ m_pointerButtons' = IF u.lost THEN {} ELSE m_pointerButtons

-----------------------------------------------------------------------------
(* The UI thread: keys, pointer and visibility. *)

\* OnKeyDown of a key that was up, with HandleMouseCaptureShortcut.
OnKeyDown(k) ==
    /\ k \notin hostKeys
    /\ hostKeys' = hostKeys \cup {k}
    /\ IF ~visible THEN UNCHANGED <<page, event_queue>>
       ELSE IF k = "m" /\ Modifiers \subseteq hostKeys
       THEN /\ m_mouseCaptureShortcutDown' = TRUE
            /\ IF m_mouseCaptureShortcutDown
               THEN UNCHANGED <<m_mouseCaptured, m_mouseCapturePending,
                                m_mouseCaptureUserReleased, m_pointerButtons, asked,
                                event_queue>>
               ELSE ToggleMouseCaptureFromShortcut
            /\ UNCHANGED visible
       ELSE /\ Send(<<KeyEvent(k, TRUE)>>)
            /\ UNCHANGED page
    /\ UNCHANGED <<hostButtons, core>>

\* OnKeyUp: the release of a shortcut's key is not passed on.
OnKeyUp(k) ==
    /\ k \in hostKeys
    /\ hostKeys' = hostKeys \ {k}
    /\ IF ~visible THEN UNCHANGED <<page, event_queue>>
       ELSE IF k = "m" /\ m_mouseCaptureShortcutDown
       THEN /\ m_mouseCaptureShortcutDown' = FALSE
            /\ UNCHANGED <<m_mouseCaptured, m_mouseCapturePending,
                           m_mouseCaptureUserReleased, m_pointerButtons, visible, asked,
                           event_queue>>
       ELSE /\ Send(<<KeyEvent(k, FALSE)>>)
            /\ UNCHANGED page
    /\ UNCHANGED <<hostButtons, core>>

pointerUnchanged == UNCHANGED <<hostKeys, visible, m_mouseCaptureUserReleased,
                                m_mouseCaptureShortcutDown, core>>

\* Mutant of OnPointerPressed: a click asks for the mouse also after the user
\* has released it.
OnPointerPressed_after_release(b) ==
    LET ask == ~mouse_absxy /\ ~mouse_enabled
        u   == UpdateMouseCaptureFromCore(m_mouseCapturePending \/ ask, m_mouseCaptured,
                                          m_mouseCaptureUserReleased)
    IN
    /\ visible
    /\ hostButtons = {}
    /\ hostButtons' = {b}
    /\ m_pointerButtons' = IF u.lost THEN {} ELSE {b}
    /\ Sees(u)
    /\ Send((IF ask THEN <<CaptureRequest(TRUE)>> ELSE <<>>) \o <<PointerEvent(m_pointerButtons')>>)
    /\ asked' = IF ask THEN sink ELSE asked
    /\ pointerUnchanged

\* OnPointerPressed, raised for the first button only: a click asks for the
\* mouse unless the user has released it.  A capture that ends here, because
\* the guest has gone over to absolute positions, takes the button with it.
OnPointerPressed(b) ==
    LET ask == ~m_mouseCaptureUserReleased /\ ~mouse_absxy /\ ~mouse_enabled
        u   == UpdateMouseCaptureFromCore(m_mouseCapturePending \/ ask, m_mouseCaptured,
                                          m_mouseCaptureUserReleased)
    IN
    /\ visible
    /\ hostButtons = {}
    /\ hostButtons' = {b}
    /\ m_pointerButtons' = IF u.lost THEN {} ELSE {b}
    /\ Sees(u)
    /\ Send((IF ask THEN <<CaptureRequest(TRUE)>> ELSE <<>>) \o <<PointerEvent(m_pointerButtons')>>)
    /\ asked' = IF ask THEN sink ELSE asked
    /\ pointerUnchanged

\* OnPointerMoved, also raised when a further button is pressed or one of
\* several released, as OnPointerWheelChanged is for the wheel; captured,
\* nothing is sent if the pointer did not move.
OnPointerMoved(bs, moved) ==
    LET u == FromCore IN
    /\ visible
    /\ hostButtons = {} <=> bs = {}
    /\ hostButtons' = bs
    /\ m_pointerButtons' = bs
    /\ Sees(u)
    /\ IF moved \/ ~(u.captured \/ u.pending)
       THEN Send(<<PointerEvent(bs)>>)
       ELSE UNCHANGED event_queue
    /\ UNCHANGED asked
    /\ pointerUnchanged

\* OnPointerReleased, raised when the last button is released.
OnPointerReleased ==
    /\ visible
    /\ hostButtons # {}
    /\ hostButtons' = {}
    /\ m_pointerButtons' = {}
    /\ Sees(FromCore)
    /\ Send(<<PointerEvent({})>>)
    /\ UNCHANGED asked
    /\ pointerUnchanged

\* OnMouseMoved: motion of a captured mouse, with the buttons last seen.
OnMouseMoved ==
    LET u == FromCore IN
    /\ visible
    /\ Sees(u)
    /\ m_pointerButtons' = IF u.lost THEN {} ELSE m_pointerButtons
    /\ IF u.captured THEN Send(<<PointerEvent(m_pointerButtons)>>) ELSE UNCHANGED event_queue
    /\ UNCHANGED <<hostButtons, asked>>
    /\ pointerUnchanged

\* A button is let go while nobody looks.
ButtonsUpUnseen ==
    /\ ~visible
    /\ hostButtons # {}
    /\ hostButtons' = {}
    /\ UNCHANGED <<hostKeys, page, event_queue, core>>

\* Mutant of OnVisibilityChanged: only a window that becomes visible tells the
\* core.
OnVisibilityChanged_silent ==
    /\ visible' = ~visible
    /\ IF visible' THEN Send(<<FocusEvent(TRUE)>>) ELSE UNCHANGED event_queue
    /\ IF visible' THEN UNCHANGED <<m_mouseCaptured, m_mouseCapturePending, m_pointerButtons>>
       ELSE ReleaseMouseCapture
    /\ UNCHANGED <<m_mouseCaptureUserReleased, m_mouseCaptureShortcutDown, asked, host, core>>

\* OnVisibilityChanged
OnVisibilityChanged ==
    /\ visible' = ~visible
    /\ Send(<<FocusEvent(visible')>>)
    /\ IF visible' THEN UNCHANGED <<m_mouseCaptured, m_mouseCapturePending, m_pointerButtons>>
       ELSE ReleaseMouseCapture
    /\ UNCHANGED <<m_mouseCaptureUserReleased, m_mouseCaptureShortcutDown, asked, host, core>>

-----------------------------------------------------------------------------
(* The emulator thread. *)

Chord(keys) ==
    {"ctrl", "middle"} \subseteq keys \/ {"ctrl", "left", "right"} \subseteq keys

\* mouse_toggle_check
mouse_toggle_check(state, key, pressed) ==
    LET new == IF key \in Modifiers THEN (state \cup {key}) \cap Modifiers
               ELSE state \cup {key}
    IN  IF ~pressed THEN [keystate |-> state \ {key}, toggle |-> FALSE]
        ELSE IF key \in state THEN [keystate |-> state, toggle |-> FALSE]
        ELSE [keystate |-> new, toggle |-> Chord(new)]

coreUnchanged == UNCHANGED <<host, page, sink, mouse_absxy>>

\* A key: map_native_key, handle_mouse_toggle_key and gen_scancode.  A chord
\* of this method has a button in it, and mouse_toggle_check keeps no button
\* beside a ctrl or alt, so no key completes one; G, F10 and F12, which are
\* keys of the other methods, leave bits that this method does not test.
HandleKey(e) ==
    /\ modifiers' = IF e.key \notin Modifiers THEN modifiers
                    ELSE IF e.pressed THEN modifiers \cup {e.key} ELSE modifiers \ {e.key}
    /\ toggle_keystate' =
          IF e.key \in Modifiers
          THEN mouse_toggle_check(toggle_keystate, e.key, e.pressed).keystate
          ELSE toggle_keystate
    /\ bxkey_state' = IF e.pressed THEN bxkey_state \cup {e.key} ELSE bxkey_state \ {e.key}
    /\ UNCHANGED <<mouse_buttons, mouse_enabled, chorded>>

\* One button of handle_mouse_toggle_buttons, after the others in acc.
CheckButton(acc, buttons, b) ==
    LET r == mouse_toggle_check(acc.keystate, b, b \in buttons)
    IN  IF b \in mouse_buttons <=> b \in buttons THEN acc
        ELSE [keystate |-> r.keystate, toggle |-> r.toggle \/ acc.toggle]

\* handle_mouse_toggle_buttons: every button that changed, in this order.
CheckButtons(buttons) ==
    LET none  == [keystate |-> toggle_keystate, toggle |-> FALSE]
        left  == CheckButton(none, buttons, "left")
        right == CheckButton(left, buttons, "right")
    IN  CheckButton(right, buttons, "middle")

\* toggle_mouse_enable
HandlePointer(e) ==
    LET r == CheckButtons(e.buttons) IN
    /\ toggle_keystate' = r.keystate
    /\ mouse_buttons' = e.buttons
    /\ mouse_enabled' = IF r.toggle THEN ~mouse_enabled ELSE mouse_enabled
    /\ chorded' = (chorded \/ r.toggle)
    /\ UNCHANGED <<modifiers, bxkey_state>>

\* Mutant of HandleFocus: the keys are released and the chord is not reset.
HandleFocus_keeps_chord(e) ==
    /\ IF e.focused
       THEN UNCHANGED <<modifiers, mouse_buttons, bxkey_state>>
       ELSE /\ modifiers' = {}
            /\ mouse_buttons' = {}
            /\ bxkey_state' = {}
    /\ UNCHANGED <<mouse_enabled, chorded, toggle_keystate>>

\* release_keyboard_state when the focus is lost.
HandleFocus(e) ==
    /\ IF e.focused
       THEN UNCHANGED <<modifiers, mouse_buttons, toggle_keystate, bxkey_state>>
       ELSE /\ modifiers' = {}
            /\ mouse_buttons' = {}
            /\ toggle_keystate' = {}
            /\ bxkey_state' = {}
    /\ UNCHANGED <<mouse_enabled, chorded>>

HandleCapture(e) ==
    /\ mouse_enabled' = e.enabled
    /\ chorded' = FALSE
    /\ UNCHANGED <<modifiers, mouse_buttons, toggle_keystate, bxkey_state>>

\* handle_events takes the events in the order they were queued.
handle_event ==
    /\ event_queue # <<>>
    /\ LET e == Head(event_queue) IN
       \/ e.type = "key" /\ HandleKey(e)
       \/ e.type = "pointer" /\ HandlePointer(e)
       \/ e.type = "focus" /\ HandleFocus(e)
       \/ e.type = "capture" /\ HandleCapture(e)
    /\ event_queue' = Tail(event_queue)
    /\ coreUnchanged

\* The guest starts or stops using an absolute pointing device.
set_mouse_mode_absxy ==
    /\ sink
    /\ mouse_absxy' = ~mouse_absxy
    /\ UNCHANGED <<host, page, event_queue, sink, modifiers, mouse_buttons, toggle_keystate,
                   mouse_enabled, bxkey_state, chorded>>

\* The GUI comes up and hands its functions to the bridge.
specific_init ==
    /\ ~sink
    /\ sink' = TRUE
    /\ UNCHANGED <<host, page, event_queue, modifiers, mouse_buttons, toggle_keystate,
                   mouse_enabled, mouse_absxy, bxkey_state, chorded>>

\* No GUI, and nothing left of one: the queue and the keys were its own.
NoGui ==
    /\ sink' = FALSE
    /\ asked' = FALSE
    /\ event_queue' = <<>>
    /\ modifiers' = {}
    /\ mouse_buttons' = {}
    /\ toggle_keystate' = {}
    /\ mouse_enabled' = FALSE
    /\ mouse_absxy' = FALSE
    /\ bxkey_state' = {}
    /\ chorded' = FALSE

\* The emulator ends by itself, a guest that switches the machine off or a
\* panic; the page does not hear of it.
exit ==
    /\ sink
    /\ NoGui
    /\ UNCHANGED <<host, visible, m_mouseCaptured, m_mouseCapturePending,
                   m_mouseCaptureUserReleased, m_mouseCaptureShortcutDown, m_pointerButtons>>

\* The page ends the session and starts the next one: by Shutdown or, where a
\* start has failed, by HandleStartupFailure, which leaves the capture alone.
\* The page keeps what the user last wanted; meanwhile it hears of nothing
\* but whether its window is visible.
Restart ==
    /\ \/ ReleaseMouseCapture
       \/ ~sink /\ UNCHANGED <<m_mouseCaptured, m_mouseCapturePending, m_pointerButtons>>
    /\ NoGui
    /\ visible' \in BOOLEAN
    /\ hostKeys' \in SUBSET Keys
    /\ hostButtons' \in SUBSET Buttons
    /\ UNCHANGED <<m_mouseCaptureUserReleased, m_mouseCaptureShortcutDown>>

Next ==
    \/ \E k \in Keys : OnKeyDown(k) \/ OnKeyUp(k)
    \/ \E b \in Buttons : OnPointerPressed(b)
    \/ \E bs \in SUBSET Buttons, moved \in BOOLEAN : OnPointerMoved(bs, moved)
    \/ OnPointerReleased \/ OnMouseMoved \/ ButtonsUpUnseen
    \/ OnVisibilityChanged
    \/ handle_event \/ set_mouse_mode_absxy
    \/ specific_init \/ exit \/ Restart

Spec == Init /\ [][Next]_vars

-----------------------------------------------------------------------------
(* Properties. *)

\* Every variable has its type and the queue its bound.
TypeOK ==
    /\ hostKeys \subseteq Keys
    /\ hostButtons \subseteq Buttons
    /\ visible \in BOOLEAN
    /\ m_mouseCaptured \in BOOLEAN
    /\ m_mouseCapturePending \in BOOLEAN
    /\ m_mouseCaptureUserReleased \in BOOLEAN
    /\ m_mouseCaptureShortcutDown \in BOOLEAN
    /\ m_pointerButtons \subseteq Buttons
    /\ asked \in BOOLEAN
    /\ sink \in BOOLEAN
    /\ event_queue \in Seq(Event)
    /\ Len(event_queue) <= MaxQueue
    /\ modifiers \subseteq Modifiers
    /\ mouse_buttons \subseteq Buttons
    /\ toggle_keystate \subseteq Modifiers \cup Buttons
    /\ mouse_enabled \in BOOLEAN
    /\ mouse_absxy \in BOOLEAN
    /\ bxkey_state \subseteq Keys
    /\ chorded \in BOOLEAN

Queued(e) == \E i \in DOMAIN event_queue : event_queue[i] = e

\* mouse_enabled will be b once the requests in the queue are handled: the
\* last of them says so or, if there is none, it is so now.
WillBe(b) ==
    \/ /\ \A i \in DOMAIN event_queue : event_queue[i].type # "capture"
       /\ mouse_enabled = b
    \/ \E i \in DOMAIN event_queue :
          /\ event_queue[i] = CaptureRequest(b)
          /\ \A j \in DOMAIN event_queue : j > i => event_queue[j].type # "capture"

\* Unless the chord switched the mouse behind the page's back, the core ends
\* up where the page means it to be: a mouse the user released with
\* Ctrl+Alt+M stays released whatever was clicked before or since, and a page
\* that waits for the mouse waits for something the core will do.  Only a page
\* that asked while there was no GUI, before it had come up or after it had
\* gone down, waits for what nobody was asked for.
CaptureFollowsIntent ==
    /\ m_mouseCaptureUserReleased =>
          /\ ~m_mouseCaptured /\ ~m_mouseCapturePending
          /\ chorded \/ WillBe(FALSE)
    /\ m_mouseCapturePending /\ asked => chorded \/ WillBe(TRUE)

\* The toggle chord is made of keys and buttons that are down as far as the
\* GUI has been told: nothing left over from before a focus loss completes it.
ChordIsHeld == toggle_keystate \subseteq modifiers \cup mouse_buttons

\* The state the GUI keeps of keys, buttons and chord is consistent.
ChordInv == TypeOK /\ ChordIsHeld

\* A modifier the guest believes to be down is held by the user, or an event
\* that releases it is on its way, also when it was let go unseen.
ModifiersComeUp ==
    \A k \in Modifiers \cap bxkey_state :
        k \in hostKeys \/ Queued(KeyEvent(k, FALSE)) \/ Queued(FocusEvent(FALSE))
=============================================================================
