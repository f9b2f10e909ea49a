------------------------------- MODULE UIPush -------------------------------
(***************************************************************************)
(* How the browsers get to see the state of the controller.  Whoever       *)
(* changes something asks for a push with requestUI.  Pushes are done by a *)
(* goroutine of their own, flushUI, which is started when none is there    *)
(* and the latest push is half a second ago; a request that comes too      *)
(* early is only remembered.  A browser that connects gets a snapshot from *)
(* its own handler.                                                        *)
(*                                                                         *)
(* Abstractions.  The state of the controller is a version number.  Time   *)
(* counts in steps, Pause of which are the half second.  Pings are left    *)
(* out: a connection may break at any time.                                *)
(***************************************************************************)
EXTENDS Naturals

CONSTANTS
    Browsers,
    Flushers,    \* identities for goroutines that run flushUI
    Pause,       \* 500 milliseconds
    MaxVersion   \* bound on the number of changes

ASSUME PushAssumption ==
    /\ Pause \in Nat \ {0}
    /\ MaxVersion \in Nat

VARIABLES
    version,     \* what a snapshot of the controller shows
    uiPending,   \* Server.uiPending
    uiFlushing,  \* Server.uiFlushing
    age,         \* time since Server.lastUIPush, at most Pause
    uiSubs,      \* Server.uiSubs
    flusher,     \* each flushUI: where it is, its snapshot, the browsers left to
                 \* write to, the time it has slept
    uiHandler,   \* each handleUIWS: where it is, its snapshot
    uiOpen,      \* browsers with an open connection
    shown        \* the version each browser shows

throttle == <<uiPending, uiFlushing, age>>
browsers == <<uiSubs, uiHandler, uiOpen, shown>>
pushVars == <<version, throttle, flusher, browsers>>

Versions == 0..MaxVersion
Nobody == [pc |-> "none", snap |-> 0, subs |-> {}, slept |-> 0]

PushTypeOK ==
    /\ version \in Versions
    /\ uiPending \in BOOLEAN
    /\ uiFlushing \in BOOLEAN
    /\ age \in 0..Pause
    /\ uiSubs \subseteq Browsers
    /\ flusher \in [Flushers -> [pc : {"none", "top", "snapshot", "subs", "write",
                                       "sleep"},
                                 snap : Versions, subs : SUBSET Browsers,
                                 slept : 0..Pause]]
    /\ uiHandler \in [Browsers -> [pc : {"none", "snapshot", "write", "read"},
                                   snap : Versions]]
    /\ uiOpen \subseteq Browsers
    /\ shown \in [Browsers -> Versions]

PushInit ==
    /\ version = 0
    /\ uiPending = FALSE
    /\ uiFlushing = FALSE
    /\ age = Pause
    /\ uiSubs = {}
    /\ flusher = [f \in Flushers |-> Nobody]
    /\ uiHandler = [b \in Browsers |-> [pc |-> "none", snap |-> 0]]
    /\ uiOpen = {}
    /\ shown = [b \in Browsers |-> 0]

-----------------------------------------------------------------------------
FlusherAt(f, pc) == flusher[f].pc = pc
FlusherGoto(f, pc) == flusher' = [flusher EXCEPT ![f].pc = pc]
HandlerAt(b, pc) == uiHandler[b].pc = pc

Change ==
    /\ version < MaxVersion
    /\ version' = version + 1
    /\ UNCHANGED <<throttle, flusher, browsers>>

Tick ==
    /\ age' = IF age < Pause THEN age + 1 ELSE age
    /\ flusher' = [f \in Flushers |->
           [flusher[f] EXCEPT !.slept =
               IF FlusherAt(f, "sleep") /\ @ < Pause THEN @ + 1 ELSE @]]
    /\ UNCHANGED <<version, uiPending, uiFlushing, browsers>>

\* Mutant: a goroutine is started though one is there.
requestUI_Always ==
    /\ uiPending' = TRUE
    /\ \/ /\ age = Pause
          /\ uiFlushing' = TRUE
          /\ \E f \in Flushers :
                 /\ FlusherAt(f, "none")
                 /\ FlusherGoto(f, "top")
       \/ /\ age < Pause
          /\ UNCHANGED <<uiFlushing, flusher>>
    /\ UNCHANGED <<version, age, browsers>>

\* Called after changes, and by the ticker of the prune loop.
requestUI ==
    /\ uiPending' = TRUE
    /\ \/ /\ ~uiFlushing
          /\ age = Pause
          /\ uiFlushing' = TRUE
          /\ \E f \in Flushers :
                 /\ FlusherAt(f, "none")
                 /\ FlusherGoto(f, "top")
       \/ /\ uiFlushing \/ age < Pause
          /\ UNCHANGED <<uiFlushing, flusher>>
    /\ UNCHANGED <<version, age, browsers>>

-----------------------------------------------------------------------------
(***************************************************************************)
(* flushUI                                                                 *)
(***************************************************************************)
BeginPush(f) ==
    /\ FlusherAt(f, "top")
    /\ uiPending
    /\ uiPending' = FALSE
    /\ age' = 0
    /\ FlusherGoto(f, "snapshot")
    /\ UNCHANGED <<version, uiFlushing, browsers>>

TakeSnapshot(f) ==
    /\ FlusherAt(f, "snapshot")
    /\ flusher' = [flusher EXCEPT ![f].pc = "subs", ![f].snap = version]
    /\ UNCHANGED <<version, throttle, browsers>>

ReadSubs(f) ==
    /\ FlusherAt(f, "subs")
    /\ flusher' = [flusher EXCEPT ![f].pc = "write", ![f].subs = uiSubs]
    /\ UNCHANGED <<version, throttle, browsers>>

\* A write that fails closes the connection.
WriteTo(f, b) ==
    /\ FlusherAt(f, "write")
    /\ b \in flusher[f].subs
    /\ flusher' = [flusher EXCEPT ![f].subs = @ \ {b}]
    /\ \/ /\ b \in uiOpen
          /\ shown' = [shown EXCEPT ![b] = flusher[f].snap]
          /\ UNCHANGED uiOpen
       \/ /\ uiOpen' = uiOpen \ {b}
          /\ UNCHANGED shown
    /\ UNCHANGED <<version, throttle, uiSubs, uiHandler>>

PushAgain(f) ==
    /\ FlusherAt(f, "write")
    /\ flusher[f].subs = {}
    /\ uiPending
    /\ flusher' = [flusher EXCEPT ![f].pc = "sleep", ![f].slept = 0]
    /\ UNCHANGED <<version, throttle, browsers>>

\* Where flushUI returns unless a push was asked for: after the writes, and at
\* its top, where this has always been the case.
AtCheck(f) ==
    \/ FlusherAt(f, "top")
    \/ FlusherAt(f, "write") /\ flusher[f].subs = {}

\* Mutant: the flag stays up.
EndPush_Flushing(f) ==
    /\ AtCheck(f)
    /\ ~uiPending
    /\ flusher' = [flusher EXCEPT ![f] = Nobody]
    /\ UNCHANGED <<version, throttle, browsers>>

EndPush(f) ==
    /\ AtCheck(f)
    /\ ~uiPending
    /\ uiFlushing' = FALSE
    /\ flusher' = [flusher EXCEPT ![f] = Nobody]
    /\ UNCHANGED <<version, uiPending, age, browsers>>

WakeUp(f) ==
    /\ FlusherAt(f, "sleep")
    /\ flusher[f].slept = Pause
    /\ FlusherGoto(f, "top")
    /\ UNCHANGED <<version, throttle, browsers>>

-----------------------------------------------------------------------------
(***************************************************************************)
(* handleUIWS                                                              *)
(***************************************************************************)
Subscribe(b) ==
    /\ HandlerAt(b, "none")
    /\ uiHandler' = [uiHandler EXCEPT ![b].pc = "snapshot"]
    /\ uiSubs' = uiSubs \cup {b}
    /\ uiOpen' = uiOpen \cup {b}
    /\ shown' = [shown EXCEPT ![b] = 0]
    /\ UNCHANGED <<version, throttle, flusher>>

OwnSnapshot(b) ==
    /\ HandlerAt(b, "snapshot")
    /\ uiHandler' = [uiHandler EXCEPT ![b].pc = "write", ![b].snap = version]
    /\ UNCHANGED <<version, throttle, flusher, uiSubs, uiOpen, shown>>

WriteOwn(b) ==
    /\ HandlerAt(b, "write")
    /\ uiHandler' = [uiHandler EXCEPT ![b].pc = "read"]
    /\ shown' = IF b \in uiOpen THEN [shown EXCEPT ![b] = uiHandler[b].snap] ELSE shown
    /\ UNCHANGED <<version, throttle, flusher, uiSubs, uiOpen>>

Break(b) ==
    /\ b \in uiOpen
    /\ uiOpen' = uiOpen \ {b}
    /\ UNCHANGED <<version, throttle, flusher, uiSubs, uiHandler, shown>>

Unsubscribe(b) ==
    /\ HandlerAt(b, "read")
    /\ b \notin uiOpen
    /\ uiHandler' = [uiHandler EXCEPT ![b] = [pc |-> "none", snap |-> 0]]
    /\ uiSubs' = uiSubs \ {b}
    /\ UNCHANGED <<version, throttle, flusher, uiOpen, shown>>

-----------------------------------------------------------------------------
FlusherNext(f) ==
    \/ BeginPush(f)
    \/ TakeSnapshot(f)
    \/ ReadSubs(f)
    \/ \E b \in Browsers : WriteTo(f, b)
    \/ PushAgain(f)
    \/ EndPush(f)
    \/ WakeUp(f)

HandlerStep(b) == OwnSnapshot(b) \/ WriteOwn(b) \/ Unsubscribe(b)

PushNext ==
    \/ Change
    \/ Tick
    \/ requestUI
    \/ \E f \in Flushers : FlusherNext(f)
    \/ \E b \in Browsers : Subscribe(b) \/ HandlerStep(b) \/ Break(b)

PushSpec == PushInit /\ [][PushNext]_pushVars

\* Time passes, the prune loop requests a push every two seconds, and
\* goroutines are scheduled.
PushFairSpec ==
    /\ PushSpec
    /\ WF_pushVars(Tick)
    /\ WF_pushVars(requestUI)
    /\ \A f \in Flushers : WF_pushVars(FlusherNext(f))
    /\ \A b \in Browsers : WF_pushVars(HandlerStep(b))

-----------------------------------------------------------------------------
(***************************************************************************)
(* Properties                                                              *)
(***************************************************************************)

\* "flushed at most ~2 Hz to avoid flooding browsers": half a second lies
\* between the beginnings of two pushes, whoever starts them.
PushesAreSpaced ==
    [][ \A f \in Flushers :
            FlusherAt(f, "top") /\ flusher'[f].pc = "snapshot" => age = Pause ]_pushVars

\* Every change comes to be shown by every browser that stays connected, also
\* when its request came too early and no change follows, and when the browser
\* was given an older snapshot after a newer one.
EveryChangeIsShown ==
    \A b \in Browsers, v \in 1..MaxVersion :
        (version >= v /\ b \in uiOpen) ~> (shown[b] >= v \/ b \notin uiOpen)
=============================================================================
