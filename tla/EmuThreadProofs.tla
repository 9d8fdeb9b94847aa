-------------------------- MODULE EmuThreadProofs --------------------------
(* Proofs about the pause protocol, for any length of the timeout.          *)
EXTENDS EmuThread, TLAPS

LEMMA InitInvariant == Init => IInv
<1> SUFFICES ASSUME Init PROVE IInv
  OBVIOUS
<1>1. /\ running \in BOOLEAN /\ pause_req \in BOOLEAN /\ paused \in BOOLEAN
      /\ emuthread \in BOOLEAN /\ multithread \in BOOLEAN
      /\ m_running \in BOOLEAN /\ dialog \in BOOLEAN /\ was_paused \in BOOLEAN
  BY Zenon DEF Init
<1>2. emu \in EmuStates
  BY Zenon DEF Init, EmuStates
<1>3. TypeOK
  <2>1. ui = "loop" /\ purpose = "pause" /\ polls = 0
    BY DEF Init
  <2> QED BY <1>1, <1>2, <2>1, PollsAssumption DEF TypeOK, UiStates, Purposes
<1>4. ExecNotReported /\ NoRequestLeft /\ RequestStands
  BY DEF Init, ExecNotReported, NoRequestLeft, RequestStands
<1> QED BY <1>3, <1>4 DEF IInv

(* No step of the emulator's thread outdates a report that a suspend waits  *)
(* for: it looks at the request before it goes on.                          *)
LEMMA EmulatorStep ==
  ASSUME IInv, Emulator
  PROVE  IInv'
<1> USE DEF EmuGoto, waiting, frame, EmuWhile, EmuLook, EmuIdle, EmuGo, EmuReturns,
            EmuLeave, GoPaused
<1>1. TypeOK'
  BY ZenonT(30) DEF IInv, TypeOK, EmuStates, Emulator
<1>2. ExecNotReported'
  BY DEF IInv, ExecNotReported, Emulator
<1>3. NoRequestLeft'
  BY DEF IInv, NoRequestLeft, Emulator
<1>4. RequestStands'
  BY DEF IInv, TypeOK, RequestStands, Emulator
<1> QED BY <1>1, <1>2, <1>3, <1>4 DEF IInv

(* A suspend that begins: an old report is noted in was_paused.             *)
LEMMA SuspendStep ==
  ASSUME IInv, NEW for \in Purposes, Suspend(for), dialog' = dialog,
         m_running' \in BOOLEAN, for = "pause" => ~m_running'
  PROVE  IInv'
<1>1. TypeOK'
  BY PollsAssumption DEF IInv, TypeOK, UiStates, Suspend
<1>2. ExecNotReported' /\ NoRequestLeft' /\ RequestStands'
  BY DEF IInv, TypeOK, ExecNotReported, NoRequestLeft, RequestStands, Suspend
<1> QED BY <1>1, <1>2 DEF IInv

(* The steps of the UI thread that follow without the user.                 *)
LEMMA UiContinuesStep ==
  ASSUME IInv, UiContinues
  PROVE  IInv'
<1> USE PollsAssumption DEF shared, frame, waiting, IInv, TypeOK, UiStates, ExecNotReported,
        NoRequestLeft, RequestStands
<1>1. CASE SuspendPolls
  BY <1>1 DEF SuspendPolls, WaitOver, PollOnce
<1>2. CASE SuspendReturns
  BY <1>2 DEF SuspendReturns, WaitOver, Purposes
<1>3. CASE ResumeReturns
  BY <1>3 DEF ResumeReturns, ClearRequest
<1>4. CASE StopClears
  BY <1>4 DEF StopClears, StopRunning
<1>5. CASE Joined
  BY <1>5 DEF Joined
<1>6. CASE DiskChanged
  BY <1>6 DEF DiskChanged, StartEmulation, ResumeFirst
<1>7. CASE ScreenshotWritten
  BY <1>7 DEF ScreenshotWritten, ResumeFirst
<1>8. CASE TimerReturns
  BY <1>8 DEF TimerReturns
<1> QED BY <1>1, <1>2, <1>3, <1>4, <1>5, <1>6, <1>7, <1>8 DEF UiContinues

(* The events of the window.                                                *)
LEMMA UserActsStep ==
  ASSUME IInv, UserActs
  PROVE  IInv'
<1>1. CASE OnEmuStartPause /\ m_running
  BY <1>1, SuspendStep DEF OnEmuStartPause, Purposes, IInv, TypeOK
<1>2. CASE OnEmuStartPause /\ ~m_running
  BY <1>2 DEF OnEmuStartPause, ResumeFirst, waiting, IInv, TypeOK, UiStates,
     ExecNotReported, NoRequestLeft, RequestStands
<1>3. CASE OnEmuPreference \/ OnDiskChange \/ OnCycleScreenshotTimer
  BY <1>3, SuspendStep DEF OnEmuPreference, OnDiskChange, OnCycleScreenshotTimer,
     Purposes, IInv, TypeOK
<1>4. CASE PreferencesClosed
  BY <1>4 DEF PreferencesClosed, StartEmulation, ResumeFirst, waiting, IInv, TypeOK,
     UiStates, ExecNotReported, NoRequestLeft, RequestStands
<1>5. CASE OnEmuTimer
  BY <1>5 DEF OnEmuTimer, shared, frame, waiting, IInv, TypeOK, UiStates,
     ExecNotReported, NoRequestLeft, RequestStands
<1>6. CASE OnClose
  BY <1>6 DEF OnClose, frame, waiting, IInv, TypeOK, UiStates,
     ExecNotReported, NoRequestLeft, RequestStands
<1> QED BY <1>1, <1>2, <1>3, <1>4, <1>5, <1>6 DEF UserActs

LEMMA NextInvariant == IInv /\ [Next]_vars => IInv'
<1> SUFFICES ASSUME IInv, [Next]_vars PROVE IInv'
  OBVIOUS
<1>1. CASE UNCHANGED vars
  BY <1>1 DEF vars, shared, frame, waiting, IInv, TypeOK, ExecNotReported, NoRequestLeft,
     RequestStands
<1> QED BY <1>1, EmulatorStep, UiContinuesStep, UserActsStep DEF Next

(* The inductive invariant of the pause protocol.                           *)
THEOREM Invariance == Spec => []IInv
<1> QED BY InitInvariant, NextInvariant, PTL DEF Spec

(* The threads stay in the states of the protocol, and a suspend never      *)
(* looks more often than the timeout allows.                                *)
THEOREM TypeCorrect == Spec => []TypeOK
<1>1. IInv => TypeOK
  BY DEF IInv
<1> QED BY <1>1, Invariance, PTL

(* The emulator's thread never reports itself idle while it runs a frame,   *)
(* however suspends and resumes of the UI thread interleave with it.        *)
THEOREM NeverReportedInFrame == Spec => []ExecNotReported
<1>1. IInv => ExecNotReported
  BY DEF IInv
<1> QED BY <1>1, Invariance, PTL

(* np2_multithread_suspend does stop the emulator for the section that      *)
(* follows, provided that it did not find s_paused set already and did not  *)
(* run into its timeout; both provisos are needed.                          *)
THEOREM FreshSuspend == Spec => []FreshSuspendStops
<1>1. IInv => FreshSuspendStops
  BY DEF IInv, RequestStands, FreshSuspendStops
<1> QED BY <1>1, Invariance, PTL

(* No order of handlers leaves the emulator paused against the user's will. *)
THEOREM RequestCleared == Spec => []NoRequestLeft
<1>1. IInv => NoRequestLeft
  BY DEF IInv
<1> QED BY <1>1, Invariance, PTL
=============================================================================
