------------------------- MODULE SupervisedRunProofs -------------------------
(***************************************************************************)
(* Proofs about SupervisedRun for every configuration of the deadlines and *)
(* budgets that RunConfigAssumption allows.                                *)
(***************************************************************************)
EXTENDS SupervisedRun, TLAPS

(* The constants are positive and ordered as RunConfig's validator demands. *)
LEMMA ConstantTypes ==
    /\ HeartbeatInterval \in Nat /\ HeartbeatInterval > 0
    /\ StallTimeout \in Nat /\ StallTimeout > 0
    /\ IdleTimeout \in Nat /\ IdleTimeout > 0
    /\ MaxDuration \in Nat /\ MaxDuration > 0
    /\ MaxToolCalls \in Nat /\ MaxFrames \in Nat
  BY RunConfigAssumption

(* What a step's written frame needs: numbers stay natural, kinds stay kinds. *)
LEMMA FrameTypes ==
    ASSUME TypeOK
    PROVE  /\ NoFrame \in Frames
           /\ StartedFrame \in Frames
           /\ \A kind \in {"event", "heartbeat"} \cup Endings : FrameOf(kind) \in Frames
  BY DEF TypeOK, Frames, NoFrame, StartedFrame, FrameOf

LEMMA TypeInit == Init => TypeOK
  <1> SUFFICES ASSUME Init PROVE TypeOK
    OBVIOUS
  <1>1. NoFrame \in Frames /\ StartedFrame \in Frames
    BY DEF NoFrame, StartedFrame, Frames
  <1>2. /\ heartbeat \in 0..HeartbeatInterval
        /\ maximum \in 0..MaxDuration
        /\ idle \in -1..IdleTimeout
        /\ stall \in -1..StallTimeout
    BY ConstantTypes DEF Init, Never
  <1>3. seq \in Nat /\ calls \in 0..MaxToolCalls /\ charged \in 0..MaxFrames /\ late \in 0..2
    BY ConstantTypes DEF Init
  <1> QED BY <1>1, <1>2, <1>3, ZenonT(60) DEF Init, TypeOK

USE DEF clientVars, slotVars, timers, pumpVars, budget, wireVars, recordVars

LEMMA TypeStep == TypeOK /\ [Next]_vars => TypeOK'
  <1>0. TypeOK /\ UNCHANGED vars => TypeOK'
    BY DEF vars, TypeOK
  <1>1. TypeOK /\ Tick => TypeOK'
    BY ConstantTypes, SMTT(30) DEF Tick, TypeOK, Elapse
  <1>2. TypeOK /\ AskForFrame => TypeOK'
    BY DEF AskForFrame, TypeOK
  <1>3. TypeOK /\ CloseStream => TypeOK'
    BY DEF CloseStream, TypeOK, ReportLost
  <1>4. TypeOK /\ TakeFrame => TypeOK'
    BY FrameTypes, ConstantTypes DEF TakeFrame, TypeOK, Never
  <1>5. TypeOK /\ StreamEnds => TypeOK'
    BY DEF StreamEnds, TypeOK
  <1>6. TypeOK /\ LeaveSupervisor => TypeOK'
    BY DEF LeaveSupervisor, TypeOK, StopRunner
  <1>7. TypeOK /\ Leave => TypeOK'
    BY DEF Leave, TypeOK
  <1>8. TypeOK /\ SupervisorStarts => TypeOK'
    BY ConstantTypes DEF SupervisorStarts, TypeOK
  <1>9. TypeOK /\ HandleOutcome => TypeOK'
    <2>1. TypeOK /\ HandleOutcome =>
            /\ frame' \in Frames /\ seq' \in Nat
            /\ calls' \in 0..MaxToolCalls /\ charged' \in 0..MaxFrames
      BY FrameTypes, ConstantTypes DEF HandleOutcome, Sent, OverBudget, TypeOK
    <2>2. TypeOK /\ HandleOutcome => sideEffect' \in BOOLEAN
      BY DEF HandleOutcome, Sent, TypeOK
    <2>3. TypeOK /\ HandleOutcome =>
            decided' \in {Undecided, "succeeded", "provider_error", "idle_timeout",
                          "limit_exceeded"}
      BY DEF HandleOutcome, EndRun, Verdict, TypeOK
    <2>4. TypeOK /\ HandleOutcome => idle' \in -1..IdleTimeout
      BY ConstantTypes DEF HandleOutcome, ConsumeOutcome, Never, TypeOK
    <2>5. TypeOK /\ HandleOutcome =>
            /\ supervisor' \in {"ending", "asking", "delivering"}
            /\ cleanup' \in {cleanup, "created"}
            /\ outcome' = NoOutcome
      BY DEF HandleOutcome, ConsumeOutcome, EndRun, StopRunner
    <2>6. HandleOutcome =>
            UNCHANGED <<clientVars, slotVars, heartbeat, maximum, pump, stepWanted, losses,
                        terminal, recordVars>>
      BY DEF HandleOutcome
    <2>7. HandleOutcome => late' = late \/ (late < 2 /\ late' = late + 1)
      BY Zenon DEF HandleOutcome
    <2>8. TypeOK /\ HandleOutcome => late' \in 0..2
      BY <2>7, SMT DEF TypeOK
    <2> QED BY <2>1, <2>2, <2>3, <2>4, <2>5, <2>6, <2>8, SMTT(30) DEF TypeOK
  <1>10. TypeOK /\ Deliver => TypeOK'
    BY FrameTypes, ConstantTypes DEF Deliver, TypeOK, Fill
  <1>11. TypeOK /\ DeliveryDropped => TypeOK'
    BY FrameTypes DEF DeliveryDropped, TypeOK, DropClient, ReportLost, StopRunner
  <1>12. TypeOK /\ DeliveryAtTheMaximum => TypeOK'
    BY DEF DeliveryAtTheMaximum, TypeOK, EndRun, StopRunner
  <1>13. TypeOK /\ AskForStep => TypeOK'
    <2>1. AskForStep => idle' \in {idle, IdleTimeout}
      BY Zenon DEF AskForStep
    <2>2. AskForStep => stepWanted' \in {stepWanted, TRUE}
      BY Zenon DEF AskForStep
    <2>3. AskForStep =>
            /\ supervisor' \in {"deciding", "ending", "unwinding"}
            /\ decided' \in {decided, "limit_exceeded"}
            /\ lost' \in {lost, "dropped"}
            /\ cleanup' \in {cleanup, "created"}
      BY DEF AskForStep, EndRun, DropClient, ReportLost, StopRunner
    <2>4. AskForStep =>
            UNCHANGED <<clientVars, slotVars, frame, heartbeat, maximum, late, pump,
                        outcome, losses, seq, budget, terminal, ending, place>>
      BY DEF AskForStep
    <2>5. TypeOK /\ AskForStep => idle' \in -1..IdleTimeout
      BY <2>1, ConstantTypes DEF TypeOK
    <2>6. TypeOK /\ AskForStep => stepWanted' \in BOOLEAN
      BY <2>2, Zenon DEF TypeOK
    <2> QED BY <2>3, <2>4, <2>5, <2>6, SMTT(30) DEF TypeOK
  <1>14. TypeOK /\ Beat => TypeOK'
    BY FrameTypes, ConstantTypes DEF Beat, TypeOK, Fill
  <1>15. TypeOK /\ StalledClientDropped => TypeOK'
    BY DEF StalledClientDropped, TypeOK, DropClient, ReportLost, StopRunner
  <1>16. TypeOK /\ SilenceEnds => TypeOK'
    BY DEF SilenceEnds, TypeOK, EndRun, StopRunner
  <1>17. TypeOK /\ RunnerStopped => TypeOK'
    BY FrameTypes DEF RunnerStopped, TypeOK, ReportLost
  <1>18. TypeOK /\ QueueEnding => TypeOK'
    BY FrameTypes, ConstantTypes DEF QueueEnding, TypeOK, Fill
  <1>19. TypeOK /\ EndingDropped => TypeOK'
    BY FrameTypes DEF EndingDropped, TypeOK, DropClient, ReportLost, StopRunner
  <1>20. TypeOK /\ SupervisionFails => TypeOK'
    BY FrameTypes DEF SupervisionFails, TypeOK, DropClient, ReportLost, StopRunner
  <1>21. TypeOK /\ SupervisorCancelled => TypeOK'
    BY FrameTypes DEF SupervisorCancelled, TypeOK, StopRunner
  <1>22. TypeOK /\ SupervisorDone => TypeOK'
    BY DEF SupervisorDone, TypeOK
  <1>23. TypeOK /\ PumpAsksRunner => TypeOK'
    BY Zenon DEF PumpAsksRunner, TypeOK
  <1>24. TypeOK /\ RunnerSteps => TypeOK'
    BY Zenon DEF RunnerSteps, CollectLosses, TypeOK
  <1>25. TypeOK /\ RunnerEscapes => TypeOK'
    BY Zenon DEF RunnerEscapes, CollectLosses, TypeOK
  <1>26. TypeOK /\ PumpCancelled => TypeOK'
    BY ConstantTypes DEF PumpCancelled, CollectLosses, TypeOK
  <1>27. TypeOK /\ RunnerCloses => TypeOK'
    BY Zenon DEF RunnerCloses, CollectLosses, TypeOK
  <1>28. TypeOK /\ CleanupStarts => TypeOK'
    BY DEF CleanupStarts, TypeOK
  <1>29. TypeOK /\ CleanupEnds => TypeOK'
    <2>1. TypeOK /\ CleanupEnds =>
            /\ ending' \in Endings /\ terminal' \in Frames
            /\ seq' \in Nat /\ charged' \in 0..MaxFrames
      BY FrameTypes, ConstantTypes
         DEF CleanupEnds, Commit, Committable, Fallback, TypeOK, Endings, Undecided
    <2> QED BY <2>1 DEF CleanupEnds, Commit, TypeOK
  <1> QED
    BY <1>0, <1>1, <1>2, <1>3, <1>4, <1>5, <1>6, <1>7, <1>8, <1>9, <1>10, <1>11, <1>12,
       <1>13, <1>14, <1>15, <1>16, <1>17, <1>18, <1>19, <1>20, <1>21, <1>22, <1>23,
       <1>24, <1>25, <1>26, <1>27, <1>28, <1>29
       DEF Next, Respond, Supervise, StopPump, Reap, Over

(* Every reachable state has the types of TypeOK, whatever the deadlines.   *)
THEOREM TypeCorrect == Spec => []TypeOK
  BY TypeInit, TypeStep, PTL DEF Spec

-----------------------------------------------------------------------------
(* What the stream, the supervisor and the record know of each other: the   *)
(* terminal exists once the cleanup is done, only it carries an ending's    *)
(* kind, it is queued last, and whoever closes the stream without it has    *)
(* reported the client lost.                                                *)
TerminalInv ==
    /\ cleanup = "done" <=> ending # Running
    /\ place = "held" <=> ending = Running
    /\ terminal # NoFrame => cleanup = "done" /\ terminal.kind = ending
    /\ supervisor = "queueing" => terminal # NoFrame
    /\ frame.kind \notin Endings
    /\ slot.kind \in Endings => slot = terminal /\ taken.kind \notin Endings
    /\ taken.kind \in Endings => taken = terminal /\ slot = NoFrame
    /\ supervisor \notin {"unwinding", "done"} =>
         taken.kind \notin Endings /\ slot.kind \notin Endings

CutInv ==
    /\ slotClosed => supervisor = "done"
    /\ supervisor = "done" => slotClosed \/ CancelRequested
    /\ CancelRequested => lost # NotLost \/ taken.kind \in Endings
    /\ supervisor = "unwinding" \/ slotClosed =>
         \/ lost # NotLost
         \/ terminal # NoFrame /\ terminal \in {slot, taken}

IInv == TypeOK /\ TerminalInv /\ CutInv

(* The kinds of the frames that are not terminals. *)
LEMMA Kinds ==
    /\ NoFrame.kind \notin Endings /\ StartedFrame.kind \notin Endings
    /\ FrameOf("event").kind \notin Endings /\ FrameOf("heartbeat").kind \notin Endings
    /\ \A kind \in Endings : FrameOf(kind).kind = kind /\ FrameOf(kind) # NoFrame
    /\ Running \notin Endings
  BY DEF NoFrame, StartedFrame, FrameOf, Endings, Running

LEMMA IInvInit == Init => IInv
  <1>1. Init => TerminalInv
    BY Kinds DEF Init, TerminalInv
  <1>2. Init => CutInv
    BY DEF Init, CutInv, CancelRequested
  <1> QED BY <1>1, <1>2, TypeInit DEF IInv

LEMMA IInvStep == IInv /\ [Next]_vars => IInv'
  <1> USE DEF IInv, TerminalInv, CutInv, CancelRequested
  <1>0. IInv /\ UNCHANGED vars => (TerminalInv /\ CutInv)'
    BY Kinds DEF vars
  <1>1. IInv /\ Tick => (TerminalInv /\ CutInv)'
    BY Kinds DEF Tick
  <1>2. IInv /\ AskForFrame => (TerminalInv /\ CutInv)'
    BY Kinds DEF AskForFrame
  <1>3. IInv /\ CloseStream => (TerminalInv /\ CutInv)'
    BY Kinds DEF CloseStream, ReportLost, NotLost
  <1>4. IInv /\ TakeFrame => (TerminalInv /\ CutInv)'
    <2>1. IInv /\ TakeFrame => TerminalInv'
      BY Kinds DEF TakeFrame
    <2>2. IInv /\ TakeFrame => CutInv'
      BY Kinds DEF TakeFrame, Vacant, TypeOK
    <2> QED BY <2>1, <2>2
  <1>5. IInv /\ StreamEnds => (TerminalInv /\ CutInv)'
    <2>1. IInv /\ StreamEnds => TerminalInv'
      BY Kinds DEF StreamEnds
    <2>2. IInv /\ StreamEnds => CutInv'
      BY Kinds DEF StreamEnds, Vacant, TypeOK
    <2> QED BY <2>1, <2>2
  <1>6. IInv /\ LeaveSupervisor => (TerminalInv /\ CutInv)'
    BY Kinds DEF LeaveSupervisor, StopRunner
  <1>7. IInv /\ Leave => (TerminalInv /\ CutInv)'
    BY Kinds DEF Leave
  <1>8. IInv /\ SupervisorStarts => (TerminalInv /\ CutInv)'
    BY Kinds DEF SupervisorStarts
  <1>9. IInv /\ HandleOutcome => (TerminalInv /\ CutInv)'
    <2>1. IInv /\ HandleOutcome => TerminalInv'
      BY Kinds DEF HandleOutcome, Acts, ConsumeOutcome, EndRun, StopRunner, Sent, FrameOf
    <2>2. IInv /\ HandleOutcome => CutInv'
      BY Kinds DEF HandleOutcome, Acts, ConsumeOutcome, EndRun, StopRunner, Sent, FrameOf
    <2> QED BY <2>1, <2>2
  <1>10. IInv /\ Deliver => (TerminalInv /\ CutInv)'
    BY Kinds DEF Deliver, Fill
  <1>11. IInv /\ DeliveryDropped => (TerminalInv /\ CutInv)'
    BY Kinds DEF DeliveryDropped, DropClient, ReportLost, NotLost, StopRunner
  <1>12. IInv /\ DeliveryAtTheMaximum => (TerminalInv /\ CutInv)'
    BY Kinds DEF DeliveryAtTheMaximum, EndRun, StopRunner
  <1>13. IInv /\ AskForStep => (TerminalInv /\ CutInv)'
    <2>1. AskForStep =>
            /\ supervisor = "asking"
            /\ supervisor' = "unwinding" => lost' # NotLost
            /\ supervisor' \in {"deciding", "ending", "unwinding"}
            /\ cleanup' \in {cleanup, "created"} /\ (cleanup = "done" => cleanup' = "done")
            /\ lost # NotLost => lost' = lost
            /\ UNCHANGED <<response, taken, slot, slotClosed, frame, terminal, ending, place>>
      BY DEF AskForStep, DropClient, EndRun, ReportLost, NotLost, StopRunner
    <2> QED BY <2>1
  <1>14. IInv /\ Beat => (TerminalInv /\ CutInv)'
    BY Kinds DEF Beat, Acts, Fill, FrameOf
  <1>15. IInv /\ StalledClientDropped => (TerminalInv /\ CutInv)'
    BY Kinds DEF StalledClientDropped, Acts, DropClient, ReportLost, NotLost, StopRunner
  <1>16. IInv /\ SilenceEnds => (TerminalInv /\ CutInv)'
    BY Kinds DEF SilenceEnds, Acts, EndRun, StopRunner
  <1>17. IInv /\ RunnerStopped => (TerminalInv /\ CutInv)'
    BY Kinds DEF RunnerStopped, ReportLost, NotLost
  <1>18. IInv /\ QueueEnding => (TerminalInv /\ CutInv)'
    BY Kinds DEF QueueEnding, Fill
  <1>19. IInv /\ EndingDropped => (TerminalInv /\ CutInv)'
    BY Kinds DEF EndingDropped, DropClient, ReportLost, NotLost, StopRunner
  <1>20. IInv /\ SupervisionFails => (TerminalInv /\ CutInv)'
    BY Kinds DEF SupervisionFails, DropClient, ReportLost, NotLost, StopRunner
  <1>21. IInv /\ SupervisorCancelled => (TerminalInv /\ CutInv)'
    BY Kinds DEF SupervisorCancelled, StopRunner
  <1>22. IInv /\ SupervisorDone => (TerminalInv /\ CutInv)'
    BY Kinds DEF SupervisorDone
  <1>23. IInv /\ PumpAsksRunner => (TerminalInv /\ CutInv)'
    BY Kinds DEF PumpAsksRunner
  <1>24. IInv /\ RunnerSteps => (TerminalInv /\ CutInv)'
    BY Kinds DEF RunnerSteps
  <1>25. IInv /\ RunnerEscapes => (TerminalInv /\ CutInv)'
    BY Kinds DEF RunnerEscapes
  <1>26. IInv /\ PumpCancelled => (TerminalInv /\ CutInv)'
    BY Kinds DEF PumpCancelled
  <1>27. IInv /\ RunnerCloses => (TerminalInv /\ CutInv)'
    BY Kinds DEF RunnerCloses
  <1>28. IInv /\ CleanupStarts => (TerminalInv /\ CutInv)'
    BY Kinds DEF CleanupStarts
  <1>29. IInv /\ CleanupEnds => (TerminalInv /\ CutInv)'
    <2>1. IInv /\ CleanupEnds =>
            /\ ending' \in Endings
            /\ terminal' \in {terminal, FrameOf(ending')}
      BY DEF CleanupEnds, Commit, Committable, Fallback, TypeOK, Endings, Undecided
    <2>2. IInv /\ CleanupEnds =>
            /\ terminal = NoFrame /\ ending = Running /\ supervisor # "queueing"
            /\ place' # "held" /\ cleanup' = "done"
            /\ UNCHANGED <<clientVars, slotVars, supervisor, frame, lost>>
      BY DEF CleanupEnds
    <2> QED BY <2>1, <2>2, Kinds
  <1> QED
    BY TypeStep, <1>0, <1>1, <1>2, <1>3, <1>4, <1>5, <1>6, <1>7, <1>8, <1>9, <1>10, <1>11, <1>12, <1>13, <1>14, <1>15, <1>16, <1>17, <1>18, <1>19, <1>20, <1>21, <1>22, <1>23, <1>24, <1>25, <1>26, <1>27, <1>28, <1>29
       DEF Next, Respond, Supervise, StopPump, Reap, Over

-----------------------------------------------------------------------------
(* The sequence numbers: the frame the client took, the one in the slot,    *)
(* the one the supervisor holds and the terminal follow one another, and    *)
(* while the supervisor still sends, the next number follows the last.      *)
LastQueued == IF slot # NoFrame THEN slot.seq ELSE taken.seq
LastAccepted == IF frame # NoFrame THEN frame.seq ELSE LastQueued

ChainInv ==
    /\ taken # NoFrame
    /\ slot # NoFrame => slot.seq = taken.seq + 1
    /\ frame # NoFrame => frame.seq = LastQueued + 1
    /\ frame # NoFrame => supervisor \in {"delivering", "ending", "queueing"}
    /\ supervisor = "delivering" => frame # NoFrame
    /\ terminal # NoFrame => seq = terminal.seq + 1
    /\ supervisor \notin {"unwinding", "done"} =>
         IF terminal = NoFrame THEN seq = LastAccepted + 1
                               ELSE terminal.seq = LastAccepted + 1

(* The cleanup is first used by the step that leaves the states in which    *)
(* the supervisor accepts frames and decides endings.                       *)
ClosingInv ==
    cleanup # "none" => supervisor \in {"ending", "queueing", "unwinding", "done"}

ChainIInv == IInv /\ ChainInv /\ ClosingInv

(* What the chain needs of the frames' types. *)
LEMMA FrameNumbers ==
    /\ NoFrame.seq = 0 /\ NoFrame.kind = "none" /\ StartedFrame.seq = 0
    /\ StartedFrame # NoFrame
    /\ \A kind \in {"event", "heartbeat"} \cup Endings :
         FrameOf(kind).seq = seq /\ FrameOf(kind) # NoFrame
    /\ TypeOK => /\ seq \in Nat /\ taken.seq \in Nat /\ slot.seq \in Nat
                 /\ frame.seq \in Nat /\ terminal.seq \in Nat
  BY DEF NoFrame, StartedFrame, FrameOf, Endings, TypeOK, Frames

LEMMA ChainInit == Init => ChainIInv
  <1>1. Init => ChainInv
    BY FrameNumbers DEF Init, ChainInv, LastAccepted, LastQueued
  <1>2. Init => ClosingInv
    BY DEF Init, ClosingInv
  <1> QED BY <1>1, <1>2, IInvInit DEF ChainIInv

LEMMA ChainStep == ChainIInv /\ [Next]_vars => ChainIInv'
  <1> DEFINE Inv == ChainInv /\ ClosingInv
  <1> USE DEF ChainInv, ClosingInv, LastAccepted, LastQueued
  <1>0. ChainIInv /\ UNCHANGED vars => Inv'
    BY DEF ChainIInv, vars
  <1>1. ChainIInv /\ Tick => Inv'
    BY DEF ChainIInv, Tick
  <1>2. ChainIInv /\ AskForFrame => Inv'
    BY DEF ChainIInv, AskForFrame
  <1>3. ChainIInv /\ CloseStream => Inv'
    BY DEF ChainIInv, CloseStream
  <1>4. ChainIInv /\ TakeFrame => Inv'
    BY FrameNumbers DEF ChainIInv, TakeFrame, Vacant
  <1>5. ChainIInv /\ StreamEnds => Inv'
    BY DEF ChainIInv, StreamEnds
  <1>6. ChainIInv /\ LeaveSupervisor => Inv'
    BY DEF ChainIInv, LeaveSupervisor, StopRunner
  <1>7. ChainIInv /\ Leave => Inv'
    BY DEF ChainIInv, Leave
  <1>8. ChainIInv /\ SupervisorStarts => Inv'
    BY DEF ChainIInv, SupervisorStarts
  <1>9. ChainIInv /\ HandleOutcome => Inv'
    <2>1. ChainIInv /\ HandleOutcome =>
            /\ supervisor = "deciding" /\ cleanup = "none"
            /\ UNCHANGED <<taken, slot, terminal>>
            /\ \/ /\ supervisor' = "ending" /\ UNCHANGED <<frame, seq>>
               \/ /\ supervisor' = "asking" /\ UNCHANGED <<frame, seq, cleanup>>
               \/ /\ supervisor' = "delivering" /\ UNCHANGED cleanup
                  /\ frame' = FrameOf("event") /\ seq' = seq + 1
      BY DEF ChainIInv, HandleOutcome, Acts, EndRun, Sent
    <2>2. ChainIInv /\ HandleOutcome => frame = NoFrame /\ terminal = NoFrame
      BY <2>1 DEF ChainIInv, IInv, TerminalInv
    <2> QED BY <2>1, <2>2, FrameNumbers DEF ChainIInv, IInv
  <1>10. ChainIInv /\ Deliver => Inv'
    BY FrameNumbers DEF ChainIInv, Deliver, Fill, Vacant
  <1>11. ChainIInv /\ DeliveryDropped => Inv'
    BY FrameNumbers DEF ChainIInv, DeliveryDropped, DropClient, StopRunner
  <1>12. ChainIInv /\ DeliveryAtTheMaximum => Inv'
    BY DEF ChainIInv, DeliveryAtTheMaximum, EndRun, StopRunner
  <1>13. ChainIInv /\ AskForStep => Inv'
    <2>1. AskForStep =>
            /\ supervisor = "asking"
            /\ supervisor' \in {"deciding", "ending", "unwinding"}
            /\ supervisor' = "deciding" => cleanup' = cleanup
            /\ UNCHANGED <<taken, slot, frame, terminal, seq>>
      BY DEF AskForStep, DropClient, EndRun
    <2> QED BY <2>1 DEF ChainIInv
  <1>14. ChainIInv /\ Beat => Inv'
    <2>1. ChainIInv /\ Beat =>
            /\ supervisor = "deciding" /\ frame = NoFrame /\ terminal = NoFrame
            /\ UNCHANGED <<supervisor, cleanup, taken, frame, terminal>>
            /\ \/ UNCHANGED <<slot, seq>>
               \/ slot = NoFrame /\ slot' = FrameOf("heartbeat") /\ seq' = seq + 1
      BY DEF ChainIInv, IInv, TerminalInv, Beat, Acts, Fill, Vacant
    <2> QED BY <2>1, FrameNumbers DEF ChainIInv, IInv
  <1>15. ChainIInv /\ StalledClientDropped => Inv'
    BY DEF ChainIInv, StalledClientDropped, Acts, DropClient, StopRunner
  <1>16. ChainIInv /\ SilenceEnds => Inv'
    BY DEF ChainIInv, SilenceEnds, Acts, EndRun, StopRunner
  <1>17. ChainIInv /\ RunnerStopped => Inv'
    BY FrameNumbers DEF ChainIInv, RunnerStopped
  <1>18. ChainIInv /\ QueueEnding => Inv'
    BY FrameNumbers DEF ChainIInv, IInv, TerminalInv, QueueEnding, Fill, Vacant
  <1>19. ChainIInv /\ EndingDropped => Inv'
    BY FrameNumbers DEF ChainIInv, EndingDropped, DropClient, StopRunner
  <1>20. ChainIInv /\ SupervisionFails => Inv'
    BY FrameNumbers DEF ChainIInv, SupervisionFails, DropClient, StopRunner
  <1>21. ChainIInv /\ SupervisorCancelled => Inv'
    BY FrameNumbers DEF ChainIInv, SupervisorCancelled, StopRunner
  <1>22. ChainIInv /\ SupervisorDone => Inv'
    BY DEF ChainIInv, SupervisorDone
  <1>23. ChainIInv /\ PumpAsksRunner => Inv'
    BY DEF ChainIInv, PumpAsksRunner
  <1>24. ChainIInv /\ RunnerSteps => Inv'
    BY DEF ChainIInv, RunnerSteps
  <1>25. ChainIInv /\ RunnerEscapes => Inv'
    BY DEF ChainIInv, RunnerEscapes
  <1>26. ChainIInv /\ PumpCancelled => Inv'
    BY DEF ChainIInv, PumpCancelled
  <1>27. ChainIInv /\ RunnerCloses => Inv'
    BY DEF ChainIInv, RunnerCloses
  <1>28. ChainIInv /\ CleanupStarts => Inv'
    BY DEF ChainIInv, CleanupStarts
  <1>29. ChainIInv /\ CleanupEnds => Inv'
    <2>1. ChainIInv /\ CleanupEnds =>
            /\ terminal = NoFrame
            /\ \/ UNCHANGED <<terminal, seq>>
               \/ \E kind \in Endings : terminal' = FrameOf(kind) /\ seq' = seq + 1
            /\ cleanup # "none"
            /\ UNCHANGED <<taken, slot, frame, supervisor>>
      BY DEF ChainIInv, IInv, TerminalInv, TypeOK, CleanupEnds, Commit, Committable, Endings,
             Undecided
    <2>2. ChainIInv /\ CleanupEnds => ClosingInv'
      BY <2>1 DEF ChainIInv
    <2>3. ChainIInv /\ CleanupEnds => ChainInv'
      BY <2>1, FrameNumbers DEF ChainIInv, IInv
    <2> QED BY <2>2, <2>3
  <1>30. ChainIInv /\ [Next]_vars => Inv'
    BY <1>0, <1>1, <1>2, <1>3, <1>4, <1>5, <1>6, <1>7, <1>8, <1>9, <1>10, <1>11, <1>12,
       <1>13, <1>14, <1>15, <1>16, <1>17, <1>18, <1>19, <1>20, <1>21, <1>22, <1>23,
       <1>24, <1>25, <1>26, <1>27, <1>28, <1>29
       DEF Next, Respond, Supervise, StopPump, Reap, Over
  <1> QED BY <1>30, IInvStep DEF ChainIInv

LEMMA Invariance == Spec => []ChainIInv
  BY ChainInit, ChainStep, PTL DEF Spec

-----------------------------------------------------------------------------
(* A stream that ends without its terminal belongs to a client that was     *)
(* reported lost before: _report_drop and _client_lost_when_closed come     *)
(* first on every path that closes the slot or leaves the run.              *)
THEOREM CutReported == Spec => []CutStreamIsReported
  <1>1. ChainIInv => CutStreamIsReported
    BY Kinds DEF ChainIInv, IInv, TerminalInv, CutInv, CutStreamIsReported
  <1> QED BY <1>1, Invariance, PTL

(* No frame the run accepted is lost on its way to a client that was not    *)
(* lost: neither behind a full slot nor by an ending decided meanwhile.     *)
THEOREM AcceptedFramesArrive == Spec => []NoFrameLost
  <1>1. ASSUME ChainIInv, lost = NotLost
        PROVE  {f.seq : f \in {taken, slot, frame, terminal} \ {NoFrame}}
                 = taken.seq .. seq - 1
    <2> DEFINE Way == {taken, slot, frame, terminal} \ {NoFrame}
    <2>1. taken \in Way /\ taken.seq \in Nat /\ seq \in Nat
      BY <1>1, FrameNumbers DEF ChainIInv, ChainInv, IInv
    <2>2. CASE supervisor \in {"unwinding", "done"}
      <3>1. /\ terminal # NoFrame /\ terminal \in {slot, taken} /\ frame = NoFrame
            /\ seq = terminal.seq + 1
            /\ slot # NoFrame => slot.seq = taken.seq + 1
        <4>1. supervisor = "unwinding" \/ slotClosed \/ CancelRequested
          BY <1>1, <2>2 DEF ChainIInv, IInv, CutInv, TerminalInv
        <4> QED BY <4>1, <1>1, <2>2, Kinds DEF ChainIInv, ChainInv, IInv, CutInv, TerminalInv
      <3>2. slot = NoFrame \/ slot = terminal
        BY <3>1, <1>1, Kinds, SMTT(30) DEF ChainIInv, IInv, TerminalInv, TypeOK
      <3>3. Way = {taken, terminal}
        BY <3>1, <3>2, <2>1
      <3>4. {f.seq : f \in {taken, terminal}} = {taken.seq, terminal.seq}
        OBVIOUS
      <3>5. {taken.seq, terminal.seq} = taken.seq .. seq - 1
        BY <3>1, <3>2, <2>1
      <3> QED BY <3>3, <3>4, <3>5
    <2>3. CASE supervisor \notin {"unwinding", "done"}
      <3>1. /\ slot # NoFrame => slot.seq = taken.seq + 1
            /\ frame # NoFrame => frame.seq = LastQueued + 1
            /\ terminal = NoFrame => seq = LastAccepted + 1
            /\ terminal # NoFrame => terminal.seq = LastAccepted + 1 /\ seq = LastAccepted + 2
        BY <2>1, <2>3, <1>1, FrameNumbers DEF ChainIInv, ChainInv, IInv, LastAccepted, LastQueued
      <3>2. CASE terminal = NoFrame
        <4>1. /\ slot = NoFrame \/ slot.seq = taken.seq + 1
              /\ frame = NoFrame \/ frame.seq = LastQueued + 1
              /\ LastQueued = IF slot # NoFrame THEN slot.seq ELSE taken.seq
              /\ seq = (IF frame # NoFrame THEN frame.seq ELSE LastQueued) + 1
          BY <3>1, <3>2 DEF LastAccepted, LastQueued
        <4> HIDE DEF LastQueued
        <4> QED BY <4>1, <3>2, <2>1 DEF LastQueued
      <3>3. CASE terminal # NoFrame
        <4>1. {f.seq : f \in Way} =
                {taken.seq, terminal.seq}
                  \cup (IF slot = NoFrame THEN {} ELSE {slot.seq})
                  \cup (IF frame = NoFrame THEN {} ELSE {frame.seq})
          BY <2>1, <3>3
        <4> QED BY <4>1, <3>1, <3>3, <2>1 DEF LastAccepted, LastQueued
      <3> QED BY <3>2, <3>3
    <2> QED BY <2>2, <2>3
  <1>2. ChainIInv => NoFrameLost
    BY <1>1 DEF NoFrameLost
  <1> QED BY <1>2, Invariance, PTL

(* The client takes every frame in its turn and none after the terminal,    *)
(* also when it is dropped or leaves while frames wait: _FrameSlot.take and *)
(* the order in which the supervisor queues.                                *)
THEOREM FramesArriveInOrder == Spec => FramesInOrder
  <1>1. ChainIInv /\ [Next]_vars =>
          (taken' # taken => taken'.seq = taken.seq + 1 /\ taken.kind \notin Endings)
    <2>1. ChainIInv /\ TakeFrame => taken'.seq = taken.seq + 1 /\ taken.kind \notin Endings
      BY DEF ChainIInv, ChainInv, IInv, TerminalInv, TakeFrame, Vacant
    <2>2. UNCHANGED vars \/ Tick \/ AskForFrame \/ CloseStream \/ StreamEnds \/ LeaveSupervisor
            \/ Leave \/ Supervise \/ SupervisionFails \/ PumpAsksRunner \/ RunnerSteps
            \/ RunnerEscapes \/ StopPump \/ Reap => taken' = taken
      BY Zenon DEF vars, Tick, AskForFrame, CloseStream, StreamEnds, LeaveSupervisor, Leave,
             Supervise, SupervisorStarts, HandleOutcome, Deliver, DeliveryDropped,
             DeliveryAtTheMaximum, AskForStep, Beat, StalledClientDropped, SilenceEnds,
             RunnerStopped, QueueEnding, EndingDropped, SupervisionFails,
             SupervisorCancelled, SupervisorDone, PumpAsksRunner, RunnerSteps,
             RunnerEscapes, StopPump, PumpCancelled, RunnerCloses, Reap, CleanupStarts,
             CleanupEnds
    <2> QED BY <2>1, <2>2, Zenon DEF Next, Respond, Over
  <1> QED BY <1>1, Invariance, PTL DEF Spec, FramesInOrder

(* Once the runner is being stopped nothing is accepted and no ending is    *)
(* decided before the record has ended: whoever starts the cleanup leaves   *)
(* the states in which the supervisor does either.                          *)
THEOREM QuietOnceClosing == Spec => QuietWhileClosing
  <1>1. ChainIInv /\ [Next]_vars =>
          (cleanup # "none" /\ cleanup' # "done" => UNCHANGED <<seq, budget, decided>>)
    <2>1. ChainIInv /\ cleanup # "none" =>
            supervisor \in {"ending", "queueing", "unwinding", "done"}
      BY DEF ChainIInv, ClosingInv
    <2>2. supervisor \in {"ending", "queueing", "unwinding", "done"} =>
            ~(SupervisorStarts \/ HandleOutcome \/ DeliveryAtTheMaximum \/ AskForStep \/ Beat
                \/ SilenceEnds)
      BY DEF SupervisorStarts, HandleOutcome, DeliveryAtTheMaximum, AskForStep, Beat,
             SilenceEnds, Acts
    <2>3. CleanupEnds => cleanup' = "done"
      BY DEF CleanupEnds
    <2>4. UNCHANGED vars \/ Tick \/ AskForFrame \/ CloseStream \/ Respond \/ Deliver
            \/ DeliveryDropped \/ StalledClientDropped \/ RunnerStopped \/ QueueEnding
            \/ EndingDropped \/ SupervisionFails \/ SupervisorCancelled \/ SupervisorDone
            \/ PumpAsksRunner \/ RunnerSteps \/ RunnerEscapes \/ StopPump \/ CleanupStarts
              => UNCHANGED <<seq, budget, decided>>
      BY Zenon DEF vars, Tick, AskForFrame, CloseStream, Respond, TakeFrame, StreamEnds,
             LeaveSupervisor, Leave, Deliver, DeliveryDropped, StalledClientDropped,
             RunnerStopped, QueueEnding, EndingDropped, SupervisionFails,
             SupervisorCancelled, SupervisorDone, PumpAsksRunner, RunnerSteps,
             RunnerEscapes, StopPump, PumpCancelled, RunnerCloses, CleanupStarts
    <2> QED BY <2>1, <2>2, <2>3, <2>4, Zenon DEF Next, Supervise, Reap, Over
  <1> QED BY <1>1, Invariance, PTL DEF Spec, QuietWhileClosing

-----------------------------------------------------------------------------
(* What a step does to the contract's variables, but for the steps of       *)
(* TakeFrame, Leave, RunnerCloses and CleanupEnds: nothing, or the client   *)
(* is lost.                                                                 *)
Keeps ==
    /\ UNCHANGED <<taken, ending, place>>
    /\ (response' = "left") = (response = "left")
    /\ pump' = "done" <=> pump = "done"
    /\ pump = "done" => UNCHANGED losses
Silent == Keeps /\ UNCHANGED lost
Loses == Keeps /\ lost = NotLost /\ lost' \in {"dropped", "disconnected"}

LEMMA ContractInit == Init => Contract!ContractInit
  BY DEF Init, Contract!ContractInit, Contract!Running, Contract!NotLost, Running, NotLost,
         Told, StartedFrame, Endings

LEMMA SilentStep == Silent => UNCHANGED Contract!contractVars
  BY DEF Silent, Keeps, Contract!contractVars, Told

LEMMA LosesStep == Loses => Contract!LoseClient
  BY DEF Loses, Keeps, Contract!LoseClient, Contract!NotLost, Contract!Losses, NotLost, Told

LEMMA ContractStep ==
    ChainIInv /\ [Next]_vars => [Contract!ContractNext]_(Contract!contractVars)
  <1> USE DEF Silent, Loses, Keeps
  <1>0. UNCHANGED vars => Silent
    BY DEF vars
  <1>1. Tick => Silent
    BY DEF Tick
  <1>2. AskForFrame => Silent
    BY DEF AskForFrame
  <1>3. ReportLost("dropped") \/ ReportLost("disconnected") =>
          UNCHANGED lost \/ (lost = NotLost /\ lost' \in {"dropped", "disconnected"})
    BY DEF ReportLost
  <1>4. CloseStream => Silent \/ Loses
    BY <1>3 DEF CloseStream
  <1>5. ChainIInv /\ TakeFrame => UNCHANGED Contract!contractVars \/ Contract!TellTerminal
    <2>1. ChainIInv /\ TakeFrame =>
            /\ Told = "open" /\ taken' = slot /\ response' = "sending"
            /\ slot.kind \in Endings => slot.kind = ending /\ ending # Running
            /\ UNCHANGED <<pump, losses, ending, place, lost>>
      BY Kinds DEF ChainIInv, IInv, TerminalInv, TakeFrame, Vacant, Told
    <2>2. ChainIInv /\ TakeFrame => Told' \in {"open", ending} /\ (Told' = "open" \/ ending # Running)
      BY <2>1 DEF Told
    <2> QED BY <2>1, <2>2
         DEF Contract!contractVars, Contract!TellTerminal, Contract!Running, Running
  <1>6. StreamEnds => Silent
    BY DEF StreamEnds
  <1>7. LeaveSupervisor => Silent
    BY DEF LeaveSupervisor
  <1>8. ChainIInv /\ Leave => UNCHANGED Contract!contractVars \/ Contract!CutStream
    <2>1. ChainIInv /\ Leave =>
            /\ lost # NotLost \/ taken.kind \in Endings
            /\ ending # Running /\ response # "left" /\ response' = "left"
            /\ UNCHANGED <<taken, pump, losses, ending, place, lost>>
      BY DEF ChainIInv, IInv, TerminalInv, CutInv, CancelRequested, Leave
    <2> QED BY <2>1 DEF Told, Contract!contractVars, Contract!CutStream, Contract!NotLost,
                        Contract!Running, NotLost, Running
  <1>9. SupervisorStarts => Silent
    BY DEF SupervisorStarts
  <1>10. HandleOutcome => Silent
    BY DEF HandleOutcome
  <1>11. Deliver => Silent
    BY DEF Deliver
  <1>12. DeliveryDropped \/ StalledClientDropped \/ EndingDropped \/ SupervisionFails
           => Silent \/ Loses
    BY <1>3 DEF DeliveryDropped, StalledClientDropped, EndingDropped, SupervisionFails, DropClient
  <1>13. DeliveryAtTheMaximum => Silent
    BY DEF DeliveryAtTheMaximum
  <1>14. AskForStep => Silent \/ Loses
    <2>1. AskForStep => UNCHANGED lost \/ ReportLost("dropped")
      BY Zenon DEF AskForStep, DropClient
    <2>2. AskForStep => UNCHANGED <<taken, response, pump, losses, ending, place>>
      BY Zenon DEF AskForStep
    <2> QED BY <2>1, <2>2, <1>3
  <1>15. Beat => Silent
    BY DEF Beat
  <1>16. SilenceEnds => Silent
    BY DEF SilenceEnds
  <1>17. RunnerStopped => Silent \/ Loses
    BY <1>3 DEF RunnerStopped
  <1>18. QueueEnding => Silent
    BY DEF QueueEnding
  <1>19. SupervisorCancelled \/ SupervisorDone => Silent
    BY DEF SupervisorCancelled, SupervisorDone
  <1>20. PumpAsksRunner \/ RunnerSteps \/ RunnerEscapes \/ PumpCancelled => Silent
    BY DEF PumpAsksRunner, RunnerSteps, RunnerEscapes, PumpCancelled
  <1>21. RunnerCloses => Contract!CloseRunner
    BY DEF RunnerCloses, Contract!CloseRunner, Told
  <1>22. CleanupStarts => Silent
    BY DEF CleanupStarts
  <1>23. ChainIInv /\ CleanupEnds => Contract!EndRecord
    <2>1. ChainIInv /\ CleanupEnds =>
            ending' \in IF losses # {} THEN {"provider_error"} ELSE Endings
      BY DEF ChainIInv, IInv, TypeOK, CleanupEnds, Commit, Committable, Fallback, Endings,
             Undecided
    <2>2. ChainIInv /\ CleanupEnds =>
            /\ pump = "done" /\ ending = Running
            /\ place' = IF losses # {} THEN "quarantined" ELSE "free"
            /\ UNCHANGED <<response, taken, pump, losses, lost>>
      BY DEF ChainIInv, IInv, TerminalInv, CleanupEnds
    <2> QED BY <2>1, <2>2
         DEF Contract!EndRecord, Contract!Running, Contract!Endings, Running, Endings, Told
  <1> QED
    BY SilentStep, LosesStep, <1>0, <1>1, <1>2, <1>4, <1>5, <1>6, <1>7, <1>8, <1>9, <1>10,
       <1>11, <1>12, <1>13, <1>14, <1>15, <1>16, <1>17, <1>18, <1>19, <1>20, <1>21, <1>22,
       <1>23, Zenon
       DEF Next, Respond, Supervise, StopPump, Reap, Over, Contract!ContractNext

(* The supervised run implements the contract of a run: its runner is       *)
(* closed before its record ends, once, together with the move of its place *)
(* to the quarantine or back, and the client's last word is the record's.   *)
THEOREM KeepsTheContract == Spec => KeepsContract
  <1>1. Spec => Contract!ContractInit /\ [][Contract!ContractNext]_(Contract!contractVars)
    BY ContractInit, ContractStep, Invariance, PTL DEF Spec
  <1> QED BY <1>1 DEF KeepsContract, Contract!ContractSpec

-----------------------------------------------------------------------------
(* The idle window is the runner's: a deciding supervisor has armed it for a *)
(* step that was asked for, runs, or has an outcome, and from the outcome    *)
(* to the next step it is disarmed.                                          *)
IdleInv ==
    /\ supervisor \in {"new", "delivering", "asking"} => idle = Never
    /\ supervisor = "deciding" =>
          /\ idle >= 0
          /\ stepWanted \/ pump # "idle" \/ OutcomeReady

LEMMA IdleStep == TypeOK /\ IdleInv /\ [Next]_vars => IdleInv'
  <1> USE DEF IdleInv
  <1> SUFFICES ASSUME TypeOK, IdleInv, [Next]_vars PROVE IdleInv'
    OBVIOUS
  <1>0. idle \in -1..IdleTimeout /\ Never = -1
    BY DEF TypeOK, Never
  <1>1. CASE UNCHANGED vars \/ Over
    BY <1>1 DEF vars, Over, OutcomeReady
  <1>2. CASE Tick
    BY <1>0, <1>2, ConstantTypes DEF Tick, Elapse, OutcomeReady
  <1>3. CASE AskForFrame \/ CloseStream \/ Respond \/ Reap
    BY <1>3 DEF AskForFrame, CloseStream, Respond, TakeFrame, StreamEnds, LeaveSupervisor,
                Leave, Reap, CleanupStarts, CleanupEnds, OutcomeReady
  <1>4. CASE SupervisorStarts
    BY <1>4, ConstantTypes DEF SupervisorStarts, TypeOK
  <1>5. CASE HandleOutcome
    <2>1. idle' = Never
      BY <1>5, Zenon DEF HandleOutcome, ConsumeOutcome
    <2>2. supervisor' \in {"ending", "asking", "delivering"}
      BY <1>5, Zenon DEF HandleOutcome, EndRun
    <2> QED BY <2>1, <2>2
  <1>6. CASE Deliver
    BY <1>6 DEF Deliver
  <1>7. CASE AskForStep
    <2>1. CASE Decide(FALSE, BlockedDeadlines) \in {"drop", "limit"}
      BY <1>7, <2>1, Zenon DEF AskForStep, DropClient, EndRun
    <2>2. CASE Decide(FALSE, BlockedDeadlines) \notin {"drop", "limit"}
      <3>1. supervisor' = "deciding" /\ idle' = IdleTimeout /\ stepWanted' = TRUE
        BY <1>7, <2>2, Zenon DEF AskForStep
      <3>2. idle' >= 0
        BY <3>1, ConstantTypes
      <3> QED BY <3>1, <3>2
    <2> QED BY <2>1, <2>2
  <1>8. CASE Beat
    BY <1>8 DEF Beat, OutcomeReady
  <1>9. CASE \/ DeliveryDropped \/ DeliveryAtTheMaximum \/ StalledClientDropped
             \/ SilenceEnds \/ RunnerStopped \/ EndingDropped \/ SupervisionFails
             \/ SupervisorDone
    BY <1>9 DEF DeliveryDropped, DeliveryAtTheMaximum, StalledClientDropped, SilenceEnds,
                RunnerStopped, EndingDropped, SupervisionFails, SupervisorDone,
                DropClient, EndRun
  <1>10. CASE QueueEnding \/ SupervisorCancelled
    BY <1>10 DEF QueueEnding, SupervisorCancelled
  <1>11. CASE PumpAsksRunner \/ RunnerSteps \/ RunnerEscapes \/ StopPump
    BY <1>11 DEF PumpAsksRunner, RunnerSteps, RunnerEscapes, StopPump, PumpCancelled,
                 RunnerCloses, OutcomeReady, Outcomes, Sendable, Calls, NoOutcome
  <1> QED
    BY <1>1, <1>2, <1>3, <1>4, <1>5, <1>6, <1>7, <1>8, <1>9, <1>10, <1>11
       DEF Next, Supervise

(* A runner is charged with idleness only while a step of it is owed: no      *)
(* slow client and no supervisor between two steps spends its window.        *)
(* Code: SupervisedRun._handle_outcome clears _idle_at, _ask_for_step arms it.*)
THEOREM IdlenessIsTheRunners == Spec => []IdleOnlyWhileStepOwed
  <1>1. Init => IdleInv
    BY DEF Init, IdleInv
  <1>2. IdleInv => IdleOnlyWhileStepOwed
    BY DEF IdleInv, IdleOnlyWhileStepOwed, Never
  <1>3. Init => TypeOK
    BY TypeInit
  <1>4. TypeOK /\ [Next]_vars => TypeOK'
    BY TypeStep
  <1> QED BY <1>1, <1>2, <1>3, <1>4, IdleStep, PTL DEF Spec

-----------------------------------------------------------------------------
(* An outcome handled after the maximum leaves the supervisor where the      *)
(* deadlines are read again before the runner is asked for another.         *)
LateInv ==
    /\ late \in {0, 1}
    /\ late = 1 => Due(maximum) /\ supervisor \notin {"new", "deciding"}

LEMMA LateStep == TypeOK /\ LateInv /\ [Next]_vars => LateInv'
  <1> USE DEF LateInv, Due
  <1> SUFFICES ASSUME TypeOK, LateInv, [Next]_vars PROVE LateInv'
    OBVIOUS
  <1>1. CASE UNCHANGED vars \/ Over
    BY <1>1 DEF vars, Over
  <1>2. CASE Tick
    <2>1. maximum = 0 => maximum' = 0
      BY <1>2 DEF Tick, Elapse
    <2> QED BY <1>2, <2>1 DEF Tick
  <1>3. CASE \/ AskForFrame \/ CloseStream \/ Respond \/ Reap \/ PumpAsksRunner
             \/ RunnerSteps \/ RunnerEscapes \/ StopPump
    BY <1>3 DEF AskForFrame, CloseStream, Respond, TakeFrame, StreamEnds, LeaveSupervisor,
                Leave, Reap, CleanupStarts, CleanupEnds, PumpAsksRunner, RunnerSteps,
                RunnerEscapes, StopPump, PumpCancelled, RunnerCloses
  <1>4. CASE SupervisorStarts
    BY <1>4 DEF SupervisorStarts
  <1>5. CASE HandleOutcome
    <2>1. late = 0 /\ maximum' = maximum
      BY <1>5 DEF HandleOutcome, Acts
    <2>2. supervisor' \in {"ending", "asking", "delivering"}
      BY <1>5, Zenon DEF HandleOutcome, EndRun
    <2>3. late' = IF maximum = 0 /\ late < 2 THEN late + 1 ELSE late
      BY <1>5, Zenon DEF HandleOutcome
    <2> QED BY <2>1, <2>2, <2>3
  <1>6. CASE AskForStep
    <2>1. UNCHANGED <<late, maximum>>
      BY <1>6, Zenon DEF AskForStep
    <2>2. CASE late = 0
      BY <2>1, <2>2
    <2>3. CASE late = 1
      <3>1. Decide(FALSE, BlockedDeadlines) \in {"drop", "limit"}
        BY <2>3 DEF Decide, BlockedDeadlines, Deadlines
      <3>2. supervisor' \in {"unwinding", "ending"}
        BY <1>6, <3>1, Zenon DEF AskForStep, DropClient, EndRun
      <3> QED BY <2>1, <3>2
    <2> QED BY <2>2, <2>3
  <1>7. CASE Deliver \/ Beat \/ QueueEnding \/ SupervisorCancelled
    BY <1>7 DEF Deliver, Beat, Acts, QueueEnding, SupervisorCancelled
  <1>8. CASE \/ DeliveryDropped \/ DeliveryAtTheMaximum \/ StalledClientDropped
             \/ SilenceEnds \/ RunnerStopped \/ EndingDropped \/ SupervisionFails
             \/ SupervisorDone
    BY <1>8 DEF DeliveryDropped, DeliveryAtTheMaximum, StalledClientDropped, SilenceEnds,
                RunnerStopped, EndingDropped, SupervisionFails, SupervisorDone,
                DropClient, EndRun
  <1> QED
    BY <1>1, <1>2, <1>3, <1>4, <1>5, <1>6, <1>7, <1>8 DEF Next, Supervise

(* However fast the runner and however slow the client, the run takes at    *)
(* most one outcome of the runner after its maximum came due: the deadlines *)
(* are read again behind every outcome, before a step is asked for.         *)
(* Code: decide, SupervisedRun._handle_outcome and _deliver.                *)
THEOREM MaximumIsNotOutrun == Spec => []OneOutcomePastTheMaximum
  <1>1. Init => LateInv
    BY DEF Init, LateInv
  <1>2. LateInv => OneOutcomePastTheMaximum
    BY DEF LateInv, OneOutcomePastTheMaximum
  <1>3. Init => TypeOK
    BY TypeInit
  <1>4. TypeOK /\ [Next]_vars => TypeOK'
    BY TypeStep
  <1> QED BY <1>1, <1>2, <1>3, <1>4, LateStep, PTL DEF Spec

=============================================================================
