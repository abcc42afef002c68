---------------------------- MODULE VideoPipeline ----------------------------
(***************************************************************************)
(* stopy3/zad2/sop-vp2.c and video-player.h: three threads decode,         *)
(* transform and display frames, handing them on through two rings; each   *)
(* polls its ring until SIGINT clears is_running.                          *)
(*                                                                         *)
(* A frame is its idx, and whether it has been transformed.  A poll is a   *)
(* test of is_running, without the mutex, and then a critical section that *)
(* may find the ring full or empty.                                        *)
(***************************************************************************)
EXTENDS Naturals, FiniteSets

CONSTANTS BUFFER_SIZE,
          MaxFrames     \* bound: frames decoded (for ever, in the code)

Index == 0..(BUFFER_SIZE - 1)

ASSUME VideoAssumption == BUFFER_SIZE \in Nat \ {0} /\ MaxFrames \in Nat

NoFrame == [idx |-> MaxFrames, transformed |-> FALSE]
Frame == [idx : 0..MaxFrames, transformed : BOOLEAN]

Ring == {"dec_to_trans", "trans_to_disp"}
Thread == {"decoder", "transformer", "display"}

\* What each thread takes frames from, and puts them into.
Source == [transformer |-> "dec_to_trans", display |-> "trans_to_disp"]
Target == [decoder |-> "dec_to_trans", transformer |-> "trans_to_disp"]

VARIABLES
    is_running,
    data, head, tail, count,   \* circular_buffer, by ring
    threadPc,                  \* where each thread is
    frame,                     \* the frame each thread holds
    frame_idx,                 \* the static of decode_frame
    shown,                     \* frames displayed
    freed,                     \* pairs: how often a frame has been freed
    player                     \* where main is

rings == <<data, head, tail, count>>
videoVars == <<is_running, rings, threadPc, frame, frame_idx, shown, freed, player>>

\* cb_init leaves data as it is on the stack.
VideoInit ==
    /\ is_running = TRUE
    /\ data = [r \in Ring |-> [i \in Index |-> NoFrame]]
    /\ head = [r \in Ring |-> 0] /\ tail = [r \in Ring |-> 0] /\ count = [r \in Ring |-> 0]
    /\ threadPc = [t \in Thread |-> "loop"]
    /\ frame = [t \in Thread |-> NoFrame]
    /\ frame_idx = 0
    /\ shown = 0
    /\ freed = [i \in 0..MaxFrames |-> 0]
    /\ player = "sigwait"

-----------------------------------------------------------------------------
ThreadGoto(t, l) == threadPc' = [threadPc EXCEPT ![t] = l]

Free(f) == freed' = [freed EXCEPT ![f.idx] = @ + 1]

\* The head of the while of each thread.  With MaxFrames decoded the decoder does
\* not go on before SIGINT.
LoopRunning(t) ==
    /\ threadPc[t] = "loop"
    /\ t = "decoder" /\ is_running => frame_idx < MaxFrames
    /\ ThreadGoto(t, IF ~is_running THEN "end"
                     ELSE IF t = "decoder" THEN "decode" ELSE "poll_pop")
    /\ UNCHANGED <<is_running, rings, frame, frame_idx, shown, freed, player>>

decode_frame ==
    /\ threadPc["decoder"] = "decode"
    /\ frame' = [frame EXCEPT !["decoder"] = [idx |-> frame_idx, transformed |-> FALSE]]
    /\ frame_idx' = frame_idx + 1
    /\ ThreadGoto("decoder", "poll_push")
    /\ UNCHANGED <<is_running, rings, shown, freed, player>>

\* The head of the while of cb_push; the frame that is not pushed is freed.
PollPush(t) ==
    /\ threadPc[t] = "poll_push"
    /\ IF is_running
       THEN ThreadGoto(t, "push") /\ UNCHANGED freed
       ELSE ThreadGoto(t, "end") /\ Free(frame[t])
    /\ UNCHANGED <<is_running, rings, frame, frame_idx, shown, player>>

\* Mutant: a full ring is overwritten.
cb_push_Overwrites(t) ==
    LET r == Target[t] IN
    /\ threadPc[t] = "push"
    /\ data' = [data EXCEPT ![r][head[r]] = frame[t]]
    /\ head' = [head EXCEPT ![r] = (@ + 1) % BUFFER_SIZE]
    /\ count' = [count EXCEPT ![r] = IF @ < BUFFER_SIZE THEN @ + 1 ELSE @]
    /\ ThreadGoto(t, "loop")
    /\ UNCHANGED <<is_running, tail, frame, frame_idx, shown, freed, player>>

cb_push(t) ==
    LET r == Target[t] IN
    /\ threadPc[t] = "push"
    /\ \/ /\ count[r] < BUFFER_SIZE
          /\ data' = [data EXCEPT ![r][head[r]] = frame[t]]
          /\ head' = [head EXCEPT ![r] = (@ + 1) % BUFFER_SIZE]
          /\ count' = [count EXCEPT ![r] = @ + 1]
          /\ ThreadGoto(t, "loop")
       \/ /\ count[r] >= BUFFER_SIZE
          /\ ThreadGoto(t, "poll_push")
          /\ UNCHANGED <<data, head, count>>
    /\ UNCHANGED <<is_running, tail, frame, frame_idx, shown, freed, player>>

\* The head of the while of cb_pop; NULL ends the thread.
PollPop(t) ==
    /\ threadPc[t] = "poll_pop"
    /\ ThreadGoto(t, IF is_running THEN "pop" ELSE "end")
    /\ UNCHANGED <<is_running, rings, frame, frame_idx, shown, freed, player>>

cb_pop(t) ==
    LET r == Source[t] IN
    /\ threadPc[t] = "pop"
    /\ \/ /\ count[r] > 0
          /\ frame' = [frame EXCEPT ![t] = data[r][tail[r]]]
          /\ tail' = [tail EXCEPT ![r] = (@ + 1) % BUFFER_SIZE]
          /\ count' = [count EXCEPT ![r] = @ - 1]
          /\ ThreadGoto(t, IF t = "transformer" THEN "transform" ELSE "show")
       \/ /\ count[r] = 0
          /\ ThreadGoto(t, "poll_pop")
          /\ UNCHANGED <<frame, tail, count>>
    /\ UNCHANGED <<is_running, data, head, frame_idx, shown, freed, player>>

transform_frame ==
    /\ threadPc["transformer"] = "transform"
    /\ frame' = [frame EXCEPT !["transformer"].transformed = TRUE]
    /\ ThreadGoto("transformer", "poll_push")
    /\ UNCHANGED <<is_running, rings, frame_idx, shown, freed, player>>

\* It frees the frame.
display_frame ==
    /\ threadPc["display"] = "show"
    /\ shown' = shown + 1
    /\ Free(frame["display"])
    /\ ThreadGoto("display", "loop")
    /\ UNCHANGED <<is_running, rings, frame, frame_idx, player>>

ThreadStep(t) ==
    \/ LoopRunning(t)
    \/ t # "display" /\ (PollPush(t) \/ cb_push(t))
    \/ t # "decoder" /\ (PollPop(t) \/ cb_pop(t))
    \/ t = "decoder" /\ decode_frame
    \/ t = "transformer" /\ transform_frame
    \/ t = "display" /\ display_frame

\* sigwait has returned: SIGINT.
StopPlaying ==
    /\ player = "sigwait"
    /\ is_running' = FALSE
    /\ player' = "join"
    /\ UNCHANGED <<rings, threadPc, frame, frame_idx, shown, freed>>

JoinVideo ==
    /\ player = "join"
    /\ \A t \in Thread : threadPc[t] = "end"
    /\ player' = "exited"
    /\ UNCHANGED <<is_running, rings, threadPc, frame, frame_idx, shown, freed>>

VideoNext == (\E t \in Thread : ThreadStep(t)) \/ StopPlaying \/ JoinVideo

VideoSpec == VideoInit /\ [][VideoNext]_videoVars

\* Every thread goes on; nobody has to send SIGINT.
VideoFairness ==
    /\ \A t \in Thread : WF_videoVars(ThreadStep(t))
    /\ WF_videoVars(JoinVideo)

-----------------------------------------------------------------------------
VideoTypeOK ==
    /\ is_running \in BOOLEAN
    /\ data \in [Ring -> [Index -> Frame]]
    /\ head \in [Ring -> Index] /\ tail \in [Ring -> Index]
    /\ count \in [Ring -> 0..BUFFER_SIZE]
    /\ threadPc \in [Thread -> {"loop", "decode", "poll_push", "push", "poll_pop", "pop",
                                "transform", "show", "end"}]
    /\ frame \in [Thread -> Frame]
    /\ frame_idx \in 0..MaxFrames /\ shown \in 0..MaxFrames
    /\ freed \in [0..MaxFrames -> Nat]
    /\ player \in {"sigwait", "join", "exited"}

\* The frames a ring holds.
Held(r) == {data[r][(tail[r] + k) % BUFFER_SIZE].idx : k \in 0..(count[r] - 1)}

\* The frame that is displayed is the next one, transformed; and no frame is
\* freed twice, or while a ring or a thread still holds it.
ShownInOrder ==
    /\ threadPc["display"] = "show" => frame["display"] = [idx |-> shown, transformed |-> TRUE]
    /\ \A i \in 0..MaxFrames : freed[i] <= 1
    /\ \A t \in Thread : threadPc[t] \in {"poll_push", "push", "transform", "show"} =>
                            freed[frame[t].idx] = 0
    /\ \A r \in Ring : \A i \in Held(r) : freed[i] = 0

\* All frames are displayed, unless SIGINT comes; then the program ends.
AllShown == shown = MaxFrames \/ ~is_running

VideoGoesOn == <>AllShown /\ (~is_running ~> player = "exited")
=============================================================================
