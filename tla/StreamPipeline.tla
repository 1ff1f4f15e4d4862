----------------------------- MODULE StreamPipeline -----------------------------
(***************************************************************************)
(* The thread of one capture and its two GStreamer pipelines               *)
(* (gstreamer_threading.py): run with start_playing, its message loop and  *)
(* its cleanup, and stop, called by the threads of init_cameras and by the *)
(* signal handler. run's cleanup and stop do the same things at the same   *)
(* time, and either ends at its first exception: feeding_timer may be      *)
(* forgotten by a third thread between the test and the cancel, and run    *)
(* takes the pipelines away from under stop.                               *)
(*                                                                         *)
(* feeding_timer is here only set or None; how it comes to be either is    *)
(* StreamCapture's. The buffers that both clear are FramePipeline's.       *)
(* Names that CameraLifecycle has as well are here those of the run and of *)
(* the pipelines: run_stop_event is the capture's stop_event.              *)
(***************************************************************************)
EXTENDS Naturals

CONSTANTS Stoppers   (* threads that call stop                               *)

Pipelines == {"main", "decode"}

VARIABLES
  run_pc,         (* where run is                                            *)
  count,          (* start_playing's                                         *)
  playing,        (* the pipelines that are not in state NULL                *)
  referenced,     (* pipeline and pipeline_decode are not None               *)
  is_playing, run_stop_event,
  feeding_timer,  (* there is one                                            *)
  spc,            (* where each stop is                                      *)
  tripped         (* history: the cleanup met a timer forgotten under it     *)

capture == <<playing, referenced, is_playing, feeding_timer>>
run == <<run_pc, count, tripped>>
pipeline_vars == <<run, capture, run_stop_event, spc>>

PipelineInit ==
  /\ run_pc = "new" /\ count = 0
  /\ playing = {} /\ referenced = TRUE
  /\ is_playing = FALSE /\ run_stop_event = FALSE /\ feeding_timer = FALSE
  /\ spc = [s \in Stoppers |-> "idle"]
  /\ tripped = FALSE

GotoRun(l) == run_pc' = l
GotoStop(s, l) == spc' = [spc EXCEPT ![s] = l]

\* feed_detecting, extend_timer and stop_feeding, in other threads.
Feeding ==
  /\ feeding_timer' \in BOOLEAN
  /\ UNCHANGED <<run, playing, referenced, is_playing, run_stop_event, spc>>

--------------------------------------------------------------------------------
(* start_playing, called by run. It does not look at stop_event. *)

StartRun ==
  /\ run_pc = "new"
  /\ GotoRun("starting")
  /\ UNCHANGED <<count, tripped, capture, run_stop_event, spc>>

\* set_state(PLAYING), at most twice, for every answer but SUCCESS and FAILURE is
\* waited for and asked again.
StartPlaying ==
  /\ run_pc = "starting" /\ count < 2
  /\ count' = count + 1
  /\ playing' = playing \union {"main"}
  /\ run_pc' \in {"started", "starting", "failed"}
  /\ UNCHANGED <<tripped, referenced, is_playing, feeding_timer, run_stop_event, spc>>

GiveUp ==
  /\ run_pc = "starting" /\ count = 2
  /\ GotoRun("failed")
  /\ UNCHANGED <<count, tripped, capture, run_stop_event, spc>>

\* run then starts the second pipeline, whatever its answer.
PlayDecode ==
  /\ run_pc = "started"
  /\ playing' = playing \union {"decode"}
  /\ GotoRun("loop")
  /\ UNCHANGED <<count, tripped, referenced, is_playing, feeding_timer, run_stop_event, spc>>

NotStarted ==
  /\ run_pc = "failed"
  /\ playing' = playing \ {"main"}
  /\ run_stop_event' = TRUE
  /\ GotoRun("cleanup")
  /\ UNCHANGED <<count, tripped, referenced, is_playing, feeding_timer, spc>>

--------------------------------------------------------------------------------
(* The message loop. *)

\* Mutant: the loop goes on until a message raises.
LoopForever ==
  /\ run_pc = "loop"
  /\ GotoRun("message")
  /\ UNCHANGED <<count, tripped, capture, run_stop_event, spc>>

Loop ==
  /\ run_pc = "loop"
  /\ GotoRun(IF run_stop_event THEN "cleanup" ELSE "message")
  /\ UNCHANGED <<count, tripped, capture, run_stop_event, spc>>

\* on_message. The end of the stream, an error and an unreadable resource raise; a
\* change of the pipeline's state sets is_playing, which may be a change from before a
\* stop; most messages, and none, do nothing.
on_message ==
  /\ run_pc = "message"
  /\ \/ GotoRun("cleanup") /\ UNCHANGED is_playing
     \/ GotoRun("messageDecode") /\ is_playing' \in BOOLEAN
  /\ UNCHANGED <<count, tripped, playing, referenced, feeding_timer, run_stop_event, spc>>

on_message_decode ==
  /\ run_pc = "messageDecode"
  /\ run_pc' \in {"cleanup", "loop"}
  /\ UNCHANGED <<count, tripped, capture, run_stop_event, spc>>

--------------------------------------------------------------------------------
(* The cleanup of run. *)

Cleanup ==
  /\ run_pc = "cleanup"
  /\ run_stop_event' = TRUE
  /\ GotoRun("timer")
  /\ UNCHANGED <<count, tripped, capture, spc>>

TestTimer ==
  /\ run_pc = "timer"
  /\ GotoRun(IF feeding_timer THEN "cancel" ELSE "decode")
  /\ UNCHANGED <<count, tripped, capture, run_stop_event, spc>>

\* None has no cancel: the rest of the cleanup is skipped and the thread ends.
CancelTimer ==
  /\ run_pc = "cancel"
  /\ GotoRun(IF feeding_timer THEN "forget" ELSE "dead")
  /\ tripped' = ~feeding_timer
  /\ UNCHANGED <<count, capture, run_stop_event, spc>>

ForgetTimer ==
  /\ run_pc = "forget"
  /\ feeding_timer' = FALSE
  /\ GotoRun("decode")
  /\ UNCHANGED <<count, tripped, playing, referenced, is_playing, run_stop_event, spc>>

\* Mutant: the second pipeline is left to the garbage collector.
NullMainOnly ==
  /\ run_pc = "decode"
  /\ GotoRun("main")
  /\ UNCHANGED <<count, tripped, capture, run_stop_event, spc>>

NullDecode ==
  /\ run_pc = "decode"
  /\ playing' = playing \ {"decode"}
  /\ GotoRun("main")
  /\ UNCHANGED <<count, tripped, referenced, is_playing, feeding_timer, run_stop_event, spc>>

NullMain ==
  /\ run_pc = "main"
  /\ playing' = playing \ {"main"}
  /\ GotoRun("unreference")
  /\ UNCHANGED <<count, tripped, referenced, is_playing, feeding_timer, run_stop_event, spc>>

Unreference ==
  /\ run_pc = "unreference"
  /\ referenced' = FALSE /\ is_playing' = FALSE
  /\ GotoRun("dead")
  /\ UNCHANGED <<count, tripped, playing, feeding_timer, run_stop_event, spc>>

RunStep ==
  \/ StartPlaying \/ GiveUp \/ PlayDecode \/ NotStarted
  \/ Loop \/ on_message \/ on_message_decode
  \/ Cleanup \/ TestTimer \/ CancelTimer \/ ForgetTimer
  \/ NullDecode \/ NullMain \/ Unreference

--------------------------------------------------------------------------------
(* stop. Its exceptions are caught; stop then returns. *)

BeginStop(s) ==
  /\ spc[s] = "idle"
  /\ run_stop_event' = TRUE
  /\ GotoStop(s, "timer")
  /\ UNCHANGED <<run, capture>>

StopTestTimer(s) ==
  /\ spc[s] = "timer"
  /\ GotoStop(s, IF feeding_timer THEN "cancel" ELSE "decode")
  /\ UNCHANGED <<run, capture, run_stop_event>>

StopCancelTimer(s) ==
  /\ spc[s] = "cancel"
  /\ GotoStop(s, IF feeding_timer THEN "forget" ELSE "idle")
  /\ UNCHANGED <<run, capture, run_stop_event>>

StopForgetTimer(s) ==
  /\ spc[s] = "forget"
  /\ feeding_timer' = FALSE
  /\ GotoStop(s, "decode")
  /\ UNCHANGED <<run, playing, referenced, is_playing, run_stop_event>>

\* `if self.pipeline_decode', and the same for the other pipeline.
StopTest(s, p, null, next) ==
  /\ spc[s] = p
  /\ GotoStop(s, IF referenced THEN null ELSE next)
  /\ UNCHANGED <<run, capture, run_stop_event>>

\* set_state(NULL), unless run has unreferenced the pipeline since the test.
StopNull(s, p, null, next) ==
  /\ spc[s] = null
  /\ \/ referenced /\ playing' = playing \ {p} /\ GotoStop(s, next)
     \/ ~referenced /\ GotoStop(s, "idle") /\ UNCHANGED playing
  /\ UNCHANGED <<run, referenced, is_playing, feeding_timer, run_stop_event>>

\* One pipeline after the other.
StopPipeline(s, p, null, next) == StopTest(s, p, null, next) \/ StopNull(s, p, null, next)

StopStep(s) ==
  \/ StopTestTimer(s) \/ StopCancelTimer(s) \/ StopForgetTimer(s)
  \/ StopPipeline(s, "decode", "nullDecode", "main")
  \/ StopPipeline(s, "main", "nullMain", "idle")

--------------------------------------------------------------------------------
PipelineNext ==
  \/ StartRun \/ RunStep \/ Feeding
  \/ \E s \in Stoppers : BeginStop(s) \/ StopStep(s)

PipelineSpec == PipelineInit /\ [][PipelineNext]_pipeline_vars

\* run gets on, and so does a stop that was called: set_state and get_state return.
PipelineFairSpec ==
  /\ PipelineSpec
  /\ WF_pipeline_vars(RunStep)
  /\ \A s \in Stoppers : WF_pipeline_vars(StopStep(s))

--------------------------------------------------------------------------------
(* Properties. *)

run_life == IF run_pc \in {"new", "dead"} THEN run_pc ELSE "alive"

RunThread == INSTANCE CaptureThread WITH life <- run_life, stop_event <- run_stop_event

\* run implements the thread that CameraLifecycle's updates and monitors rely on: it
\* ends with stop_event set and not before, whether start_playing fails, a message
\* raises or a stop comes in the middle; and it does not outlive a stop.
LifeSpec == RunThread!Spec

\* A capture that has ended holds no stream of the camera open and accepts no trigger,
\* whoever stopped it when: a stop in the middle of start_playing has its pipelines
\* started behind its back, and run's cleanup stops them. Only a cleanup that ends at
\* the timer leaves them running beside those of the next capture, unless a stop that
\* got through comes after.
Released == run_pc = "dead" /\ ~tripped => playing = {} /\ ~is_playing
================================================================================
