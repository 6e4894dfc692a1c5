------------------------------- MODULE AudioToTs -------------------------------
(***************************************************************************)
(* The capture side of the example client                                  *)
(* (src/tsclientlib/examples/audio_utils/audio_to_ts.rs).  AudioToTs owns  *)
(* an SDL capture device and a flag is_playing; both are changed only      *)
(* under the Arc<Mutex<AudioToTs>> lock, by set_playing and by the         *)
(* reconnect task that start() spawns: a one-second Interval that reopens  *)
(* the device when SDL reports it Stopped (the capture device went away).  *)
(* SDL calls SdlCallback::callback on its own thread while the device      *)
(* plays; it encodes the samples and, if the shared listener (a weak       *)
(* handle of a connection) still upgrades, spawns a send of the audio      *)
(* packet on the tokio executor, else clears the listener.                 *)
(*                                                                         *)
(* Samples, volume and the Opus encoder are data and left out: an encoder  *)
(* error only logs.  A failed open_capture in the interval only logs, so   *)
(* it is no step.                                                          *)
(***************************************************************************)
EXTENDS Naturals

CONSTANTS
  Cons,          \* connections an application may listen to
  MaxSpawned,    \* bound: send futures waiting on the executor
  TimerErrors    \* the Interval may yield an error (tokio timer shutdown)

None == "none"
Statuses == {"Stopped", "Playing", "Paused"}   \* sdl2::audio::AudioStatus

VARIABLES
  status,      \* device.status()
  is_playing,  \* AudioToTs.is_playing
  listener,    \* *listener: a connection, or None
  alive,       \* connections not dropped (ClientConVal::upgrade succeeds)
  spawned,     \* connection -> send futures spawned and not yet run
  interval     \* the reconnect task: "running" or "ended"

avars == <<status, is_playing, listener, alive, spawned, interval>>

-----------------------------------------------------------------------------

\* open_capture: SDL opens the capture device paused.
OpenCapture == "Paused"

\* AudioToTs::new: open_capture succeeded, is_playing is false, no
\* listener, and start() spawns the interval.
New ==
  /\ status = OpenCapture /\ is_playing = FALSE
  /\ listener = None /\ alive = Cons
  /\ spawned = [c \in Cons |-> 0]
  /\ interval = "running"

\* set_listener(con): the handle of a connection the caller holds.
SetListener(c) ==
  /\ c \in alive
  /\ listener' = c
  /\ UNCHANGED <<status, is_playing, alive, spawned, interval>>

\* device.resume() / device.pause() (SDL leaves a Stopped device Stopped).
Resumed(s) == IF s = "Stopped" THEN s ELSE "Playing"
Paused(s) == IF s = "Stopped" THEN s ELSE "Paused"

\* (mutant) set_playing(false) that forgets to pause the device.
SetPlayingNoPause(playing) ==
  /\ status' = IF playing THEN Resumed(status) ELSE status
  /\ is_playing' = playing
  /\ UNCHANGED <<listener, alive, spawned, interval>>

\* set_playing: resume or pause the device, then record the flag.
SetPlaying(playing) ==
  /\ status' = IF playing THEN Resumed(status) ELSE Paused(status)
  /\ is_playing' = playing
  /\ UNCHANGED <<listener, alive, spawned, interval>>

Interval ==
  /\ interval = "running" /\ status = "Stopped"
  /\ status' = IF is_playing THEN Resumed(OpenCapture) ELSE OpenCapture
  /\ UNCHANGED <<is_playing, listener, alive, spawned, interval>>

\* The Interval stream yields an error: map_err logs it and the spawned
\* task, with its for_each, ends.
IntervalFails ==
  /\ TimerErrors /\ interval = "running"
  /\ interval' = "ended"
  /\ UNCHANGED <<status, is_playing, listener, alive, spawned>>

\* SDL calls the callback while the device plays; the encoder produced a
\* packet.  A listener that no longer upgrades is cleared; otherwise a
\* send of the packet into the connection's sink is spawned.
Callback ==
  /\ status = "Playing"
  /\ listener # None
  /\ IF listener \notin alive
     THEN /\ listener' = None
          /\ UNCHANGED spawned
     ELSE /\ spawned[listener] < MaxSpawned
          /\ spawned' = [spawned EXCEPT ![listener] = @ + 1]
          /\ UNCHANGED listener
  /\ UNCHANGED <<status, is_playing, alive, interval>>

\* A spawned send runs on the executor: into the sink of a live
\* connection, or failing ("Failed to send packet") on a dropped one.
SendRuns(c) ==
  /\ spawned[c] > 0
  /\ spawned' = [spawned EXCEPT ![c] = @ - 1]
  /\ UNCHANGED <<status, is_playing, listener, alive, interval>>

\* The environment: the capture device goes away; a connection is dropped.
DeviceLost ==
  /\ status # "Stopped"
  /\ status' = "Stopped"
  /\ UNCHANGED <<is_playing, listener, alive, spawned, interval>>

ConDropped(c) ==
  /\ c \in alive
  /\ alive' = alive \ {c}
  /\ UNCHANGED <<status, is_playing, listener, spawned, interval>>

A2tNext ==
  \/ \E c \in Cons : SetListener(c) \/ SendRuns(c) \/ ConDropped(c)
  \/ \E p \in BOOLEAN : SetPlaying(p)
  \/ Interval \/ IntervalFails \/ Callback \/ DeviceLost

\* The interval ticks every second while its task lives, and the capture
\* device eventually comes back, so a tick eventually reopens it; SDL keeps
\* calling the callback of a playing device; the executor runs what was
\* spawned.
A2tFairness ==
  /\ WF_avars(Interval) /\ WF_avars(Callback)
  /\ \A c \in Cons : WF_avars(SendRuns(c))

A2tSpec == New /\ [][A2tNext]_avars /\ A2tFairness

-----------------------------------------------------------------------------
(* Properties                                                               *)

\* A device that is not Stopped plays exactly when is_playing is set:
\* through set_playing, a lost device and its reopening by the interval,
\* which must resume the new device when capture was on.
DeviceFollowsPlaying ==
  status # "Stopped" => (status = "Playing" <=> is_playing)

====
