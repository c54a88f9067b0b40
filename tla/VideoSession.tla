---------------------------- MODULE VideoSession ----------------------------
(***************************************************************************)
(* A video session of the decoder crate: create_session with its backends  *)
(* (video-decoder/src/backend/mod.rs), the software session                *)
(* (backend/software.rs) and the one of VideoToolbox (backend/apple.rs),   *)
(* the playback clock (util/timestamp.rs) and the demuxer behind them.     *)
(*                                                                         *)
(* The clock and the demuxer are two positions in the same file: the clock *)
(* moves with the time the caller passes, the demuxer with the samples     *)
(* that are decoded, and a loop or a seek has to move both.  What a        *)
(* decoder makes of a sample is part of the track; a delta frame gives no  *)
(* picture before the decoder has had a sync sample.                       *)
(***************************************************************************)
EXTENDS Mp4Samples

CONSTANTS Tracks,            \* the tracks a file may hold
          Candidates,        \* detect_backends: the backends tried first
          Steps,             \* the times that may pass between two calls
          FallbackInterval,  \* the frame interval of a track without frame rate
          MaxLag,            \* bound on the frames' lag behind the clock
          MaxSeeks,          \* bound on the calls of seek
          MaxFaults          \* bound on failures to renew decoder or reader

ASSUME VideoAssumption ==
  /\ Candidates \in Seq({"Software", "VideoToolbox"})
  /\ Steps \subseteq Nat \ {0} /\ 1 \in Steps
  /\ FallbackInterval \in Nat \ {0} /\ MaxLag \in Nat
  /\ MaxSeeks \in Nat /\ MaxFaults \in Nat

VARIABLES
  track,     \* the track of the file
  backend,   \* "unopened", "none" after a failure, or the backend in use
  samples,   \* the sample table
  playback,  \* position, elapsed_since_frame, looping and paused
  cursor,    \* the next sample that is read
  ended,     \* the demuxer has been found exhausted
  primed,    \* the decoder has had a sync sample
  picture,   \* the sample in the frame buffer, 0 for none
  status,    \* what the last call of decode_frame returned
  seeks, faults,
  sought     \* the sample that the last seek asked for, until a frame is shown

videoVars == <<track, backend, samples, playback, cursor, ended, primed, picture, status,
               seeks, faults, sought>>

Open == backend \in {"Software", "VideoToolbox"}

VideoTypeOK ==
  /\ track \in Tracks
  /\ backend \in {"unopened", "none", "Software", "VideoToolbox"}
  /\ playback.position \in 0..track.duration /\ playback.elapsed \in 0..MaxLag
  /\ playback.looping \in BOOLEAN /\ playback.paused \in BOOLEAN
  /\ cursor \in 1..(Len(samples) + 1) /\ picture \in 0..Len(samples)
  /\ ended \in BOOLEAN /\ primed \in BOOLEAN
  /\ status \in {"none", "Waiting", "NewFrame", "EndOfStream", "Error"}
  /\ seeks \in 0..MaxSeeks /\ faults \in 0..MaxFaults /\ sought \in 0..Len(samples)

\* PlaybackState::new.
NewPlayback(looping) == [position |-> 0, elapsed |-> 0, looping |-> looping, paused |-> FALSE]

VideoInit ==
  /\ track \in Tracks
  /\ backend = "unopened"
  /\ samples = <<>>
  /\ playback = NewPlayback(TRUE)
  /\ cursor = 1 /\ ended = FALSE /\ primed = FALSE
  /\ picture = 0 /\ status = "none"
  /\ seeks = 0 /\ faults = 0 /\ sought = 0

----------------------------------------------------------------------------

\* create_session: the candidates in order, then the software decoder.
FirstThatWorks(works) ==
  LET tried  == Append(Candidates, "Software")
      usable == {i \in DOMAIN tried : tried[i] \in works}
  IN IF usable = {} THEN "none" ELSE tried[Min(usable)]

\* open, with SessionConfig::default: looping, software fallback allowed.
\* Which backends can open the file is up to the file and the platform.
OpenFile(works) ==
  /\ backend = "unopened"
  /\ backend' = FirstThatWorks(works)
  /\ samples' = IF backend' = "none" THEN <<>> ELSE BuildSampleTable(track)
  /\ UNCHANGED <<track, playback, cursor, ended, primed, picture, status, seeks, faults, sought>>

----------------------------------------------------------------------------

FrameInterval ==
  IF track.duration > 0 /\ samples # <<>> THEN track.duration \div Len(samples)
  ELSE FallbackInterval

\* PlaybackState::tick; a position past the end is kept at the end, with
\* which alone it is compared.
Ticked(dt) ==
  LET elapsed == playback.elapsed + dt IN
  [playback EXCEPT !.position = Min({@ + dt, track.duration}),
                   !.elapsed  = IF elapsed >= FrameInterval THEN elapsed - FrameInterval ELSE elapsed]

FrameIsDue(dt) == playback.elapsed + dt >= FrameInterval

\* PlaybackState::check_end_of_stream.
AtEnd(pb) == pb.position >= track.duration
Looped(pb) == IF AtEnd(pb) THEN [pb EXCEPT !.position = 0, !.elapsed = 0] ELSE pb

\* Sample k gives a picture to a decoder that started with sample from.
Shows(k, from, hadKey) ==
  /\ track.yields[k] = "picture"
  /\ \/ samples[k].sync \/ hadKey
     \/ \E j \in from..k : samples[j].sync /\ track.yields[j] = "picture"

\* The loop of decode_frame: samples are read until one gives a picture or
\* an error, or none is left.  A software read that fails is not repeated; an
\* asset reader that failed goes on failing.
DecodeFrom(from, hadKey, looping) ==
  LET stops == {k \in from..Len(samples) : track.yields[k] = "error" \/ Shows(k, from, hadKey)}
      stop  == Min(stops)
  IN IF stops = {}
     THEN /\ cursor' = Len(samples) + 1 /\ ended' = TRUE
          /\ primed' = (hadKey \/ \E j \in from..Len(samples) : Shows(j, from, FALSE))
          /\ status' = IF looping THEN "Waiting" ELSE "EndOfStream"
          /\ UNCHANGED <<picture, sought>>
     ELSE /\ ended' = FALSE
          /\ primed' = (hadKey \/ \E j \in from..stop : Shows(j, from, FALSE))
          /\ sought' = 0
          /\ IF track.yields[stop] = "error"
             THEN /\ cursor' = IF backend = "Software" THEN stop + 1 ELSE stop
                  /\ status' = "Error" /\ UNCHANGED picture
             ELSE cursor' = stop + 1 /\ picture' = stop /\ status' = "NewFrame"

\* decode_frame, while paused.
DecodePaused ==
  /\ Open /\ playback.paused
  /\ status' = "Waiting"
  /\ UNCHANGED <<track, backend, samples, playback, cursor, ended, primed, picture, seeks, faults, sought>>

\* decode_frame, before the next frame is due.
DecodeEarly(dt) ==
  /\ Open /\ ~playback.paused /\ ~FrameIsDue(dt)
  /\ playback' = Ticked(dt)
  /\ playback'.elapsed <= MaxLag
  /\ status' = "Waiting"
  /\ UNCHANGED <<track, backend, samples, cursor, ended, primed, picture, seeks, faults, sought>>

\* decode_frame, at the end of the clock without looping.
DecodePastEnd(dt) ==
  /\ Open /\ ~playback.paused /\ FrameIsDue(dt)
  /\ AtEnd(Ticked(dt)) /\ ~playback.looping
  /\ playback' = Ticked(dt)
  /\ playback'.elapsed <= MaxLag
  /\ status' = "EndOfStream"
  /\ UNCHANGED <<track, backend, samples, cursor, ended, primed, picture, seeks, faults, sought>>

\* A frame is due, and the clock is at its place or has gone round.
Due(dt) ==
  /\ Open /\ ~playback.paused /\ FrameIsDue(dt)
  /\ AtEnd(Ticked(dt)) => playback.looping
  /\ playback' = Looped(Ticked(dt))
  /\ playback'.elapsed <= MaxLag
  /\ UNCHANGED <<track, backend, samples, seeks>>

\* The demuxer was exhausted and the session loops: both are started anew.
Rewinding == ended /\ playback.looping

\* Where a session starts again: the demuxer seeks to the time zero.
FirstSample == IF backend = "Software" THEN KeyframeBefore(samples, 0) ELSE 1

\* Mutant of DecodeDue: an exhausted demuxer is not rewound.
DecodeDueOnce(dt) ==
  /\ Due(dt)
  /\ IF ended THEN status' = "EndOfStream" /\ UNCHANGED <<cursor, ended, primed, picture, sought>>
              ELSE DecodeFrom(cursor, primed, playback.looping)
  /\ UNCHANGED faults

\* decode_frame, when a frame is due.
DecodeDue(dt) ==
  /\ Due(dt)
  /\ IF Rewinding THEN DecodeFrom(FirstSample, FALSE, TRUE)
     ELSE IF ended THEN status' = "EndOfStream" /\ UNCHANGED <<cursor, ended, primed, picture, sought>>
     ELSE DecodeFrom(cursor, primed, playback.looping)
  /\ UNCHANGED faults

\* decode_frame, when the decoder or the reader cannot be made anew: the
\* software session has rewound its demuxer by then, and stays ended.
RewindFails(dt) ==
  /\ Due(dt) /\ Rewinding /\ faults < MaxFaults
  /\ faults' = faults + 1
  /\ cursor' = IF backend = "Software" THEN FirstSample ELSE cursor
  /\ status' = "Error"
  /\ UNCHANGED <<ended, primed, picture, sought>>

DecodeFrame(dt) ==
  DecodePaused \/ DecodeEarly(dt) \/ DecodePastEnd(dt) \/ DecodeDue(dt) \/ RewindFails(dt)

----------------------------------------------------------------------------

SeekCalled(position) ==
  /\ Open /\ seeks < MaxSeeks
  /\ seeks' = seeks + 1
  /\ position \in 0..track.duration

PlaybackSeek(position) == [playback EXCEPT !.position = position, !.elapsed = 0]

\* Mutant of Seek: the mark of the exhausted demuxer is kept.
SeekStaysEnded(position) ==
  /\ SeekCalled(position)
  /\ cursor' = IF backend = "Software" THEN KeyframeBefore(samples, position) ELSE 1
  /\ playback' = PlaybackSeek(position)
  /\ primed' = FALSE
  /\ sought' = LatestKeyframe(samples, position)
  /\ UNCHANGED <<track, backend, samples, ended, picture, status, faults>>

\* seek: the reader of VideoToolbox starts at the beginning of the file.
Seek(position) ==
  /\ SeekCalled(position)
  /\ cursor' = IF backend = "Software" THEN KeyframeBefore(samples, position) ELSE 1
  /\ playback' = PlaybackSeek(position)
  /\ primed' = FALSE /\ ended' = FALSE
  /\ sought' = LatestKeyframe(samples, position)
  /\ UNCHANGED <<track, backend, samples, picture, status, faults>>

\* seek, when the decoder or the reader cannot be made anew: the software
\* session has moved demuxer and clock by then, and keeps the old decoder.
SeekFails(position) ==
  /\ SeekCalled(position) /\ faults < MaxFaults
  /\ faults' = faults + 1
  /\ IF backend = "Software"
     THEN cursor' = KeyframeBefore(samples, position) /\ playback' = PlaybackSeek(position)
     ELSE UNCHANGED <<cursor, playback>>
  /\ sought' = 0
  /\ UNCHANGED <<track, backend, samples, ended, primed, picture, status>>

SetLooping(looping) ==
  /\ Open
  /\ playback' = [playback EXCEPT !.looping = looping]
  /\ UNCHANGED <<track, backend, samples, cursor, ended, primed, picture, status, seeks, faults, sought>>

\* pause and resume, which key P alternates.
TogglePause ==
  /\ Open
  /\ playback' = [playback EXCEPT !.paused = ~@]
  /\ UNCHANGED <<track, backend, samples, cursor, ended, primed, picture, status, seeks, faults, sought>>

\* What the library offers besides decode_frame and pause.
SeekOrLoop ==
  \/ \E position \in 0..track.duration : Seek(position) \/ SeekFails(position)
  \/ \E looping \in BOOLEAN : SetLooping(looping)

----------------------------------------------------------------------------

VideoNext ==
  \/ \E works \in SUBSET {"Software", "VideoToolbox"} : OpenFile(works)
  \/ \E dt \in Steps : DecodeFrame(dt)
  \/ SeekOrLoop
  \/ TogglePause

\* The frame loop calls decode_frame in every frame.
VideoFairness == WF_videoVars(\E dt \in Steps : DecodeFrame(dt))

VideoSpec == VideoInit /\ [][VideoNext]_videoVars /\ VideoFairness

----------------------------------------------------------------------------

\* The table built in one pass over the chunks has for every sample the bytes,
\* the times and the sync mark that the boxes give it (build_sample_table).
TableIsTrack == [][~Open /\ Open' => samples' = SamplesOf(track)]_videoVars

\* Seek to the nearest keyframe at or before the position (session.rs): the
\* first frame shown after it is that keyframe, if it can be decoded, also
\* when the demuxer was exhausted or the clock goes round in between.  For the
\* software session; the one of VideoToolbox shows the file from its start.
SeekShowsKeyframe ==
  [][backend = "Software" /\ sought # 0 /\ track.yields[sought] = "picture"
     /\ sought' = 0 /\ seeks' = seeks
     => status' = "NewFrame" /\ picture' = sought]_videoVars

\* A session that loops, is not paused and has a sample to show goes on showing
\* frames for ever (decode_frame), however seeks, changes of looping, bad
\* samples and failures to rewind went before; the reader of VideoToolbox may
\* fail for good.
LoopGoesOn ==
  []<>(\/ status = "NewFrame"
       \/ ~Open \/ playback.paused \/ ~playback.looping
       \/ backend = "VideoToolbox" /\ status = "Error"
       \/ \A k \in DOMAIN samples : ~(samples[k].sync /\ track.yields[k] = "picture"))

============================================================================
