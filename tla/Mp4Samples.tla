----------------------------- MODULE Mp4Samples -----------------------------
(***************************************************************************)
(* The sample table of an MP4 track (video-decoder/src/demux/mp4.rs): the  *)
(* code expands the run-length boxes of the container into one entry per   *)
(* sample, in a single pass over the chunks, and seeks in that table.      *)
(*                                                                         *)
(* A track is a record of its boxes: size and sizes (stsz), chunks (stco), *)
(* stsc, stts, ctts and stss, with the duration of its header.  Times are  *)
(* in ticks.  yields is what the file and the decoder make of each sample: *)
(* a picture, nothing, or an error of the read.                            *)
(***************************************************************************)
EXTENDS Naturals, Integers, Sequences, SequencesExt, FiniteSetsExt

NoStss == {0}    \* no stss box: every sample is a sync sample

\* The number of samples that stsz and stts announce.
Announced(track) ==
  IF track.size > 0
  THEN FoldLeft(LAMBDA n, run : n + run.count, 0, track.stts)
  ELSE Len(track.sizes)

SizeOf(track, k) == IF track.size > 0 THEN track.size ELSE track.sizes[k]

IsSync(track, k) == track.stss = NoStss \/ k \in track.stss

\* The scan of stsc ends at the first entry of a later chunk.
SamplesPerChunk(track, chunk) ==
  LET applying == {i \in DOMAIN track.stsc : \A j \in 1..i : track.stsc[j].first <= chunk}
  IN IF applying = {} THEN 0 ELSE track.stsc[Max(applying)].count

Monus(a, b) == IF a > b THEN a - b ELSE 0

\* The iterator over a run-length box, before its first run.
BeforeRuns == [next |-> 1, left |-> 0, value |-> 0]

\* Mutant of NextOfRun: the sample that loads a run is not counted.
NextOfRunLate(runs, it) ==
  IF it.left = 0 /\ it.next <= Len(runs)
  THEN [next |-> it.next + 1, left |-> runs[it.next].count, value |-> runs[it.next].value]
  ELSE [it EXCEPT !.left = Monus(@, 1)]

\* One sample on: a used-up run is followed by the next; after the last run
\* its value stays.
NextOfRun(runs, it) ==
  IF it.left = 0 /\ it.next <= Len(runs)
  THEN [next |-> it.next + 1, left |-> Monus(runs[it.next].count, 1), value |-> runs[it.next].value]
  ELSE [it EXCEPT !.left = Monus(@, 1)]

\* The loop body for one sample of a chunk.
AddSample(track, chunk, acc) ==
  LET k    == Len(acc.samples) + 1
      time == NextOfRun(track.stts, acc.time)
      comp == NextOfRun(track.ctts, acc.comp)
  IN IF k > Announced(track) THEN acc
     ELSE [samples |-> Append(acc.samples,
                         [offset |-> track.chunks[chunk] + acc.inChunk, size |-> SizeOf(track, k),
                          dts |-> acc.dts, cts |-> comp.value, sync |-> IsSync(track, k)]),
           inChunk |-> acc.inChunk + SizeOf(track, k),
           dts |-> acc.dts + time.value, time |-> time, comp |-> comp]

BuildSampleTable(track) ==
  LET Upto(n) == [i \in 1..n |-> i]
      AddChunk(acc, chunk) ==
        FoldLeft(LAMBDA a, i : AddSample(track, chunk, a), [acc EXCEPT !.inChunk = 0],
                 Upto(SamplesPerChunk(track, chunk)))
      none == [samples |-> <<>>, inChunk |-> 0, dts |-> 0, time |-> BeforeRuns, comp |-> BeforeRuns]
  IN FoldLeft(AddChunk, none, Upto(Len(track.chunks))).samples

\* Mutant of KeyframeBefore: the search stops at the first sync sample.
FirstKeyframe(samples, ticks) ==
  LET keys == {i \in DOMAIN samples : samples[i].sync /\ samples[i].dts <= ticks}
  IN IF keys = {} THEN 1 ELSE Min(keys)

\* seek: the last sync sample at or before the time, among the samples up to
\* the first later one; the first sample if there is none.
KeyframeBefore(samples, ticks) ==
  LET reached == {i \in DOMAIN samples : \A j \in 1..(i - 1) : samples[j].dts <= ticks}
      keys    == {i \in reached : samples[i].sync /\ samples[i].dts <= ticks}
  IN IF keys = {} THEN 1 ELSE Max(keys)

----------------------------------------------------------------------------

\* What the boxes say, sample by sample: the definition the code's single
\* pass is compared with.
ChunkOf(track, k) ==
  LET upto(c) == MapThenSumSet(LAMBDA i : SamplesPerChunk(track, i), 1..c)
  IN CHOOSE c \in DOMAIN track.chunks : upto(c - 1) < k /\ k <= upto(c)

RunOf(runs, k) ==
  LET upto(r) == MapThenSumSet(LAMBDA i : runs[i].count, 1..r)
      over    == {r \in DOMAIN runs : k <= upto(r)}
  IN IF runs = <<>> THEN 0 ELSE IF over = {} THEN Last(runs).value ELSE runs[Min(over)].value

SampleOf(track, k) ==
  LET before == {j \in 1..(k - 1) : ChunkOf(track, j) = ChunkOf(track, k)}
  IN [offset |-> track.chunks[ChunkOf(track, k)] + MapThenSumSet(LAMBDA j : SizeOf(track, j), before),
      size   |-> SizeOf(track, k),
      dts    |-> MapThenSumSet(LAMBDA j : RunOf(track.stts, j), 1..(k - 1)),
      cts    |-> RunOf(track.ctts, k),
      sync   |-> IsSync(track, k)]

SamplesOf(track) ==
  LET stored == MapThenSumSet(LAMBDA c : SamplesPerChunk(track, c), DOMAIN track.chunks)
  IN [k \in 1..Min({Announced(track), stored}) |-> SampleOf(track, k)]

\* The sync sample that a seek should find: the latest one not after the
\* time, wherever it stands; 0 if there is none.
LatestKeyframe(samples, ticks) ==
  Max({0} \cup {k \in DOMAIN samples : samples[k].sync /\ samples[k].dts <= ticks})

============================================================================
