--------------------------- MODULE MCVideoSession ---------------------------
(* Small tracks for TLC: every shape of the run-length boxes meets a chunk *)
(* border, a sync sample in the middle, and each kind of bad sample.       *)
EXTENDS VideoSession

MCCandidates == <<"VideoToolbox">>

Entry(n, v) == [count |-> n, value |-> v]
From(c, n)  == [first |-> c, count |-> n]

\* Four samples in three chunks, two of them sync samples.
Plain == [size |-> 0, sizes |-> <<5, 1, 2, 3>>, chunks |-> <<10, 30, 50>>,
          stsc |-> <<From(1, 2), From(2, 1)>>, stts |-> <<Entry(2, 1), Entry(2, 3)>>,
          ctts |-> <<Entry(1, 0), Entry(2, 2), Entry(1, 1)>>, stss |-> {1, 3},
          duration |-> 8, yields |-> <<"picture", "picture", "picture", "picture">>]

\* Samples of one size, all of them sync samples, fewer stored than announced.
Fixed == [Plain EXCEPT !.size = 4, !.sizes = <<>>, !.stsc = <<From(2, 1)>>, !.stss = NoStss,
                       !.stts = <<Entry(1, 2), Entry(3, 1)>>, !.ctts = <<>>, !.duration = 4]

Bad(t, k, what) == [t EXCEPT !.yields[k] = what]

\* A duration that is shorter than the samples, or missing.
MCTracks ==
  {Plain, Fixed, Bad(Plain, 1, "nothing"), Bad(Plain, 3, "nothing"), Bad(Plain, 3, "error"),
   Bad(Plain, 4, "nothing"), [Plain EXCEPT !.duration = 4], [Plain EXCEPT !.duration = 0],
   [Plain EXCEPT !.stss = {2}], [Plain EXCEPT !.stts = <<Entry(2, 0), Entry(2, 2)>>]}

============================================================================
