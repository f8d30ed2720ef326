----------------------------- MODULE MCScoring -----------------------------
(* Instances of Scoring for TLC.                                           *)
EXTENDS Scoring, TLC

(* The trigrams of data/ngram_baseline.json the three tracepoints can      *)
(* produce at all, in per cent.                                            *)
Frequencies == (<<"execve", "execve", "connect">> :> 3) @@ (<<"execve", "openat", "connect">> :> 47)
                 @@ (<<"openat", "openat", "execve">> :> 49)

(* Twenty samples, at which the bounds 5% and 15% fall on samples: so many *)
(* at the lowest score, so many at the next.  One sample, and none.        *)
Corpus(low, middle) == [i \in 1 .. 20 |-> IF i <= low THEN 1 ELSE IF i <= low + middle THEN 2 ELSE 3]
SomeCorpora == {Corpus(1, 0), Corpus(1, 2), Corpus(2, 1), Corpus(3, 0), Corpus(0, 4), Corpus(20, 0)}
                 \cup {[i \in 1 .. 1 |-> 2], <<>>}

(* Nothing of note, two indicators of one entry, indicators inside others  *)
(* and of two entries at once, one without a partner.                      *)
SomeTexts == {{}, {"chmod", "curl"}, {"/etc/crontab", "bash"}, {"/etc/shadow"}}

=============================================================================
