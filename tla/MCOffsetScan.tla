---------------------------- MODULE MCOffsetScan ----------------------------
(* Memories for OffsetScan: everything up to three of the pieces below in a *)
(* row, cut into one or two ranges.  Tables of 7 words may touch each      *)
(* other, follow stray zeros or code pointers, or be cut off by the end.   *)
EXTENDS OffsetScan, SequencesExt

Tables == {<<0, 0, 0, 0, 20, 21, 22>>, <<0, 0, 0, 0, 22, 23, 25>>}
Pieces == Tables \cup {<<0>>, <<5>>, <<24>>, <<0, 0, 0, 0, 20>>}

Rows(n) == {FlattenSeq(s) : s \in UNION {[1..k -> Pieces] : k \in 0..n}}

MCMemories == {<<r>> : r \in Rows(3)} \cup {<<r, s>> : r, s \in Rows(1)}

MCFiles == {NoFile, {}, {<<4, 10>>, <<5, 11>>, <<6, 11>>, <<7, 12>>}, {<<4, 10>>, <<5, 12>>, <<6, 13>>}}
=============================================================================
