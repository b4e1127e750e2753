------------------------ MODULE MCWitnessCompaction ------------------------
(* A main chain a1..a4, stale blocks s2, s3 on a1, and a branch t1..t4 on g. *)
EXTENDS WitnessCompaction, TLC

MCParent ==
    "g" :> "g" @@ "a1" :> "g" @@ "a2" :> "a1" @@ "a3" :> "a2" @@ "a4" :> "a3" @@
    "s2" :> "a1" @@ "s3" :> "s2" @@
    "t1" :> "g" @@ "t2" :> "t1" @@ "t3" :> "t2" @@ "t4" :> "t3"
MCHeight ==
    "g" :> 0 @@ "a1" :> 1 @@ "a2" :> 2 @@ "a3" :> 3 @@ "a4" :> 4 @@ "s2" :> 2 @@ "s3" :> 3 @@
    "t1" :> 1 @@ "t2" :> 2 @@ "t3" :> 3 @@ "t4" :> 4

\* Genesis and a1 fill file 0; of the others f has the place.
Imported(stored, f, append, blocks, fail, deaths) ==
    [known |-> stored, stored |-> stored,
     file |-> [b \in Blocks |-> IF b \in {"g", "a1"} THEN 0 ELSE f[b][1]],
     pos |-> [b \in Blocks |-> IF b = "g" THEN 1 ELSE IF b = "a1" THEN 2 ELSE f[b][2]],
     last |-> append, blocks |-> blocks, fail |-> fail, crashes |-> deaths]

Main == {"g", "a1", "a2", "a3"}
InOrder == [b \in Blocks |-> <<1, IF b = "a3" THEN 2 ELSE 1>>]
Apart == [b \in Blocks |-> <<IF b = "s2" THEN 2 ELSE 1, 1>>]
\* A reindex of files in which a3 lay before a2: a3 was accepted last, and the
\* append pointer is behind a2.
Reversed == [b \in Blocks |-> <<IF b = "a2" THEN 2 ELSE 1, 1>>]
\* Two chains that part at g, of the same height; a1 has a file of its own.
Branch == {"t1", "t2", "t3"}
Places == "g" :> <<0, 1>> @@ "t1" :> <<0, 2>> @@ "a1" :> <<1, 1>> @@ "a2" :> <<2, 1>> @@
          "t2" :> <<2, 2>> @@ "a3" :> <<3, 1>> @@ "t3" :> <<3, 2>>
Parted(heads, blocks) ==
    [known |-> Main \cup Branch \cup heads, stored |-> Main \cup Branch,
     file |-> [b \in Blocks |-> IF b \in DOMAIN Places THEN Places[b][1] ELSE 0],
     pos |-> [b \in Blocks |-> IF b \in DOMAIN Places THEN Places[b][2] ELSE 0],
     last |-> 3, blocks |-> blocks, fail |-> FALSE, crashes |-> 0]

Dying   == Imported(Main, Reversed, 1, Main \cup {"s2"}, FALSE, 1)
Failing == Imported(Main, Reversed, 1, Main \cup {"s2"}, TRUE, 0)
Leaving == Imported(Main, InOrder, 1, Main \cup {"a4"}, FALSE, 1)
Forking == Imported({"g", "a1", "a2", "s2"}, Apart, 2, {"g", "a1", "a2", "s2", "s3"}, FALSE, 1)
\* The header t4 comes, before the initial download ends or after it, and its block.
Rivals  == Parted({}, {"t4"})
\* Both headers are known: when a4 is the best one, t4 is overlooked, and its block comes.
Hidden  == Parted({"a4", "t4"}, {"t4"})
All == {Dying, Failing, Leaving, Forking, Rivals, Hidden}

\* The hypothesis of CompactionSound.
ASSUME NoGaps == \A l \in Settings : NoGap(l)
=============================================================================
