------------------------------ MODULE MCFat32 ------------------------------
(* A disk with two-sector clusters of two-byte sectors.  The root          *)
(* directory is clusters 2 -> 5; file A (7 bytes) is 3 -> 6, file B (4     *)
(* bytes, a full cluster) is 4.  EOC is 16 and RESERVED 15.                *)
EXTENDS Fat32, TLC

Entry(n, a, s, c) == [name |-> n, attr |-> a, size |-> s, first |-> c]

MCFat == (2 :> 5) @@ (5 :> 16) @@ (3 :> 6) @@ (6 :> 17) @@ (4 :> 16)

MCDir ==
  (10 :> <<Entry("VOL", "VOLUME_ID", 0, 0), Entry("A", "LONG_NAME", 0, 0)>>)
  @@ (11 :> <<Entry("A", "FILE", 7, 3), Entry("DEL", "FILE", 4, 4)>>)
  @@ (16 :> <<Entry("D", "DIRECTORY", 0, 0), Entry("B", "FILE", 4, 4)>>)
  @@ (17 :> <<Entry("END", "FILE", 0, 0), Entry("A", "FILE", 9, 9)>>)

MCNames == {"A", "B", "C"}
=============================================================================
