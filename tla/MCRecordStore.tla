--------------------------- MODULE MCRecordStore ---------------------------
(* RecordStore for TLC.                                                    *)
EXTENDS RecordStore
CONSTANTS r1, k
OneRecord == {r1}
OneCached == {k}
ThreeAndOne == <<3, 1>>
=============================================================================
