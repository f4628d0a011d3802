---------------------------- MODULE MC_DataTrans ----------------------------
(* Model-checking instance of DataTrans: a one-byte and a 600-byte append *)
(* (so a response spans two chunks and has an odd length), path-sized and *)
(* two-chunk recvData counts plus one above the 16 MB limit.              *)
EXTENDS DataTrans

MC_DataSizes == {1, 600}
MC_RecvSizes == {0, 512, 1040, 16777216}
MC_Statuses  == {0, 2}
=============================================================================
