---------------------------- MODULE MCTransfers -----------------------------
(***************************************************************************)
(* The data paths of both drivers in one run: a behaviour carries one AXI4 *)
(* burst or one CHI transfer, from its request to its last beat.           *)
(***************************************************************************)
EXTENDS Axi4Burst

CONSTANTS ChiRowBytes, ChiDataBytes, ChiRegion, ChiWindow, ChiRequest

(* AXI4: rows of four bytes, blocks of eight for 4 KB: every burst of up   *)
(* to four beats from every byte of three blocks.                          *)
Regions == {[lo |-> 0, hi |-> 10], [lo |-> 11, hi |-> 40]}
Windows == {[lo |-> 21, hi |-> 21]}

Shape(op, sizes, exclusive) ==
  {q \in [op : {op}, addr : 0 .. 23, size : sizes, beats : 1 .. 4,
          burst : {"INCR", "WRAP", "FIXED"}, excl : exclusive,
          cacheable : BOOLEAN] : q.cacheable => q.excl}

Requests == Shape("WR", {1, 2}, {FALSE}) \cup Shape("RD", {1, 2, 4}, BOOLEAN)

(* CHI: rows of eight bytes in two beats of four: transfers of 1 to 16     *)
(* bytes from every byte of four rows.                                     *)
ChiRegions == {[lo |-> 0, hi |-> 15], [lo |-> 18, hi |-> 47]}
ChiWindows == {[lo |-> 25, hi |-> 25]}

ChiRequests == [op : {"RD", "WR"}, addr : 0 .. 31, size : 0 .. 3]
                 \cup [op : {"RD"}, addr : 0 .. 31, size : {4}]

Chi == INSTANCE ChiData WITH
         RowBytes <- ChiRowBytes, DataBytes <- ChiDataBytes,
         Region <- ChiRegion, Window <- ChiWindow, Request <- ChiRequest,
         seen <- beat, be <- strobe

ASSUME ChiAssumption == Chi!ChiDataAssumption

IsChi == "burst" \notin DOMAIN r

AnyInit == Init \/ Chi!Init
AnyNext == \/ ~IsChi /\ Next
           \/ IsChi /\ Chi!Next
AnySpec == AnyInit /\ [][AnyNext]_vars

(* The path of a burst, and of a CHI transfer, agrees with the addresses   *)
(* of its bytes; stated in Axi4Burst and ChiData.                          *)
Axi4TransferExact == ~IsChi => TransferExact
ChiTransferExact  == IsChi => Chi!TransferExact
=============================================================================
