------------------------------- MODULE DbProofs -------------------------------
(***************************************************************************)
(* The types of the database library, and that its record locks exclude    *)
(* what they are meant to exclude, for any number of processes and chains  *)
(* and any calls.  The inductive invariant is TypeOK with PcInv, which ties*)
(* the statement a call is at to the locks it has and the record it holds. *)
(***************************************************************************)
EXTENDS Db, SequenceTheorems, TLAPS

LEMMA InitOK == Init => TypeOK /\ PcInv
<1> SUFFICES ASSUME Init PROVE TypeOK /\ PcInv
  OBVIOUS
<1> USE ConstAssumption
<1>1. Len(idx) = 0 /\ Len(dat) = 0
  BY DEF Init
<1>2. DbNull \in DbType
  BY <1>1 DEF DbNull, DbType, PtrLoc, RecOff, DatPos, Ptr, FirstRec
<1>3. NoArg \in ArgType
  BY DEF NoArg, ArgType
<1>4. TypeOK
  BY <1>1, <1>2, <1>3 DEF Init, TypeOK, FirstRec, Ptr, Labels, Unaligned, PosType, ScanType, RcType
<1>5. PcInv
  BY DEF Init, PcInv, PcOK, KeyLabels, StoreLabels, DelLabels, NeedsRec, NoArg, Labels, ScanLabels
<1> QED BY <1>4, <1>5

(***************************************************************************)
(* Offsets.                                                                *)
(***************************************************************************)
LEMMA LenNat == TypeOK => Len(idx) \in Nat /\ Len(dat) \in Nat
  BY DEF TypeOK

LEMMA OffsetFacts ==
  ASSUME TypeOK
  PROVE  /\ 0 \in Ptr /\ 0 \in PtrLoc
         /\ Ptr \subseteq PtrLoc /\ RecOff \subseteq PtrLoc
         /\ 0 .. NHASH \subseteq PtrLoc
         /\ \A o \in Ptr : o # 0 => o \in RecOff /\ o <= PTR_MAX
         /\ \A o \in RecOff : o <= PTR_MAX => o \in Ptr
         /\ \A o \in RecOff : o # 0 /\ o + 1 \in ScanType
         /\ \A k \in Keys : ChainOff(k) \in 0 .. NHASH
  BY ConstAssumption, LenNat
  DEF Ptr, PtrLoc, RecOff, FirstRec, ScanType, ChainOff, HASH_OFF

LEMMA RecTyped ==
  ASSUME TypeOK, NEW o \in RecOff
  PROVE  Rec(o) \in IdxType
<1>1. o - NHASH \in 1 .. Len(idx)
  BY ConstAssumption, LenNat DEF RecOff, FirstRec
<1> QED BY <1>1, ElementOfSeq DEF TypeOK, Rec

LEMMA FieldTyped ==
  ASSUME TypeOK, NEW o \in PtrLoc
  PROVE  Field(o) \in Ptr
<1>1. CASE o < FirstRec
  BY <1>1, ConstAssumption, LenNat DEF Field, TypeOK, PtrLoc, FirstRec
<1>2. CASE ~(o < FirstRec)
  <2>1. o \in RecOff
    BY <1>2, ConstAssumption, LenNat DEF PtrLoc, RecOff, FirstRec
  <2> QED BY <1>2, <2>1, RecTyped DEF Field, IdxType
<1> QED BY <1>1, <1>2

LEMMA ReadidxTyped ==
  ASSUME TypeOK, NEW p \in Procs, NEW o \in RecOff
  PROVE  /\ AfterReadidx(p, o) \in DbType
         /\ AfterReadidx(p, o).idxoff = o /\ o # 0
         /\ AfterReadidx(p, o).datoff # 0
         /\ AfterReadidx(p, o).idxbuf = Rec(o).key
         /\ AfterReadidx(p, o).ptrval = Rec(o).ptr
         /\ AfterReadidx(p, o).offset = d[p].offset
         /\ AfterReadidx(p, o).chainoff = d[p].chainoff
<1>1. Rec(o) \in IdxType /\ o # 0
  BY RecTyped, OffsetFacts
<1>2. d[p] \in DbType
  BY DEF TypeOK
<1>3. \A x \in DatPos : x # 0
  BY LenNat DEF DatPos
<1> QED BY <1>1, <1>2, <1>3 DEF AfterReadidx, DbType, IdxType

(***************************************************************************)
(* Steps that change no file length.                                       *)
(***************************************************************************)
LEMMA SameTypes ==
  ASSUME Len(idx') = Len(idx), Len(dat') = Len(dat)
  PROVE  /\ Ptr' = Ptr /\ PtrLoc' = PtrLoc /\ RecOff' = RecOff
         /\ DatPos' = DatPos /\ IdxType' = IdxType /\ DbType' = DbType
         /\ ScanType' = ScanType /\ PosType' = PosType
<1>1. RecOff' = RecOff /\ PtrLoc' = PtrLoc /\ DatPos' = DatPos /\ ScanType' = ScanType
  BY DEF RecOff, PtrLoc, DatPos, ScanType, FirstRec
<1>2. Ptr' = Ptr /\ PosType' = PosType
  BY <1>1 DEF Ptr, PosType, Unaligned
<1> QED BY <1>1, <1>2 DEF IdxType, DbType

(* A step of process p leaves the other processes' obligations alone.      *)
LEMMA PcInvStep ==
  ASSUME PcInv, NEW p \in Procs,
         \A q \in Procs \ {p} : /\ pc'[q] = pc[q] /\ arg'[q] = arg[q]
                                /\ d'[q] = d[q],
         PcOK(p)'
  PROVE  PcInv'
<1>1. ASSUME NEW q \in Procs, q # p PROVE PcOK(q)'
  <2>1. PcOK(q) /\ pc'[q] = pc[q] /\ arg'[q] = arg[q] /\ d'[q] = d[q]
    BY <1>1 DEF PcInv
  <2> QED BY <2>1 DEF PcOK
<1> QED BY <1>1 DEF PcInv

LEMMA LocksTyped ==
  ASSUME TypeOK, NEW p \in Procs, NEW r \in Region,
         readw_lock(p, r) \/ writew_lock(p, r) \/ un_lock(p, r)
  PROVE  rd' \in [Procs -> SUBSET Region] /\ wr' \in [Procs -> SUBSET Region]
<1>1. CASE readw_lock(p, r)
  BY <1>1 DEF TypeOK, readw_lock
<1>2. CASE writew_lock(p, r)
  BY <1>2 DEF TypeOK, writew_lock
<1>3. CASE un_lock(p, r)
  BY <1>3 DEF TypeOK, un_lock
<1> QED BY <1>1, <1>2, <1>3

LEMMA Regions == 0 .. NHASH \subseteq Region /\ FREE_OFF \in Region
                 /\ IdxTail \in Region /\ DatFile \in Region
  BY ConstAssumption DEF Region, FREE_OFF, IdxTail, DatFile, FirstRec

(***************************************************************************)
(* Writes.                                                                 *)
(***************************************************************************)
LEMMA RecIndex ==
  ASSUME TypeOK, NEW o \in RecOff
  PROVE  o - NHASH \in 1 .. Len(idx)
  BY ConstAssumption, LenNat DEF RecOff, FirstRec

LEMMA WriteptrTyped ==
  ASSUME TypeOK, NEW p \in Procs, NEW o \in PtrLoc, NEW v \in Ptr,
         _db_writeptr(p, o, v)
  PROVE  /\ tbl' \in [0 .. NHASH -> Ptr] /\ idx' \in Seq(IdxType)
         /\ Len(idx') = Len(idx) /\ dat' = dat
         /\ pos' \in [Procs -> PosType]
<1>1. pos' \in [Procs -> PosType] /\ dat' = dat
  BY DEF _db_writeptr, TypeOK, PosType, Unaligned
<1>2. CASE o < FirstRec
  BY <1>1, <1>2 DEF _db_writeptr, TypeOK
<1>3. CASE ~(o < FirstRec)
  <2>1. o \in RecOff
    BY <1>3, ConstAssumption, LenNat DEF PtrLoc, RecOff, FirstRec
  <2>2. o - NHASH \in 1 .. Len(idx) /\ idx[o - NHASH] \in IdxType
    BY <2>1, RecIndex, RecTyped DEF Rec
  <2>3. [idx[o - NHASH] EXCEPT !.ptr = v] \in IdxType
    BY <2>2 DEF IdxType
  <2>4. idx' = [idx EXCEPT ![o - NHASH] = [idx[o - NHASH] EXCEPT !.ptr = v]]
        /\ tbl' = tbl
    BY <1>3 DEF _db_writeptr
  <2> QED BY <1>1, <2>2, <2>3, <2>4, ExceptSeq DEF TypeOK
<1> QED BY <1>2, <1>3

LEMMA OverwriteDatTyped ==
  ASSUME TypeOK, NEW o \in DatPos, NEW v \in Vals \cup {Blank}, NEW len \in Nat,
         OverwriteDat(o, v, len)
  PROVE  dat' \in Seq(DatType) /\ Len(dat') = Len(dat)
<1>1. [val |-> v, len |-> len] \in DatType
  BY DEF DatType
<1> QED BY <1>1, ExceptSeq DEF OverwriteDat, TypeOK, DatPos

LEMMA OverwriteIdxTyped ==
  ASSUME TypeOK, NEW p \in Procs, NEW k \in Keys \cup {Blank}, NEW klen \in Nat,
         NEW ptr \in Ptr, d[p].idxoff # 0, d[p].datoff # 0,
         OverwriteIdx(p, k, klen, ptr)
  PROVE  /\ idx' \in Seq(IdxType) /\ Len(idx') = Len(idx)
         /\ pos' \in [Procs -> PosType]
<1>1. d[p].idxoff \in RecOff /\ d[p].datoff \in DatPos /\ d[p].datlen \in Nat
  BY DEF TypeOK, DbType
<1>2. [ptr |-> ptr, key |-> k, klen |-> klen,
       datoff |-> d[p].datoff, datlen |-> d[p].datlen] \in IdxType
  BY <1>1 DEF IdxType
<1>3. d[p].idxoff - NHASH \in 1 .. Len(idx) /\ d[p].idxoff + 1 \in ScanType
  BY <1>1, RecIndex, OffsetFacts
<1>4. idx' \in Seq(IdxType) /\ Len(idx') = Len(idx)
  BY <1>2, <1>3, ExceptSeq DEF OverwriteIdx, TypeOK
<1>5. pos' \in [Procs -> PosType]
  BY <1>3 DEF OverwriteIdx, TypeOK, PosType
<1> QED BY <1>4, <1>5

(* A longer file has more offsets.                                         *)
LEMMA GrowTypes ==
  ASSUME TypeOK, Len(idx') \in Nat, Len(dat') \in Nat,
         Len(idx') >= Len(idx), Len(dat') >= Len(dat)
  PROVE  /\ Ptr \subseteq Ptr' /\ PtrLoc \subseteq PtrLoc'
         /\ RecOff \subseteq RecOff' /\ DatPos \subseteq DatPos'
         /\ IdxType \subseteq IdxType' /\ DbType \subseteq DbType'
         /\ ScanType \subseteq ScanType' /\ PosType \subseteq PosType'
<1>1. /\ RecOff \subseteq RecOff' /\ PtrLoc \subseteq PtrLoc'
      /\ DatPos \subseteq DatPos' /\ ScanType \subseteq ScanType'
  BY ConstAssumption, LenNat DEF RecOff, PtrLoc, DatPos, ScanType, FirstRec
<1>2. Ptr \subseteq Ptr' /\ PosType \subseteq PosType'
  BY <1>1 DEF Ptr, PosType, Unaligned
<1>3. IdxType \subseteq IdxType'
  BY <1>1, <1>2 DEF IdxType
<1>4. DbType \subseteq DbType'
  BY <1>1, <1>2 DEF DbType
<1> QED BY <1>1, <1>2, <1>3, <1>4

LEMMA SeqMono ==
  ASSUME NEW S, NEW T, S \subseteq T, NEW s \in Seq(S)
  PROVE  s \in Seq(T)
  OBVIOUS

(***************************************************************************)
(* The steps, one lemma per action.                                        *)
(***************************************************************************)
LEMMA FindLockOK ==
  ASSUME TypeOK, PcInv, NEW p \in Procs, FindLock(p)
  PROVE  TypeOK' /\ PcInv'
<1>1. arg[p].key \in Keys /\ arg[p].op \in {"fetch", "store", "delete"}
  BY DEF PcInv, PcOK, FindLock, At, KeyLabels, Labels, ScanLabels
<1>2. ChainOff(arg[p].key) \in 0 .. NHASH /\ ChainOff(arg[p].key) \in PtrLoc
  BY <1>1, OffsetFacts
<1>3. d[p] \in DbType
  BY DEF TypeOK
<1>3a. [d[p] EXCEPT !.chainoff = ChainOff(arg[p].key), !.ptroff = ChainOff(arg[p].key)] \in DbType
  BY <1>2, <1>3 DEF DbType
<1>3b. d' \in [Procs -> DbType]
  BY <1>3a DEF TypeOK, FindLock, SetDb
<1>4. pc' \in [Procs -> Labels]
  BY DEF TypeOK, FindLock, Goto, Labels
<1>5. rd' \in [Procs -> SUBSET Region] /\ wr' \in [Procs -> SUBSET Region]
  BY <1>2, LocksTyped, Regions DEF FindLock
<1>6. TypeOK'
  BY <1>3b, <1>4, <1>5, SameTypes DEF TypeOK, FindLock, files
<1>7. PcOK(p)'
  BY <1>1 DEF PcInv, PcOK, TypeOK, FindLock, Goto, KeyLabels, Labels, ScanLabels, StoreLabels, NeedsRec, DelLabels
<1>8. PcInv'
  BY <1>7, PcInvStep DEF FindLock, TypeOK, Goto, SetDb
<1> QED BY <1>6, <1>8

LEMMA FindNextOK ==
  ASSUME TypeOK, PcInv, NEW p \in Procs, FindNext(p)
  PROVE  TypeOK' /\ PcInv'
<1> DEFINE o == d[p].offset
<1>1. arg[p].key \in Keys /\ arg[p].op \in {"fetch", "store", "delete"} /\ o \in Ptr /\ o # 0
  BY DEF PcInv, PcOK, FindNext, At, KeyLabels, Labels, ScanLabels, TypeOK, DbType
<1>2. o \in RecOff /\ o <= PTR_MAX /\ o \in PtrLoc /\ o+1 \in ScanType
  BY <1>1, OffsetFacts
<1>3. Rec(o) \in IdxType /\ AfterReadidx(p,o) \in DbType
  BY <1>2, RecTyped, ReadidxTyped
<1>3a. [AfterReadidx(p,o) EXCEPT !.ptroff = o, !.offset = Rec(o).ptr] \in DbType
  BY <1>2, <1>3 DEF DbType, IdxType
<1>4. d' \in [Procs -> DbType]
  BY <1>3, <1>3a DEF TypeOK, FindNext, SetDb
<1>5. pc' \in [Procs -> Labels] /\ rc' \in [Procs -> RcType]
  BY <1>1, ZenonT(30) DEF TypeOK, FindNext, Goto, Labels, Hit, HitPc, Miss, MissPc, MissRc, MayInsert, RcType
<1>6. pos' \in [Procs -> PosType]
  BY <1>2 DEF FindNext, ReadidxPos, TypeOK, PosType
<1>7. TypeOK'
  BY <1>4, <1>5, <1>6, SameTypes DEF TypeOK, FindNext, files, locks
<1>8. PcOK(p)'
  <2>0. (arg[p].op = "store" => arg[p].val \in Vals) /\ arg'[p] = arg[p] /\ pc[p] = "find_next"
    BY DEF PcInv, PcOK, FindNext, At
  <2>1. CASE Rec(o).key = arg[p].key
    <3>1. d'[p] = AfterReadidx(p, o) /\ pc'[p] = HitPc(arg[p], Rec(o).datlen)
      BY <2>1 DEF FindNext, TypeOK, Hit, Goto, SetDb
    <3>2. d'[p].idxoff # 0 /\ d'[p].idxoff <= PTR_MAX /\ d'[p].datoff # 0 /\ d'[p].idxbuf \in Keys
      BY <3>1, <1>1, <1>2, <2>1, ReadidxTyped
    <3>3. pc'[p] \in {"fetch_dat", "unlock", "rep_dat", "del_lock"} /\ (pc'[p] = "rep_dat" => arg[p].op = "store") /\ (pc'[p] = "del_lock" => arg[p].op # "fetch")
      BY <3>1, <1>1 DEF HitPc
    <3> QED BY <2>0, <3>1, <3>2, <3>3, <1>1 DEF PcOK,  KeyLabels, Labels, ScanLabels, StoreLabels, NeedsRec, DelLabels
  <2>2. CASE Rec(o).key # arg[p].key
    <3>1. d'[p] = [AfterReadidx(p, o) EXCEPT !.ptroff = o, !.offset = Rec(o).ptr]
      BY <2>2 DEF FindNext, TypeOK, SetDb
    <3>2. d'[p].offset = Rec(o).ptr
      BY <3>1, <1>3 DEF DbType
    <3>3. pc'[p] \in {"ins_head", "unlock", "find_next"} /\ (pc'[p] = "ins_head" => arg[p].op = "store") /\ (pc'[p] = "find_next" => Rec(o).ptr # 0)
      BY <2>2, <2>0, <1>1 DEF FindNext, Miss, Goto, MissPc, MayInsert, TypeOK
    <3> QED BY <2>0, <3>1, <3>2, <3>3, <1>1 DEF PcOK,  KeyLabels, Labels, ScanLabels, StoreLabels, NeedsRec, DelLabels
  <2> QED BY <2>1, <2>2
<1>9. PcInv'
  BY <1>8, PcInvStep DEF FindNext, TypeOK, Goto, Hit, Miss, SetDb
<1> QED BY <1>7, <1>9

LEMMA FindHeadOK ==
  ASSUME TypeOK, PcInv, NEW p \in Procs, FindHead(p)
  PROVE  TypeOK' /\ PcInv'
<1>1. d[p].ptroff \in PtrLoc
  BY DEF TypeOK, DbType
<1>2. Field(d[p].ptroff) \in Ptr /\ d[p] \in DbType
  BY <1>1, FieldTyped, OffsetFacts DEF TypeOK
<1>3. [d[p] EXCEPT !.offset = Field(d[p].ptroff)] \in DbType
  BY <1>1, <1>2 DEF DbType
<1>4. d' \in [Procs -> DbType]
  BY <1>3 DEF TypeOK, FindHead, SetDb
<1>5. pos' \in [Procs -> PosType]
  BY DEF TypeOK, FindHead, ReadPtrPos, PosType, Unaligned
<1>6. pc' \in [Procs -> Labels] /\ rc' \in [Procs -> RcType]
  BY DEF TypeOK, FindHead, Goto, Labels, Miss, MissPc, MissRc, MayInsert, RcType
<1>7. TypeOK'
  BY <1>4, <1>5, <1>6, SameTypes DEF TypeOK, FindHead, files, locks
<1>8. PcOK(p)'
  <2>1. d'[p] = [d[p] EXCEPT !.offset = Field(d[p].ptroff)]
    BY DEF FindHead, TypeOK, SetDb
  <2>2. d'[p].offset = Field(d[p].ptroff)
    BY <1>2, <2>1 DEF DbType
  <2>3. /\ arg'[p] = arg[p] /\ arg[p].key \in Keys
        /\ arg[p].op \in {"fetch", "store", "delete"}
        /\ arg[p].op = "store" => arg[p].val \in Vals
    BY DEF FindHead, At, PcInv, PcOK, KeyLabels, ScanLabels, Labels
  <2>4. /\ pc'[p] \in {"ins_head", "unlock", "find_next"}
        /\ pc'[p] = "ins_head" => arg[p].op = "store"
        /\ pc'[p] = "find_next" => Field(d[p].ptroff) # 0
    BY <2>3 DEF FindHead, Miss, Goto, MissPc, MayInsert, TypeOK
  <2> QED BY <2>2, <2>3, <2>4 DEF PcOK, KeyLabels, StoreLabels, ScanLabels, DelLabels,
         NeedsRec, Labels
<1> QED BY <1>7, <1>8, PcInvStep DEF FindHead, TypeOK, Goto, SetDb, Miss, MissPc, MayInsert

LEMMA InsHeadOK ==
  ASSUME TypeOK, PcInv, NEW p \in Procs, InsHead(p)
  PROVE  TypeOK' /\ PcInv'
<1>1. d[p].chainoff \in PtrLoc
  BY OffsetFacts DEF TypeOK, DbType
<1>2. Field(d[p].chainoff) \in Ptr /\ d[p] \in DbType
  BY <1>1, FieldTyped, OffsetFacts DEF TypeOK
<1>3. [d[p] EXCEPT !.head = Field(d[p].chainoff)] \in DbType
  BY <1>1, <1>2 DEF DbType
<1>4. d' \in [Procs -> DbType]
  BY <1>3 DEF TypeOK, InsHead, SetDb
<1>5. pos' \in [Procs -> PosType]
  BY DEF TypeOK, InsHead, ReadPtrPos, PosType, Unaligned
<1>6. pc' \in [Procs -> Labels]
  BY DEF TypeOK, InsHead, Goto, Labels
<1>7. TypeOK'
  BY <1>4, <1>5, <1>6, SameTypes DEF TypeOK, InsHead, files, locks
<1>8. PcOK(p)'
  <2>1. d'[p] = [d[p] EXCEPT !.head = Field(d[p].chainoff)]
    BY DEF InsHead, TypeOK, SetDb
  <2> QED BY <1>1, <1>2, <2>1, ZenonT(30) DEF InsHead, At, Goto, TypeOK, PcInv, PcOK, KeyLabels,
         StoreLabels, ScanLabels, DelLabels, NeedsRec, Labels, DbType
<1> QED BY <1>7, <1>8, PcInvStep DEF InsHead, TypeOK, Goto, SetDb

LEMMA FreeHeadOK ==
  ASSUME TypeOK, PcInv, NEW p \in Procs, FreeHead(p)
  PROVE  TypeOK' /\ PcInv'
<1>1. FREE_OFF \in PtrLoc
  BY OffsetFacts DEF FREE_OFF
<1>2. Field(FREE_OFF) \in Ptr /\ d[p] \in DbType
  BY <1>1, FieldTyped, OffsetFacts DEF TypeOK
<1>3. [d[p] EXCEPT !.saveoff = FREE_OFF, !.offset = Field(FREE_OFF)] \in DbType
  BY <1>1, <1>2 DEF DbType
<1>4. d' \in [Procs -> DbType]
  BY <1>3 DEF TypeOK, FreeHead, SetDb
<1>5. pos' \in [Procs -> PosType]
  BY DEF TypeOK, FreeHead, ReadPtrPos, PosType, Unaligned
<1>6. pc' \in [Procs -> Labels]
  BY DEF TypeOK, FreeHead, Goto, Labels
<1>7. TypeOK'
  BY <1>4, <1>5, <1>6, SameTypes DEF TypeOK, FreeHead, files, locks
<1>8. PcOK(p)'
  <2>1. d'[p] = [d[p] EXCEPT !.saveoff = FREE_OFF, !.offset = Field(FREE_OFF)]
    BY DEF FreeHead, TypeOK, SetDb
  <2> QED BY <1>1, <1>2, <2>1, ZenonT(30) DEF FreeHead, At, Goto, TypeOK, PcInv, PcOK, KeyLabels,
         StoreLabels, ScanLabels, DelLabels, NeedsRec, Labels, DbType
<1> QED BY <1>7, <1>8, PcInvStep DEF FreeHead, TypeOK, Goto, SetDb

LEMMA RepHeadOK ==
  ASSUME TypeOK, PcInv, NEW p \in Procs, RepHead(p)
  PROVE  TypeOK' /\ PcInv'
<1>1. d[p].chainoff \in PtrLoc
  BY OffsetFacts DEF TypeOK, DbType
<1>2. Field(d[p].chainoff) \in Ptr /\ d[p] \in DbType
  BY <1>1, FieldTyped, OffsetFacts DEF TypeOK
<1>3. [d[p] EXCEPT !.head = Field(d[p].chainoff)] \in DbType
  BY <1>1, <1>2 DEF DbType
<1>4. d' \in [Procs -> DbType]
  BY <1>3 DEF TypeOK, RepHead, SetDb
<1>5. pos' \in [Procs -> PosType]
  BY DEF TypeOK, RepHead, ReadPtrPos, PosType, Unaligned
<1>6. pc' \in [Procs -> Labels]
  BY DEF TypeOK, RepHead, Goto, Labels
<1>7. TypeOK'
  BY <1>4, <1>5, <1>6, SameTypes DEF TypeOK, RepHead, files, locks
<1>8. PcOK(p)'
  <2>1. d'[p] = [d[p] EXCEPT !.head = Field(d[p].chainoff)]
    BY DEF RepHead, TypeOK, SetDb
  <2> QED BY <1>1, <1>2, <2>1 DEF RepHead, At, Goto, TypeOK, PcInv, PcOK, KeyLabels,
         StoreLabels, ScanLabels, DelLabels, NeedsRec, Labels, DbType
<1> QED BY <1>7, <1>8, PcInvStep DEF RepHead, TypeOK, Goto, SetDb

LEMMA DelFreeOK ==
  ASSUME TypeOK, PcInv, NEW p \in Procs, DelFree(p)
  PROVE  TypeOK' /\ PcInv'
<1>1. FREE_OFF \in PtrLoc
  BY OffsetFacts DEF FREE_OFF
<1>2. Field(FREE_OFF) \in Ptr /\ d[p] \in DbType
  BY <1>1, FieldTyped, OffsetFacts DEF TypeOK
<1>3. [d[p] EXCEPT !.freeptr = Field(FREE_OFF), !.saveptr = d[p].ptrval] \in DbType
  BY <1>1, <1>2 DEF DbType
<1>4. d' \in [Procs -> DbType]
  BY <1>3 DEF TypeOK, DelFree, SetDb
<1>5. pos' \in [Procs -> PosType]
  BY DEF TypeOK, DelFree, ReadPtrPos, PosType, Unaligned
<1>6. pc' \in [Procs -> Labels]
  BY DEF TypeOK, DelFree, Goto, Labels
<1>7. TypeOK'
  BY <1>4, <1>5, <1>6, SameTypes DEF TypeOK, DelFree, files, locks
<1>8. PcOK(p)'
  <2>1. d'[p] = [d[p] EXCEPT !.freeptr = Field(FREE_OFF), !.saveptr = d[p].ptrval]
    BY DEF DelFree, TypeOK, SetDb
  <2> QED BY <1>1, <1>2, <2>1, ZenonT(30) DEF DelFree, At, Goto, TypeOK, PcInv, PcOK, KeyLabels,
         StoreLabels, ScanLabels, DelLabels, NeedsRec, Labels, DbType
<1> QED BY <1>7, <1>8, PcInvStep DEF DelFree, TypeOK, Goto, SetDb

LEMMA FreeUnlockOK ==
  ASSUME TypeOK, PcInv, NEW p \in Procs, FreeUnlock(p)
  PROVE  TypeOK' /\ PcInv'
<1>1. rd' \in [Procs -> SUBSET Region] /\ wr' \in [Procs -> SUBSET Region]
  BY LocksTyped, Regions DEF FreeUnlock
<1>2. pc' \in [Procs -> Labels]
  BY DEF TypeOK, FreeUnlock, Goto, Labels
<1>3. TypeOK'
  BY <1>1, <1>2, SameTypes DEF TypeOK, FreeUnlock, files
<1>4. PcOK(p)'
  BY DEF FreeUnlock, At, Goto, TypeOK, PcInv, PcOK, KeyLabels, StoreLabels, ScanLabels,
         DelLabels, NeedsRec, Labels
<1> QED BY <1>3, <1>4, PcInvStep DEF FreeUnlock, TypeOK, Goto

LEMMA AppDatLockOK ==
  ASSUME TypeOK, PcInv, NEW p \in Procs, AppDatLock(p)
  PROVE  TypeOK' /\ PcInv'
<1>1. rd' \in [Procs -> SUBSET Region] /\ wr' \in [Procs -> SUBSET Region]
  BY LocksTyped, Regions DEF AppDatLock
<1>2. pc' \in [Procs -> Labels]
  BY DEF TypeOK, AppDatLock, Goto, Labels
<1>3. TypeOK'
  BY <1>1, <1>2, SameTypes DEF TypeOK, AppDatLock, files
<1>4. PcOK(p)'
  BY DEF AppDatLock, At, Goto, TypeOK, PcInv, PcOK, KeyLabels, StoreLabels, ScanLabels,
         DelLabels, NeedsRec, Labels
<1> QED BY <1>3, <1>4, PcInvStep DEF AppDatLock, TypeOK, Goto

LEMMA AppDatUnlockOK ==
  ASSUME TypeOK, PcInv, NEW p \in Procs, AppDatUnlock(p)
  PROVE  TypeOK' /\ PcInv'
<1>1. rd' \in [Procs -> SUBSET Region] /\ wr' \in [Procs -> SUBSET Region]
  BY LocksTyped, Regions DEF AppDatUnlock
<1>2. pc' \in [Procs -> Labels]
  BY DEF TypeOK, AppDatUnlock, Goto, Labels
<1>3. TypeOK'
  BY <1>1, <1>2, SameTypes DEF TypeOK, AppDatUnlock, files
<1>4. PcOK(p)'
  BY DEF AppDatUnlock, At, Goto, TypeOK, PcInv, PcOK, KeyLabels, StoreLabels, ScanLabels,
         DelLabels, NeedsRec, Labels
<1> QED BY <1>3, <1>4, PcInvStep DEF AppDatUnlock, TypeOK, Goto

LEMMA AppIdxLockOK ==
  ASSUME TypeOK, PcInv, NEW p \in Procs, AppIdxLock(p)
  PROVE  TypeOK' /\ PcInv'
<1>1. rd' \in [Procs -> SUBSET Region] /\ wr' \in [Procs -> SUBSET Region]
  BY LocksTyped, Regions DEF AppIdxLock
<1>2. pc' \in [Procs -> Labels]
  BY DEF TypeOK, AppIdxLock, Goto, Labels
<1>3. TypeOK'
  BY <1>1, <1>2, SameTypes DEF TypeOK, AppIdxLock, files
<1>4. PcOK(p)'
  BY DEF AppIdxLock, At, Goto, TypeOK, PcInv, PcOK, KeyLabels, StoreLabels, ScanLabels,
         DelLabels, NeedsRec, Labels
<1> QED BY <1>3, <1>4, PcInvStep DEF AppIdxLock, TypeOK, Goto

LEMMA AppIdxUnlockOK ==
  ASSUME TypeOK, PcInv, NEW p \in Procs, AppIdxUnlock(p)
  PROVE  TypeOK' /\ PcInv'
<1>1. rd' \in [Procs -> SUBSET Region] /\ wr' \in [Procs -> SUBSET Region]
  BY LocksTyped, Regions DEF AppIdxUnlock
<1>2. pc' \in [Procs -> Labels]
  BY DEF TypeOK, AppIdxUnlock, Goto, Labels
<1>3. TypeOK'
  BY <1>1, <1>2, SameTypes DEF TypeOK, AppIdxUnlock, files
<1>4. PcOK(p)'
  BY DEF AppIdxUnlock, At, Goto, TypeOK, PcInv, PcOK, KeyLabels, StoreLabels, ScanLabels,
         DelLabels, NeedsRec, Labels
<1> QED BY <1>3, <1>4, PcInvStep DEF AppIdxUnlock, TypeOK, Goto

LEMMA DelLockOK ==
  ASSUME TypeOK, PcInv, NEW p \in Procs, DelLock(p)
  PROVE  TypeOK' /\ PcInv'
<1>1. rd' \in [Procs -> SUBSET Region] /\ wr' \in [Procs -> SUBSET Region]
  BY LocksTyped, Regions DEF DelLock
<1>2. pc' \in [Procs -> Labels]
  BY DEF TypeOK, DelLock, Goto, Labels
<1>3. TypeOK'
  BY <1>1, <1>2, SameTypes DEF TypeOK, DelLock, files
<1>4. PcOK(p)'
  BY DEF DelLock, At, Goto, TypeOK, PcInv, PcOK, KeyLabels, StoreLabels, ScanLabels,
         DelLabels, NeedsRec, Labels
<1> QED BY <1>3, <1>4, PcInvStep DEF DelLock, TypeOK, Goto

LEMMA DelUnlockOK ==
  ASSUME TypeOK, PcInv, NEW p \in Procs, DelUnlock(p)
  PROVE  TypeOK' /\ PcInv'
<1>1. rd' \in [Procs -> SUBSET Region] /\ wr' \in [Procs -> SUBSET Region]
  BY LocksTyped, Regions DEF DelUnlock
<1>2. pc' \in [Procs -> Labels]
  BY DEF TypeOK, DelUnlock, Goto, Labels
<1>3. TypeOK'
  BY <1>1, <1>2, SameTypes DEF TypeOK, DelUnlock, files
<1>4. PcOK(p)'
  BY DEF DelUnlock, At, Goto, TypeOK, PcInv, PcOK, KeyLabels, StoreLabels, ScanLabels,
         DelLabels, NeedsRec, Labels
<1> QED BY <1>3, <1>4, PcInvStep DEF DelUnlock, TypeOK, Goto

LEMMA NextLockOK ==
  ASSUME TypeOK, PcInv, NEW p \in Procs, NextLock(p)
  PROVE  TypeOK' /\ PcInv'
<1>1. rd' \in [Procs -> SUBSET Region] /\ wr' \in [Procs -> SUBSET Region]
  BY LocksTyped, Regions DEF NextLock
<1>2. pc' \in [Procs -> Labels]
  BY DEF TypeOK, NextLock, Goto, Labels
<1>3. TypeOK'
  BY <1>1, <1>2, SameTypes DEF TypeOK, NextLock, files
<1>4. PcOK(p)'
  BY DEF NextLock, At, Goto, TypeOK, PcInv, PcOK, KeyLabels, StoreLabels, ScanLabels,
         DelLabels, NeedsRec, Labels
<1> QED BY <1>3, <1>4, PcInvStep DEF NextLock, TypeOK, Goto

LEMMA FetchDatOK ==
  ASSUME TypeOK, PcInv, NEW p \in Procs, FetchDat(p)
  PROVE  TypeOK' /\ PcInv'
<1>1. d[p].datoff \in 1 .. Len(dat)
  BY DEF FetchDat, At, PcInv, PcOK, NeedsRec, TypeOK, DbType, DatPos
<1>1a. dat[d[p].datoff] \in DatType
  BY <1>1, ElementOfSeq DEF TypeOK
<1>2. _db_readdat(d[p].datoff) \in RcType
  BY <1>1a DEF _db_readdat, DatType, RcType
<1>3. pc' \in [Procs -> Labels] /\ rc' \in [Procs -> RcType]
  BY <1>2 DEF TypeOK, FetchDat, Goto, Labels
<1>4. TypeOK'
  BY <1>3, SameTypes DEF TypeOK, FetchDat, files, locks
<1>5. PcOK(p)'
  BY ZenonT(30) DEF FetchDat, At, Goto, TypeOK, PcInv, PcOK, KeyLabels, StoreLabels, ScanLabels,
         DelLabels, NeedsRec, Labels
<1> QED BY <1>4, <1>5, PcInvStep DEF FetchDat, TypeOK, Goto

LEMMA NextDatOK ==
  ASSUME TypeOK, PcInv, NEW p \in Procs, NextDat(p)
  PROVE  TypeOK' /\ PcInv'
<1>1. d[p].datoff \in 1 .. Len(dat)
  BY DEF NextDat, At, PcInv, PcOK, NeedsRec, TypeOK, DbType, DatPos
<1>1a. dat[d[p].datoff] \in DatType
  BY <1>1, ElementOfSeq DEF TypeOK
<1>2. _db_readdat(d[p].datoff) \in RcType
  BY <1>1a DEF _db_readdat, DatType, RcType
<1>3. pc' \in [Procs -> Labels] /\ rc' \in [Procs -> RcType]
  BY <1>2 DEF TypeOK, NextDat, Goto, Labels
<1>4. TypeOK'
  BY <1>3, SameTypes DEF TypeOK, NextDat, files, locks
<1>5. PcOK(p)'
  BY DEF NextDat, At, Goto, TypeOK, PcInv, PcOK, KeyLabels, StoreLabels, ScanLabels,
         DelLabels, NeedsRec, Labels
<1> QED BY <1>4, <1>5, PcInvStep DEF NextDat, TypeOK, Goto

LEMMA FreeUnlinkOK ==
  ASSUME TypeOK, PcInv, NEW p \in Procs, FreeUnlink(p)
  PROVE  TypeOK' /\ PcInv'
<1>1. d[p].saveoff \in PtrLoc /\ d[p].ptrval \in Ptr
  BY DEF TypeOK, DbType
<1>2. /\ tbl' \in [0 .. NHASH -> Ptr] /\ idx' \in Seq(IdxType)
      /\ Len(idx') = Len(idx) /\ dat' = dat /\ pos' \in [Procs -> PosType]
  BY <1>1, WriteptrTyped DEF FreeUnlink
<1>3. pc' \in [Procs -> Labels] /\ rc' \in [Procs -> RcType]
  BY DEF TypeOK, FreeUnlink, Goto, Labels, RcType
<1>4. map' \in [Keys -> Vals \cup {NULL}]
  BY DEF TypeOK, FreeUnlink, At, PcInv, PcOK, KeyLabels, StoreLabels, ScanLabels, Labels
<1>5. TypeOK'
  BY <1>2, <1>3, <1>4, SameTypes DEF TypeOK, FreeUnlink, locks
<1>6. PcOK(p)'
  BY DEF FreeUnlink, At, Goto, TypeOK, PcInv, PcOK, KeyLabels, StoreLabels, ScanLabels,
         DelLabels, NeedsRec, Labels
<1> QED BY <1>5, <1>6, PcInvStep DEF FreeUnlink, TypeOK, Goto

LEMMA LinkOK ==
  ASSUME TypeOK, PcInv, NEW p \in Procs, Link(p)
  PROVE  TypeOK' /\ PcInv'
<1>0. d[p].idxoff \in RecOff /\ d[p].chainoff \in 0 .. NHASH
  BY DEF Link, At, PcInv, PcOK, TypeOK, DbType
<1>1. d[p].chainoff \in PtrLoc /\ d[p].idxoff \in Ptr
  BY <1>0, OffsetFacts DEF Link
<1>2. /\ tbl' \in [0 .. NHASH -> Ptr] /\ idx' \in Seq(IdxType)
      /\ Len(idx') = Len(idx) /\ dat' = dat /\ pos' \in [Procs -> PosType]
  BY <1>1, WriteptrTyped DEF Link
<1>3. pc' \in [Procs -> Labels] /\ rc' \in [Procs -> RcType]
  BY DEF TypeOK, Link, Goto, Labels, RcType
<1>4. map' \in [Keys -> Vals \cup {NULL}]
  BY DEF TypeOK, Link, At, PcInv, PcOK, KeyLabels, StoreLabels, ScanLabels, Labels
<1>5. TypeOK'
  BY <1>2, <1>3, <1>4, SameTypes DEF TypeOK, Link, locks
<1>6. PcOK(p)'
  BY ZenonT(30) DEF Link, At, Goto, TypeOK, PcInv, PcOK, KeyLabels, StoreLabels, ScanLabels,
         DelLabels, NeedsRec, Labels
<1> QED BY <1>5, <1>6, PcInvStep DEF Link, TypeOK, Goto

LEMMA DelHeadOK ==
  ASSUME TypeOK, PcInv, NEW p \in Procs, DelHead(p)
  PROVE  TypeOK' /\ PcInv'
<1>0. d[p].idxoff \in RecOff /\ d[p].idxoff <= PTR_MAX
  BY DEF DelHead, At, PcInv, PcOK, NeedsRec, DelLabels, TypeOK, DbType
<1>1. FREE_OFF \in PtrLoc /\ d[p].idxoff \in Ptr
  BY <1>0, OffsetFacts DEF FREE_OFF
<1>2. /\ tbl' \in [0 .. NHASH -> Ptr] /\ idx' \in Seq(IdxType)
      /\ Len(idx') = Len(idx) /\ dat' = dat /\ pos' \in [Procs -> PosType]
  BY <1>1, WriteptrTyped DEF DelHead
<1>3. pc' \in [Procs -> Labels] /\ rc' \in [Procs -> RcType]
  BY DEF TypeOK, DelHead, Goto, Labels, RcType
<1>4. map' \in [Keys -> Vals \cup {NULL}]
  BY DEF TypeOK, DelHead, At, PcInv, PcOK, KeyLabels, StoreLabels, ScanLabels, Labels
<1>5. TypeOK'
  BY <1>2, <1>3, <1>4, SameTypes DEF TypeOK, DelHead, locks
<1>6. PcOK(p)'
  BY DEF DelHead, At, Goto, TypeOK, PcInv, PcOK, KeyLabels, StoreLabels, ScanLabels,
         DelLabels, NeedsRec, Labels
<1> QED BY <1>5, <1>6, PcInvStep DEF DelHead, TypeOK, Goto

LEMMA DelUnlinkOK ==
  ASSUME TypeOK, PcInv, NEW p \in Procs, DelUnlink(p)
  PROVE  TypeOK' /\ PcInv'
<1>1. d[p].ptroff \in PtrLoc /\ d[p].saveptr \in Ptr
  BY DEF TypeOK, DbType
<1>2. /\ tbl' \in [0 .. NHASH -> Ptr] /\ idx' \in Seq(IdxType)
      /\ Len(idx') = Len(idx) /\ dat' = dat /\ pos' \in [Procs -> PosType]
  BY <1>1, WriteptrTyped DEF DelUnlink
<1>3. pc' \in [Procs -> Labels] /\ rc' \in [Procs -> RcType]
  BY DEF TypeOK, DelUnlink, Goto, Labels, RcType
<1>4. map' \in [Keys -> Vals \cup {NULL}]
  BY DEF TypeOK, DelUnlink, At, PcInv, PcOK, KeyLabels, StoreLabels, ScanLabels, Labels
<1>5. TypeOK'
  BY <1>2, <1>3, <1>4, SameTypes DEF TypeOK, DelUnlink, locks
<1>6. PcOK(p)'
  BY DEF DelUnlink, At, Goto, TypeOK, PcInv, PcOK, KeyLabels, StoreLabels, ScanLabels,
         DelLabels, NeedsRec, Labels
<1> QED BY <1>5, <1>6, PcInvStep DEF DelUnlink, TypeOK, Goto

LEMMA ReuseDatOK ==
  ASSUME TypeOK, PcInv, NEW p \in Procs, ReuseDat(p)
  PROVE  TypeOK' /\ PcInv'
<1>1. /\ d[p].datoff \in DatPos /\ arg[p].val \in Vals \cup {Blank}
      /\ DatLen[arg[p].val] \in Nat
  BY ConstAssumption DEF ReuseDat, At, PcInv, PcOK, NeedsRec, DelLabels, StoreLabels, TypeOK, DbType
<1>2. dat' \in Seq(DatType) /\ Len(dat') = Len(dat)
  BY <1>1, OverwriteDatTyped DEF ReuseDat
<1>3. pc' \in [Procs -> Labels] /\ rc' \in [Procs -> RcType]
  BY DEF TypeOK, ReuseDat, Goto, Labels, RcType
<1>4. map' \in [Keys -> Vals \cup {NULL}]
  BY DEF TypeOK, ReuseDat, At, PcInv, PcOK, KeyLabels, StoreLabels, ScanLabels, Labels
<1>5. TypeOK'
  BY <1>2, <1>3, <1>4, SameTypes DEF TypeOK, ReuseDat, locks
<1>6. PcOK(p)'
  BY DEF ReuseDat, At, Goto, TypeOK, PcInv, PcOK, KeyLabels, StoreLabels, ScanLabels,
         DelLabels, NeedsRec, Labels
<1> QED BY <1>5, <1>6, PcInvStep DEF ReuseDat, TypeOK, Goto

LEMMA RepDatOK ==
  ASSUME TypeOK, PcInv, NEW p \in Procs, RepDat(p)
  PROVE  TypeOK' /\ PcInv'
<1>1. /\ d[p].datoff \in DatPos /\ arg[p].val \in Vals \cup {Blank}
      /\ DatLen[arg[p].val] \in Nat
  BY ConstAssumption DEF RepDat, At, PcInv, PcOK, NeedsRec, DelLabels, StoreLabels, TypeOK, DbType
<1>2. dat' \in Seq(DatType) /\ Len(dat') = Len(dat)
  BY <1>1, OverwriteDatTyped DEF RepDat
<1>3. pc' \in [Procs -> Labels] /\ rc' \in [Procs -> RcType]
  BY DEF TypeOK, RepDat, Goto, Labels, RcType
<1>4. map' \in [Keys -> Vals \cup {NULL}]
  BY DEF TypeOK, RepDat, At, PcInv, PcOK, KeyLabels, StoreLabels, ScanLabels, Labels
<1>5. TypeOK'
  BY <1>2, <1>3, <1>4, SameTypes DEF TypeOK, RepDat, locks
<1>6. PcOK(p)'
  BY ZenonT(30) DEF RepDat, At, Goto, TypeOK, PcInv, PcOK, KeyLabels, StoreLabels, ScanLabels,
         DelLabels, NeedsRec, Labels
<1> QED BY <1>5, <1>6, PcInvStep DEF RepDat, TypeOK, Goto

LEMMA DelDatOK ==
  ASSUME TypeOK, PcInv, NEW p \in Procs, DelDat(p)
  PROVE  TypeOK' /\ PcInv'
<1>1. /\ d[p].datoff \in DatPos /\ Blank \in Vals \cup {Blank}
      /\ d[p].datlen \in Nat
  BY ConstAssumption DEF DelDat, At, PcInv, PcOK, NeedsRec, DelLabels, StoreLabels, TypeOK, DbType
<1>2. dat' \in Seq(DatType) /\ Len(dat') = Len(dat)
  BY <1>1, OverwriteDatTyped DEF DelDat
<1>3. pc' \in [Procs -> Labels] /\ rc' \in [Procs -> RcType]
  BY DEF TypeOK, DelDat, Goto, Labels, RcType
<1>4. map' \in [Keys -> Vals \cup {NULL}]
  BY DEF TypeOK, DelDat, At, PcInv, PcOK, KeyLabels, StoreLabels, ScanLabels, Labels
<1>5. TypeOK'
  BY <1>2, <1>3, <1>4, SameTypes DEF TypeOK, DelDat, locks
<1>6. PcOK(p)'
  BY DEF DelDat, At, Goto, TypeOK, PcInv, PcOK, KeyLabels, StoreLabels, ScanLabels,
         DelLabels, NeedsRec, Labels
<1> QED BY <1>5, <1>6, PcInvStep DEF DelDat, TypeOK, Goto

LEMMA ReuseIdxOK ==
  ASSUME TypeOK, PcInv, NEW p \in Procs, ReuseIdx(p)
  PROVE  TypeOK' /\ PcInv'
<1>1. /\ d[p].idxoff # 0 /\ d[p].datoff # 0 /\ arg[p].key \in Keys \cup {Blank}
      /\ KeyLen[arg[p].key] \in Nat /\ d[p].head \in Ptr
  BY ConstAssumption DEF ReuseIdx, At, PcInv, PcOK, NeedsRec, DelLabels, KeyLabels, ScanLabels,
         Labels, TypeOK, DbType
<1>2. idx' \in Seq(IdxType) /\ Len(idx') = Len(idx) /\ pos' \in [Procs -> PosType]
  BY <1>1, OverwriteIdxTyped DEF ReuseIdx
<1>3. d[p] \in DbType /\ [d[p] EXCEPT !.ptrval = d[p].head] \in DbType
  BY <1>1, ZenonT(30) DEF TypeOK, DbType
<1>4. pc' \in [Procs -> Labels] /\ d' \in [Procs -> DbType]
  BY <1>3 DEF TypeOK, ReuseIdx, Goto, Labels, SetDb
<1>5. TypeOK'
  BY <1>2, <1>4, SameTypes DEF TypeOK, ReuseIdx, locks
<1>6. PcOK(p)'
  <2>1. d'[p] = [d[p] EXCEPT !.ptrval = d[p].head]
    BY DEF ReuseIdx, TypeOK, SetDb
  <2> QED BY <1>3, <2>1 DEF ReuseIdx, At, Goto, TypeOK, PcInv, PcOK, KeyLabels, StoreLabels,
         ScanLabels, DelLabels, NeedsRec, Labels, DbType
<1> QED BY <1>5, <1>6, PcInvStep DEF ReuseIdx, TypeOK, Goto, SetDb

LEMMA DelIdxOK ==
  ASSUME TypeOK, PcInv, NEW p \in Procs, DelIdx(p)
  PROVE  TypeOK' /\ PcInv'
<1>1. /\ d[p].idxoff # 0 /\ d[p].datoff # 0 /\ Blank \in Keys \cup {Blank}
      /\ KeyLen[d[p].idxbuf] \in Nat /\ d[p].freeptr \in Ptr
  BY ConstAssumption DEF DelIdx, At, PcInv, PcOK, NeedsRec, DelLabels, KeyLabels, ScanLabels,
         Labels, TypeOK, DbType
<1>2. idx' \in Seq(IdxType) /\ Len(idx') = Len(idx) /\ pos' \in [Procs -> PosType]
  BY <1>1, OverwriteIdxTyped DEF DelIdx
<1>3. d[p] \in DbType /\ [d[p] EXCEPT !.ptrval = d[p].freeptr] \in DbType
  BY <1>1, ZenonT(30) DEF TypeOK, DbType
<1>4. pc' \in [Procs -> Labels] /\ d' \in [Procs -> DbType]
  BY <1>3 DEF TypeOK, DelIdx, Goto, Labels, SetDb
<1>5. TypeOK'
  BY <1>2, <1>4, SameTypes DEF TypeOK, DelIdx, locks
<1>6. PcOK(p)'
  <2>1. d'[p] = [d[p] EXCEPT !.ptrval = d[p].freeptr]
    BY DEF DelIdx, TypeOK, SetDb
  <2> QED BY <1>3, <2>1 DEF DelIdx, At, Goto, TypeOK, PcInv, PcOK, KeyLabels, StoreLabels,
         ScanLabels, DelLabels, NeedsRec, Labels, DbType
<1> QED BY <1>5, <1>6, PcInvStep DEF DelIdx, TypeOK, Goto, SetDb

LEMMA FreeNextOK ==
  ASSUME TypeOK, PcInv, NEW p \in Procs, FreeNext(p)
  PROVE  TypeOK' /\ PcInv'
<1> DEFINE o == d[p].offset
<1>1. /\ arg[p].key \in Keys /\ arg[p].op = "store" /\ arg[p].val \in Vals
      /\ o \in Ptr /\ o # 0
  BY DEF PcInv, PcOK, FreeNext, At, KeyLabels, StoreLabels, Labels, ScanLabels, TypeOK, DbType
<1>2. o \in RecOff /\ o \in PtrLoc /\ o + 1 \in ScanType
  BY <1>1, OffsetFacts
<1>3. Rec(o) \in IdxType /\ AfterReadidx(p, o) \in DbType
  BY <1>2, RecTyped, ReadidxTyped
<1>4. [AfterReadidx(p, o) EXCEPT !.saveoff = o, !.offset = Rec(o).ptr] \in DbType
  BY <1>2, <1>3 DEF DbType, IdxType
<1>5. d' \in [Procs -> DbType]
  BY <1>3, <1>4 DEF TypeOK, FreeNext, SetDb
<1>6. pc' \in [Procs -> Labels]
  BY DEF TypeOK, FreeNext, Goto, Labels
<1>7. pos' \in [Procs -> PosType]
  BY <1>2 DEF FreeNext, ReadidxPos, TypeOK, PosType
<1>8. TypeOK'
  BY <1>5, <1>6, <1>7, SameTypes DEF TypeOK, FreeNext, files, locks
<1>9. PcOK(p)'
  <2>1. arg'[p] = arg[p]
    BY DEF FreeNext
  <2>2. CASE Fits(arg[p], Rec(o))
    <3>1. d'[p] = AfterReadidx(p, o) /\ pc'[p] = "ff_unlink"
      BY <2>2 DEF FreeNext, TypeOK, Goto, SetDb
    <3>2. d'[p].idxoff # 0 /\ d'[p].datoff # 0
      BY <3>1, <1>2, ReadidxTyped
    <3> QED BY <2>1, <3>1, <3>2, <1>1 DEF PcOK, KeyLabels, Labels, ScanLabels,
           StoreLabels, NeedsRec, DelLabels
  <2>3. CASE ~Fits(arg[p], Rec(o))
    <3>1. d'[p] = [AfterReadidx(p, o) EXCEPT !.saveoff = o, !.offset = Rec(o).ptr]
      BY <2>3 DEF FreeNext, TypeOK, SetDb
    <3>2. d'[p].offset = Rec(o).ptr
      BY <3>1, <1>3 DEF DbType
    <3>3. /\ pc'[p] \in {"ff_unlock", "ff_next"}
          /\ pc'[p] = "ff_next" <=> Rec(o).ptr # 0
      BY <2>3 DEF FreeNext, Goto, TypeOK
    <3> QED BY <2>1, <3>2, <3>3, <1>1 DEF PcOK, KeyLabels, Labels, ScanLabels,
           StoreLabels, NeedsRec, DelLabels
  <2> QED BY <2>2, <2>3
<1> QED BY <1>8, <1>9, PcInvStep DEF FreeNext, TypeOK, Goto, SetDb

LEMMA AppDatOK ==
  ASSUME TypeOK, PcInv, NEW p \in Procs, AppDat(p)
  PROVE  TypeOK' /\ PcInv'
<1>1. arg[p].val \in Vals /\ DatLen[arg[p].val] \in Nat
  BY ConstAssumption DEF AppDat, At, PcInv, PcOK, StoreLabels
<1>2. [val |-> arg[p].val, len |-> DatLen[arg[p].val]] \in DatType
  BY <1>1 DEF DatType
<1>3. dat' \in Seq(DatType) /\ Len(dat') = Len(dat) + 1
  BY <1>2, AppendProperties DEF AppDat, TypeOK
<1>4. /\ Ptr \subseteq Ptr' /\ IdxType \subseteq IdxType' /\ DbType \subseteq DbType'
      /\ PosType \subseteq PosType' /\ ScanType \subseteq ScanType'
  <2>1. idx' = idx
    BY DEF AppDat
  <2> QED BY <1>3, <2>1, LenNat, GrowTypes
<1>5. idx' \in Seq(IdxType') /\ tbl' \in [0 .. NHASH -> Ptr']
  BY <1>4, SeqMono DEF AppDat, TypeOK
<1> DEFINE r == [d[p] EXCEPT !.datoff = Len(dat) + 1, !.datlen = DatLen[arg[p].val]]
<1>6. d[p] \in DbType' /\ Len(dat) + 1 \in DatPos'
  BY <1>3, <1>4, LenNat DEF TypeOK, DatPos
<1>7. r \in DbType'
  BY <1>1, <1>6 DEF DbType
<1>8. d' \in [Procs -> DbType']
  BY <1>4, <1>7 DEF TypeOK, AppDat, SetDb
<1>9. pc' \in [Procs -> Labels]
  BY DEF TypeOK, AppDat, Goto, Labels
<1>10. TypeOK'
  <2>1. pos' \in [Procs -> PosType']
    BY <1>4 DEF TypeOK, AppDat
  <2> QED BY <1>3, <1>5, <1>8, <1>9, <2>1 DEF TypeOK, AppDat, locks
<1>11. PcOK(p)'
  <2>1. d'[p] = r
    BY DEF AppDat, TypeOK, SetDb
  <2>2. d'[p].datoff # 0
    BY <1>6, <2>1, LenNat DEF DbType
  <2> QED BY <1>1, <2>2 DEF AppDat, At, Goto, TypeOK, PcInv, PcOK, KeyLabels, StoreLabels,
         ScanLabels, DelLabels, NeedsRec, Labels
<1> QED BY <1>10, <1>11, PcInvStep DEF AppDat, TypeOK, Goto, SetDb

LEMMA AppIdxOK ==
  ASSUME TypeOK, PcInv, NEW p \in Procs, AppIdx(p)
  PROVE  TypeOK' /\ PcInv'
<1>1. /\ arg[p].key \in Keys /\ KeyLen[arg[p].key] \in Nat
      /\ d[p].head \in Ptr /\ d[p].datoff \in DatPos /\ d[p].datlen \in Nat
  BY ConstAssumption DEF AppIdx, At, PcInv, PcOK, KeyLabels, ScanLabels, Labels, TypeOK, DbType
<1> DEFINE e == [ptr |-> d[p].head, key |-> arg[p].key, klen |-> KeyLen[arg[p].key],
                 datoff |-> d[p].datoff, datlen |-> d[p].datlen]
<1>2. e \in IdxType
  BY <1>1 DEF IdxType
<1>3. idx' \in Seq(IdxType) /\ Len(idx') = Len(idx) + 1 /\ dat' = dat
  BY <1>2, AppendProperties DEF AppIdx, TypeOK
<1>4. /\ Ptr \subseteq Ptr' /\ IdxType \subseteq IdxType' /\ DbType \subseteq DbType'
      /\ PosType \subseteq PosType' /\ ScanType \subseteq ScanType'
  BY <1>3, LenNat, GrowTypes
<1>5. idx' \in Seq(IdxType') /\ tbl' \in [0 .. NHASH -> Ptr']
  BY <1>3, <1>4, SeqMono DEF AppIdx, TypeOK
<1> DEFINE r == [d[p] EXCEPT !.idxoff = FirstRec + Len(idx), !.ptrval = d[p].head]
<1>6. /\ d[p] \in DbType' /\ d[p].head \in Ptr'
      /\ FirstRec + Len(idx) \in RecOff' /\ FirstRec + Len(idx) # 0
      /\ FirstRec + Len(idx) + 1 \in PosType'
  <2>1. FirstRec + Len(idx) \in RecOff' /\ FirstRec + Len(idx) # 0
        /\ FirstRec + Len(idx) + 1 \in ScanType'
    BY <1>3, LenNat, ConstAssumption DEF RecOff, ScanType, FirstRec
  <2> QED BY <1>1, <1>4, <2>1 DEF TypeOK, PosType
<1>7. r \in DbType'
  BY <1>6 DEF DbType
<1>8. d' \in [Procs -> DbType']
  BY <1>4, <1>7 DEF TypeOK, AppIdx, SetDb
<1>9. pc' \in [Procs -> Labels]
  BY DEF TypeOK, AppIdx, Goto, Labels
<1>10. TypeOK'
  <2>1. pos' \in [Procs -> PosType']
    BY <1>4, <1>6 DEF TypeOK, AppIdx
  <2> QED BY <1>3, <1>5, <1>8, <1>9, <2>1 DEF TypeOK, AppIdx, locks
<1>11. PcOK(p)'
  <2>1. d'[p] = r
    BY DEF AppIdx, TypeOK, SetDb
  <2>2. d'[p].idxoff # 0
    BY <1>6, <2>1 DEF DbType
  <2> QED BY <2>2 DEF AppIdx, At, Goto, TypeOK, PcInv, PcOK, KeyLabels, StoreLabels,
         ScanLabels, DelLabels, NeedsRec, Labels
<1> QED BY <1>10, <1>11, PcInvStep DEF AppIdx, TypeOK, Goto, SetDb

LEMMA NextIdxOK ==
  ASSUME TypeOK, PcInv, NEW p \in Procs, NextIdx(p)
  PROVE  TypeOK' /\ PcInv'
<1> DEFINE o == pos[p]
<1>1. pc' \in [Procs -> Labels]
  BY DEF TypeOK, NextIdx, Goto, Labels
<1>2. pc[p] = "next_idx" /\ arg'[p] = arg[p] /\ (arg[p].op = "store" => arg[p].val \in Vals)
  BY DEF NextIdx, At, PcInv, PcOK
<1>3. CASE o \notin RecOff
  <2>1. d' = d /\ pos' = pos /\ pc'[p] = "next_unlock"
    BY <1>3 DEF NextIdx, Goto, TypeOK
  <2>2. TypeOK'
    BY <1>1, <2>1, SameTypes DEF TypeOK, NextIdx, files, locks
  <2>3. PcOK(p)'
    BY <1>2, <2>1 DEF PcOK, KeyLabels, StoreLabels, ScanLabels, DelLabels, NeedsRec, Labels
  <2> QED BY <2>1, <2>2, <2>3, PcInvStep DEF NextIdx, TypeOK, Goto
<1>4. CASE o \in RecOff
  <2>1. AfterReadidx(p, o) \in DbType /\ o + 1 \in ScanType
    BY <1>4, ReadidxTyped, OffsetFacts
  <2>2. d' \in [Procs -> DbType] /\ d'[p] = AfterReadidx(p, o)
    BY <1>4, <2>1 DEF NextIdx, SetDb, TypeOK
  <2>3. pos' \in [Procs -> PosType]
    BY <1>4, <2>1 DEF NextIdx, ReadidxPos, TypeOK, PosType
  <2>4. TypeOK'
    BY <1>1, <2>2, <2>3, SameTypes DEF TypeOK, NextIdx, files, locks
  <2>5. d'[p].idxoff # 0 /\ d'[p].datoff # 0
    BY <1>4, <2>2, ReadidxTyped
  <2>6. pc'[p] \in {"next_idx", "next_dat"}
    BY <1>2, <1>4 DEF NextIdx, Goto, TypeOK
  <2>7. PcOK(p)'
    BY <1>2, <2>5, <2>6 DEF PcOK, KeyLabels, StoreLabels, ScanLabels, DelLabels, NeedsRec, Labels
  <2> QED BY <2>4, <2>7, PcInvStep DEF NextIdx, TypeOK, Goto, SetDb
<1> QED BY <1>3, <1>4

(* A call begins.                                                          *)
LEMMA CallOK ==
  ASSUME TypeOK, PcInv, NEW p \in Procs, NEW a \in ArgType, NEW label \in {"find_lock", "next_lock"},
         label = "find_lock" => a.op \in {"fetch", "store", "delete"} /\ a.key \in Keys,
         a.op = "store" => a.val \in Vals,
         Call(p, a, label)
  PROVE  TypeOK' /\ PcInv'
<1>1. pc' \in [Procs -> Labels] /\ arg' \in [Procs -> ArgType] /\ left' \in [Procs -> Nat]
  BY DEF TypeOK, Call, Goto, Labels
<1>2. TypeOK'
  BY <1>1, SameTypes DEF TypeOK, Call, files, locks
<1>3. PcOK(p)'
  BY DEF Call, Goto, TypeOK, PcOK, KeyLabels, StoreLabels, ScanLabels, DelLabels, NeedsRec, Labels
<1> QED BY <1>2, <1>3, PcInvStep DEF Call, TypeOK, Goto

LEMMA CallsOK ==
  ASSUME TypeOK, PcInv, NEW p \in Procs, Calls(p)
  PROVE  TypeOK' /\ PcInv'
<1>1. ASSUME NEW k \in Keys, db_fetch(p, k) PROVE TypeOK' /\ PcInv'
  <2>1. [op |-> "fetch", key |-> k, val |-> NULL, flag |-> {}] \in ArgType
    BY DEF ArgType
  <2> QED BY <1>1, <2>1, CallOK DEF db_fetch
<1>2. ASSUME NEW k \in Keys, db_delete(p, k) PROVE TypeOK' /\ PcInv'
  <2>1. [op |-> "delete", key |-> k, val |-> NULL, flag |-> {}] \in ArgType
    BY DEF ArgType
  <2> QED BY <1>2, <2>1, CallOK DEF db_delete
<1>3. ASSUME NEW k \in Keys, NEW f \in Flags[p], NEW v \in Data[k], db_store(p, k, v, f)
      PROVE  TypeOK' /\ PcInv'
  <2>1. v \in Vals /\ f \in SUBSET {"INSERT", "REPLACE"}
    BY ConstAssumption
  <2>2. [op |-> "store", key |-> k, val |-> v, flag |-> f] \in ArgType
    BY <2>1 DEF ArgType
  <2> QED BY <1>3, <2>1, <2>2, CallOK DEF db_store
<1>4. ASSUME db_nextrec(p) PROVE TypeOK' /\ PcInv'
  <2>1. [op |-> "nextrec", key |-> NULL, val |-> NULL, flag |-> {}] \in ArgType
    BY DEF ArgType
  <2> QED BY <1>4, <2>1, CallOK DEF db_nextrec
<1>5. ASSUME db_rewind(p) PROVE TypeOK' /\ PcInv'
  <2>1. FirstRec \in ScanType /\ FirstRec \in PosType
    BY ConstAssumption, LenNat DEF ScanType, PosType, FirstRec
  <2>2. /\ left' \in [Procs -> Nat] /\ pos' \in [Procs -> PosType]
    BY <1>5, <2>1 DEF db_rewind, TypeOK
  <2>3. TypeOK'
    BY <1>5, <2>2, SameTypes DEF TypeOK, db_rewind, files, locks
  <2>4. PcOK(p)'
    BY <1>5 DEF db_rewind, PcInv, PcOK
  <2> QED BY <1>5, <2>3, <2>4, PcInvStep DEF db_rewind
<1> QED BY <1>1, <1>2, <1>3, <1>4, <1>5 DEF Calls

(* A call ends, by returning or with its process.                          *)
LEMMA EndOK ==
  ASSUME TypeOK, PcInv, NEW p \in Procs, NEW label \in {"idle", "dead"},
         Goto(p, label), arg' = [arg EXCEPT ![p] = NoArg], SetDb(p, DbNull),
         rc' = [rc EXCEPT ![p] = NULL],
         rd' \in [Procs -> SUBSET Region], wr' \in [Procs -> SUBSET Region],
         map' \in [Keys -> Vals \cup {NULL}],
         UNCHANGED <<files, pos, left>>
  PROVE  TypeOK' /\ PcInv'
<1>1. NoArg \in ArgType
  BY DEF NoArg, ArgType
<1>2. DbNull \in DbType
  BY OffsetFacts, ConstAssumption DEF DbNull, DbType
<1>3. /\ pc' \in [Procs -> Labels] /\ arg' \in [Procs -> ArgType]
      /\ d' \in [Procs -> DbType] /\ rc' \in [Procs -> RcType]
  BY <1>1, <1>2 DEF TypeOK, Goto, SetDb, Labels, RcType
<1>4. TypeOK'
  BY <1>3, SameTypes DEF TypeOK, files
<1>5. PcOK(p)'
  BY DEF Goto, TypeOK, NoArg, PcOK, KeyLabels, StoreLabels, ScanLabels, DelLabels,
         NeedsRec, Labels
<1> QED BY <1>4, <1>5, PcInvStep DEF TypeOK, Goto, SetDb

LEMMA DiesOK ==
  ASSUME TypeOK, PcInv, NEW p \in Procs, Dies(p), map' \in [Keys -> Vals \cup {NULL}]
  PROVE  TypeOK' /\ PcInv'
<1>1. rd' \in [Procs -> SUBSET Region] /\ wr' \in [Procs -> SUBSET Region]
  BY DEF Dies, TypeOK
<1> QED BY <1>1, EndOK DEF Dies, Goto

LEMMA ReturnOK ==
  ASSUME TypeOK, PcInv, NEW p \in Procs, Unlock(p) \/ NextUnlock(p)
  PROVE  TypeOK' /\ PcInv'
<1>1. rd' \in [Procs -> SUBSET Region] /\ wr' \in [Procs -> SUBSET Region]
  <2>1. d[p].chainoff \in Region
    BY Regions DEF TypeOK, DbType
  <2> QED BY <2>1, LocksTyped, Regions DEF Unlock, NextUnlock
<1>2. CASE Unlock(p)
  BY <1>1, <1>2, EndOK DEF Unlock, TypeOK
<1>3. CASE NextUnlock(p)
  BY <1>1, <1>3, EndOK DEF NextUnlock, TypeOK
<1> QED BY <1>2, <1>3

LEMMA FailOK ==
  ASSUME TypeOK, PcInv, NEW p \in Procs, LinkFails(p) \/ NextIdxFails(p) \/ Killed(p)
  PROVE  TypeOK' /\ PcInv'
<1>1. map' \in [Keys -> Vals \cup {NULL}]
  BY DEF TypeOK, LinkFails, NextIdxFails, Killed
<1> QED BY <1>1, DiesOK DEF LinkFails, NextIdxFails, Killed

(***************************************************************************)
(* No pointer dangles and no read falls short, for any number of           *)
(* processes, whatever calls they make, overlapping in any way (the        *)
(* unlocked free list included), killed at any point.                      *)
(***************************************************************************)
LEMMA NextOK ==
  ASSUME TypeOK, PcInv, [Next]_vars
  PROVE  TypeOK' /\ PcInv'
<1>1. ASSUME NEW p \in Procs, Step(p) PROVE TypeOK' /\ PcInv'
  BY <1>1, FindLockOK, FindHeadOK, FindNextOK, FetchDatOK, InsHeadOK, FreeHeadOK,
     FreeNextOK, FreeUnlinkOK, FreeUnlockOK, ReuseDatOK, ReuseIdxOK, AppDatLockOK,
     AppDatOK, AppDatUnlockOK, AppIdxLockOK, AppIdxOK, AppIdxUnlockOK, LinkOK,
     RepDatOK, RepHeadOK, DelLockOK, DelDatOK, DelFreeOK, DelIdxOK, DelHeadOK,
     DelUnlinkOK, DelUnlockOK, NextLockOK, NextIdxOK, NextDatOK, ReturnOK, FailOK
  DEF Step
<1>2. CASE UNCHANGED vars
  <2>1. TypeOK'
    BY <1>2, SameTypes DEF TypeOK, vars
  <2>2. PcInv'
    BY <1>2 DEF PcInv, PcOK, vars
  <2> QED BY <2>1, <2>2
<1> QED BY <1>1, <1>2, CallsOK, FailOK DEF Next, Done

THEOREM TypeCorrect == Spec => []TypeOK
<1>1. TypeOK /\ PcInv /\ [Next]_vars => (TypeOK /\ PcInv)'
  BY NextOK
<1> QED BY InitOK, <1>1, PTL DEF Spec

-----------------------------------------------------------------------------
(* Chain locks, the free list lock and the append locks are different      *)
(* regions.                                                                *)
LEMMA ChainRegion ==
  ASSUME NEW k \in Keys
  PROVE  ChainOff(k) \notin {FREE_OFF, IdxTail, DatFile}
  BY ConstAssumption DEF ChainOff, HASH_OFF, FREE_OFF, IdxTail, DatFile, FirstRec

LEMMA RegionsDiffer == FREE_OFF # IdxTail /\ FREE_OFF # DatFile /\ IdxTail # DatFile
  BY ConstAssumption DEF FREE_OFF, IdxTail, DatFile, FirstRec

(* No step grants conflicting locks.                                       *)
LEMMA CompatibleStep ==
  ASSUME TypeOK, Compatible, NEW p \in Procs,
         \/ \E r \in Region : readw_lock(p, r) \/ writew_lock(p, r) \/ un_lock(p, r)
         \/ rd' = [rd EXCEPT ![p] = {}] /\ wr' = [wr EXCEPT ![p] = {}]
         \/ UNCHANGED locks
  PROVE  Compatible'
<1>1. ASSUME NEW r \in Region, readw_lock(p, r) PROVE Compatible'
  BY <1>1 DEF Compatible, readw_lock, TypeOK
<1>2. ASSUME NEW r \in Region, writew_lock(p, r) PROVE Compatible'
  BY <1>2 DEF Compatible, writew_lock, TypeOK
<1>3. ASSUME NEW r \in Region, un_lock(p, r) PROVE Compatible'
  BY <1>3 DEF Compatible, un_lock, TypeOK
<1>4. CASE rd' = [rd EXCEPT ![p] = {}] /\ wr' = [wr EXCEPT ![p] = {}]
  BY <1>4 DEF Compatible, TypeOK
<1>5. CASE UNCHANGED locks
  BY <1>5 DEF Compatible, locks
<1> QED BY <1>1, <1>2, <1>3, <1>4, <1>5

(* A step of p leaves what the other processes hold alone.                 *)
LEMMA HeldStep ==
  ASSUME LockInv, NEW p \in Procs, Compatible', HeldOK(p)',
         \A q \in Procs \ {p} : /\ pc'[q] = pc[q] /\ arg'[q] = arg[q] /\ d'[q] = d[q]
                                /\ rd'[q] = rd[q] /\ wr'[q] = wr[q]
  PROVE  LockInv'
<1>1. ASSUME NEW q \in Procs, q # p PROVE HeldOK(q)'
  <2>1. /\ HeldOK(q) /\ pc'[q] = pc[q] /\ arg'[q] = arg[q] /\ d'[q] = d[q]
        /\ rd'[q] = rd[q] /\ wr'[q] = wr[q]
    BY <1>1 DEF LockInv
  <2> QED BY <2>1 DEF HeldOK, IsWrite
<1> QED BY <1>1 DEF LockInv

(***************************************************************************)
(* The steps, one lemma per action.                                        *)
(***************************************************************************)

LEMMA FetchDatLocks ==
  ASSUME TypeOK, PcInv, LockInv, NEW p \in Procs, FetchDat(p)
  PROVE  LockInv'
<1>1. HeldOK(p)'
  BY DEF FetchDat, At, Goto, TypeOK, LockInv, HeldOK, locks, ChainLabels, FreeLabels, ScanHeld, DatLabels, TailLabels,
         KeyLabels, DelLabels, ScanLabels, Labels
<1> QED BY <1>1, CompatibleStep, HeldStep DEF FetchDat, TypeOK, LockInv, Goto, locks

LEMMA FreeUnlinkLocks ==
  ASSUME TypeOK, PcInv, LockInv, NEW p \in Procs, FreeUnlink(p)
  PROVE  LockInv'
<1>1. HeldOK(p)'
  BY DEF FreeUnlink, At, Goto, TypeOK, LockInv, HeldOK, locks, ChainLabels, FreeLabels, ScanHeld, DatLabels, TailLabels,
         KeyLabels, DelLabels, ScanLabels, Labels
<1> QED BY <1>1, CompatibleStep, HeldStep DEF FreeUnlink, TypeOK, LockInv, Goto, locks

LEMMA ReuseDatLocks ==
  ASSUME TypeOK, PcInv, LockInv, NEW p \in Procs, ReuseDat(p)
  PROVE  LockInv'
<1>1. HeldOK(p)'
  BY DEF ReuseDat, At, Goto, TypeOK, LockInv, HeldOK, locks, ChainLabels, FreeLabels, ScanHeld, DatLabels, TailLabels,
         KeyLabels, DelLabels, ScanLabels, Labels
<1> QED BY <1>1, CompatibleStep, HeldStep DEF ReuseDat, TypeOK, LockInv, Goto, locks

LEMMA LinkLocks ==
  ASSUME TypeOK, PcInv, LockInv, NEW p \in Procs, Link(p)
  PROVE  LockInv'
<1>1. HeldOK(p)'
  BY DEF Link, At, Goto, TypeOK, LockInv, HeldOK, locks, ChainLabels, FreeLabels, ScanHeld, DatLabels, TailLabels,
         KeyLabels, DelLabels, ScanLabels, Labels
<1> QED BY <1>1, CompatibleStep, HeldStep DEF Link, TypeOK, LockInv, Goto, locks

LEMMA RepDatLocks ==
  ASSUME TypeOK, PcInv, LockInv, NEW p \in Procs, RepDat(p)
  PROVE  LockInv'
<1>1. HeldOK(p)'
  BY DEF RepDat, At, Goto, TypeOK, LockInv, HeldOK, locks, ChainLabels, FreeLabels, ScanHeld, DatLabels, TailLabels,
         KeyLabels, DelLabels, ScanLabels, Labels
<1> QED BY <1>1, CompatibleStep, HeldStep DEF RepDat, TypeOK, LockInv, Goto, locks

LEMMA DelDatLocks ==
  ASSUME TypeOK, PcInv, LockInv, NEW p \in Procs, DelDat(p)
  PROVE  LockInv'
<1>1. HeldOK(p)'
  BY DEF DelDat, At, Goto, TypeOK, LockInv, HeldOK, locks, ChainLabels, FreeLabels, ScanHeld, DatLabels, TailLabels,
         KeyLabels, DelLabels, ScanLabels, Labels
<1> QED BY <1>1, CompatibleStep, HeldStep DEF DelDat, TypeOK, LockInv, Goto, locks

LEMMA DelHeadLocks ==
  ASSUME TypeOK, PcInv, LockInv, NEW p \in Procs, DelHead(p)
  PROVE  LockInv'
<1>1. HeldOK(p)'
  BY DEF DelHead, At, Goto, TypeOK, LockInv, HeldOK, locks, ChainLabels, FreeLabels, ScanHeld, DatLabels, TailLabels,
         KeyLabels, DelLabels, ScanLabels, Labels
<1> QED BY <1>1, CompatibleStep, HeldStep DEF DelHead, TypeOK, LockInv, Goto, locks

LEMMA DelUnlinkLocks ==
  ASSUME TypeOK, PcInv, LockInv, NEW p \in Procs, DelUnlink(p)
  PROVE  LockInv'
<1>1. HeldOK(p)'
  BY DEF DelUnlink, At, Goto, TypeOK, LockInv, HeldOK, locks, ChainLabels, FreeLabels, ScanHeld, DatLabels, TailLabels,
         KeyLabels, DelLabels, ScanLabels, Labels
<1> QED BY <1>1, CompatibleStep, HeldStep DEF DelUnlink, TypeOK, LockInv, Goto, locks

LEMMA NextDatLocks ==
  ASSUME TypeOK, PcInv, LockInv, NEW p \in Procs, NextDat(p)
  PROVE  LockInv'
<1>1. HeldOK(p)'
  BY DEF NextDat, At, Goto, TypeOK, LockInv, HeldOK, locks, ChainLabels, FreeLabels, ScanHeld, DatLabels, TailLabels,
         KeyLabels, DelLabels, ScanLabels, Labels
<1> QED BY <1>1, CompatibleStep, HeldStep DEF NextDat, TypeOK, LockInv, Goto, locks

LEMMA FindHeadLocks ==
  ASSUME TypeOK, PcInv, LockInv, NEW p \in Procs, FindHead(p)
  PROVE  LockInv'
<1>1. d[p] \in DbType /\ d'[p] = [d[p] EXCEPT !.offset = Field(d[p].ptroff)]
  BY DEF FindHead, SetDb, TypeOK
<1>2. d'[p].chainoff = d[p].chainoff
  BY <1>1 DEF DbType
<1>3. HeldOK(p)'
  BY <1>2, ZenonT(30) DEF FindHead, At, Goto, TypeOK, LockInv, HeldOK, locks, Miss, MissPc, MayInsert, ChainLabels, FreeLabels, ScanHeld, DatLabels, TailLabels,
         KeyLabels, DelLabels, ScanLabels, Labels
<1> QED BY <1>3, CompatibleStep, HeldStep DEF FindHead, TypeOK, LockInv, Goto, SetDb, locks, Miss, MissPc, MayInsert

LEMMA InsHeadLocks ==
  ASSUME TypeOK, PcInv, LockInv, NEW p \in Procs, InsHead(p)
  PROVE  LockInv'
<1>1. d[p] \in DbType /\ d'[p] = [d[p] EXCEPT !.head = Field(d[p].chainoff)]
  BY DEF InsHead, SetDb, TypeOK
<1>2. d'[p].chainoff = d[p].chainoff
  BY <1>1 DEF DbType
<1>3. HeldOK(p)'
  BY <1>2 DEF InsHead, At, Goto, TypeOK, LockInv, HeldOK, locks, ChainLabels, FreeLabels, ScanHeld, DatLabels, TailLabels,
         KeyLabels, DelLabels, ScanLabels, Labels
<1> QED BY <1>3, CompatibleStep, HeldStep DEF InsHead, TypeOK, LockInv, Goto, SetDb, locks

LEMMA FreeHeadLocks ==
  ASSUME TypeOK, PcInv, LockInv, NEW p \in Procs, FreeHead(p)
  PROVE  LockInv'
<1>1. d[p] \in DbType /\ d'[p] = [d[p] EXCEPT !.saveoff = FREE_OFF, !.offset = Field(FREE_OFF)]
  BY DEF FreeHead, SetDb, TypeOK
<1>2. d'[p].chainoff = d[p].chainoff
  BY <1>1 DEF DbType
<1>3. HeldOK(p)'
  BY <1>2 DEF FreeHead, At, Goto, TypeOK, LockInv, HeldOK, locks, ChainLabels, FreeLabels, ScanHeld, DatLabels, TailLabels,
         KeyLabels, DelLabels, ScanLabels, Labels
<1> QED BY <1>3, CompatibleStep, HeldStep DEF FreeHead, TypeOK, LockInv, Goto, SetDb, locks

LEMMA ReuseIdxLocks ==
  ASSUME TypeOK, PcInv, LockInv, NEW p \in Procs, ReuseIdx(p)
  PROVE  LockInv'
<1>1. d[p] \in DbType /\ d'[p] = [d[p] EXCEPT !.ptrval = d[p].head]
  BY DEF ReuseIdx, SetDb, TypeOK
<1>2. d'[p].chainoff = d[p].chainoff
  BY <1>1 DEF DbType
<1>3. HeldOK(p)'
  BY <1>2 DEF ReuseIdx, At, Goto, TypeOK, LockInv, HeldOK, locks, ChainLabels, FreeLabels, ScanHeld, DatLabels, TailLabels,
         KeyLabels, DelLabels, ScanLabels, Labels
<1> QED BY <1>3, CompatibleStep, HeldStep DEF ReuseIdx, TypeOK, LockInv, Goto, SetDb, locks

LEMMA AppDatLocks ==
  ASSUME TypeOK, PcInv, LockInv, NEW p \in Procs, AppDat(p)
  PROVE  LockInv'
<1>1. d[p] \in DbType /\ d'[p] = [d[p] EXCEPT !.datoff = Len(dat) + 1, !.datlen = DatLen[arg[p].val]]
  BY DEF AppDat, SetDb, TypeOK
<1>2. d'[p].chainoff = d[p].chainoff
  BY <1>1 DEF DbType
<1>3. HeldOK(p)'
  BY <1>2 DEF AppDat, At, Goto, TypeOK, LockInv, HeldOK, locks, ChainLabels, FreeLabels, ScanHeld, DatLabels, TailLabels,
         KeyLabels, DelLabels, ScanLabels, Labels
<1> QED BY <1>3, CompatibleStep, HeldStep DEF AppDat, TypeOK, LockInv, Goto, SetDb, locks

LEMMA AppIdxLocks ==
  ASSUME TypeOK, PcInv, LockInv, NEW p \in Procs, AppIdx(p)
  PROVE  LockInv'
<1>1. d[p] \in DbType /\ d'[p] = [d[p] EXCEPT !.idxoff = FirstRec + Len(idx), !.ptrval = d[p].head]
  BY DEF AppIdx, SetDb, TypeOK
<1>2. d'[p].chainoff = d[p].chainoff
  BY <1>1 DEF DbType
<1>3. HeldOK(p)'
  BY <1>2 DEF AppIdx, At, Goto, TypeOK, LockInv, HeldOK, locks, ChainLabels, FreeLabels, ScanHeld, DatLabels, TailLabels,
         KeyLabels, DelLabels, ScanLabels, Labels
<1> QED BY <1>3, CompatibleStep, HeldStep DEF AppIdx, TypeOK, LockInv, Goto, SetDb, locks

LEMMA RepHeadLocks ==
  ASSUME TypeOK, PcInv, LockInv, NEW p \in Procs, RepHead(p)
  PROVE  LockInv'
<1>1. d[p] \in DbType /\ d'[p] = [d[p] EXCEPT !.head = Field(d[p].chainoff)]
  BY DEF RepHead, SetDb, TypeOK
<1>2. d'[p].chainoff = d[p].chainoff
  BY <1>1 DEF DbType
<1>3. HeldOK(p)'
  BY <1>2 DEF RepHead, At, Goto, TypeOK, LockInv, HeldOK, locks, ChainLabels, FreeLabels, ScanHeld, DatLabels, TailLabels,
         KeyLabels, DelLabels, ScanLabels, Labels
<1> QED BY <1>3, CompatibleStep, HeldStep DEF RepHead, TypeOK, LockInv, Goto, SetDb, locks

LEMMA DelFreeLocks ==
  ASSUME TypeOK, PcInv, LockInv, NEW p \in Procs, DelFree(p)
  PROVE  LockInv'
<1>1. d[p] \in DbType /\ d'[p] = [d[p] EXCEPT !.freeptr = Field(FREE_OFF), !.saveptr = d[p].ptrval]
  BY DEF DelFree, SetDb, TypeOK
<1>2. d'[p].chainoff = d[p].chainoff
  BY <1>1 DEF DbType
<1>3. HeldOK(p)'
  BY <1>2 DEF DelFree, At, Goto, TypeOK, LockInv, HeldOK, locks, ChainLabels, FreeLabels, ScanHeld, DatLabels, TailLabels,
         KeyLabels, DelLabels, ScanLabels, Labels
<1> QED BY <1>3, CompatibleStep, HeldStep DEF DelFree, TypeOK, LockInv, Goto, SetDb, locks

LEMMA DelIdxLocks ==
  ASSUME TypeOK, PcInv, LockInv, NEW p \in Procs, DelIdx(p)
  PROVE  LockInv'
<1>1. d[p] \in DbType /\ d'[p] = [d[p] EXCEPT !.ptrval = d[p].freeptr]
  BY DEF DelIdx, SetDb, TypeOK
<1>2. d'[p].chainoff = d[p].chainoff
  BY <1>1 DEF DbType
<1>3. HeldOK(p)'
  BY <1>2 DEF DelIdx, At, Goto, TypeOK, LockInv, HeldOK, locks, ChainLabels, FreeLabels, ScanHeld, DatLabels, TailLabels,
         KeyLabels, DelLabels, ScanLabels, Labels
<1> QED BY <1>3, CompatibleStep, HeldStep DEF DelIdx, TypeOK, LockInv, Goto, SetDb, locks

LEMMA FindNextLocks ==
  ASSUME TypeOK, PcInv, LockInv, NEW p \in Procs, FindNext(p)
  PROVE  LockInv'
<1> DEFINE o == d[p].offset
<1>1. o \in Ptr /\ o # 0
  BY DEF PcInv, PcOK, FindNext, At, TypeOK, DbType
<1>2. AfterReadidx(p, o) \in DbType /\ AfterReadidx(p, o).chainoff = d[p].chainoff
  BY <1>1, OffsetFacts, ReadidxTyped
<1>3. d'[p] \in {AfterReadidx(p, o),
                [AfterReadidx(p, o) EXCEPT !.ptroff = o, !.offset = Rec(o).ptr]}
  BY DEF FindNext, SetDb, TypeOK
<1>4. d'[p].chainoff = d[p].chainoff
  BY <1>2, <1>3 DEF DbType
<1>5. pc[p] = "find_next" /\ arg' = arg /\ UNCHANGED locks
  BY DEF FindNext, At
<1>6. pc'[p] \in {"find_next", "ins_head", "unlock", "fetch_dat", "del_lock", "rep_dat"}
  <2>1. arg[p].op \in {"fetch", "store", "delete"}
    BY <1>5 DEF PcInv, PcOK, KeyLabels, ScanLabels, Labels
  <2> QED BY <1>5, <2>1 DEF FindNext, Goto, TypeOK, Hit, HitPc, Miss, MissPc, MayInsert
<1>7. HeldOK(p)'
  BY <1>4, <1>5, <1>6 DEF LockInv, HeldOK, IsWrite, locks, ChainLabels, FreeLabels, ScanHeld, DatLabels, TailLabels,
         KeyLabels, DelLabels, ScanLabels, Labels
<1> QED BY <1>7, CompatibleStep, HeldStep DEF FindNext, TypeOK, LockInv, Goto, SetDb, locks, Hit, Miss

LEMMA FreeNextLocks ==
  ASSUME TypeOK, PcInv, LockInv, NEW p \in Procs, FreeNext(p)
  PROVE  LockInv'
<1> DEFINE o == d[p].offset
<1>1. o \in Ptr /\ o # 0
  BY DEF PcInv, PcOK, FreeNext, At, TypeOK, DbType
<1>2. AfterReadidx(p, o) \in DbType /\ AfterReadidx(p, o).chainoff = d[p].chainoff
  BY <1>1, OffsetFacts, ReadidxTyped
<1>3. d'[p] \in {AfterReadidx(p, o),
                [AfterReadidx(p, o) EXCEPT !.saveoff = o, !.offset = Rec(o).ptr]}
  BY DEF FreeNext, SetDb, TypeOK
<1>4. d'[p].chainoff = d[p].chainoff
  BY <1>2, <1>3 DEF DbType
<1>5. pc[p] = "ff_next" /\ arg' = arg /\ UNCHANGED locks
  BY DEF FreeNext, At
<1>6. pc'[p] \in {"ff_next", "ff_unlink", "ff_unlock"}
  <2>1. arg[p].op \in {"fetch", "store", "delete"}
    BY <1>5 DEF PcInv, PcOK, KeyLabels, ScanLabels, Labels
  <2> QED BY <1>5, <2>1 DEF FreeNext, Goto, TypeOK, Fits
<1>7. HeldOK(p)'
  BY <1>4, <1>5, <1>6 DEF LockInv, HeldOK, IsWrite, locks, ChainLabels, FreeLabels, ScanHeld, DatLabels, TailLabels,
         KeyLabels, DelLabels, ScanLabels, Labels
<1> QED BY <1>7, CompatibleStep, HeldStep DEF FreeNext, TypeOK, LockInv, Goto, SetDb, locks, Hit, Miss

LEMMA FreeUnlockLocks ==
  ASSUME TypeOK, PcInv, LockInv, NEW p \in Procs, FreeUnlock(p)
  PROVE  LockInv'
<1>1. Compatible'
  BY CompatibleStep, Regions DEF FreeUnlock, LockInv
<1>2. ChainOff(arg[p].key) \notin {FREE_OFF, IdxTail, DatFile}
  BY ChainRegion DEF FreeUnlock, At, PcInv, PcOK, KeyLabels, ScanLabels, Labels
<1>3. HeldOK(p)'
  BY <1>2, RegionsDiffer, ZenonT(30) DEF FreeUnlock, At, Goto, un_lock, TypeOK, LockInv, HeldOK, IsWrite,
         ChainLabels, FreeLabels, ScanHeld, DatLabels, TailLabels,
         KeyLabels, DelLabels, ScanLabels, Labels
<1> QED BY <1>1, <1>3, HeldStep DEF FreeUnlock, un_lock, TypeOK, Goto

LEMMA AppDatLockLocks ==
  ASSUME TypeOK, PcInv, LockInv, NEW p \in Procs, AppDatLock(p)
  PROVE  LockInv'
<1>1. Compatible'
  BY CompatibleStep, Regions DEF AppDatLock, LockInv
<1>2. ChainOff(arg[p].key) \notin {FREE_OFF, IdxTail, DatFile}
  BY ChainRegion DEF AppDatLock, At, PcInv, PcOK, KeyLabels, ScanLabels, Labels
<1>3. HeldOK(p)'
  BY <1>2, RegionsDiffer DEF AppDatLock, At, Goto, writew_lock, TypeOK, LockInv, HeldOK, IsWrite,
         ChainLabels, FreeLabels, ScanHeld, DatLabels, TailLabels,
         KeyLabels, DelLabels, ScanLabels, Labels
<1> QED BY <1>1, <1>3, HeldStep DEF AppDatLock, writew_lock, TypeOK, Goto

LEMMA AppDatUnlockLocks ==
  ASSUME TypeOK, PcInv, LockInv, NEW p \in Procs, AppDatUnlock(p)
  PROVE  LockInv'
<1>1. Compatible'
  BY CompatibleStep, Regions DEF AppDatUnlock, LockInv
<1>2. ChainOff(arg[p].key) \notin {FREE_OFF, IdxTail, DatFile}
  BY ChainRegion DEF AppDatUnlock, At, PcInv, PcOK, KeyLabels, ScanLabels, Labels
<1>3. HeldOK(p)'
  BY <1>2, RegionsDiffer DEF AppDatUnlock, At, Goto, un_lock, TypeOK, LockInv, HeldOK, IsWrite,
         ChainLabels, FreeLabels, ScanHeld, DatLabels, TailLabels,
         KeyLabels, DelLabels, ScanLabels, Labels
<1> QED BY <1>1, <1>3, HeldStep DEF AppDatUnlock, un_lock, TypeOK, Goto

LEMMA AppIdxLockLocks ==
  ASSUME TypeOK, PcInv, LockInv, NEW p \in Procs, AppIdxLock(p)
  PROVE  LockInv'
<1>1. Compatible'
  BY CompatibleStep, Regions DEF AppIdxLock, LockInv
<1>2. ChainOff(arg[p].key) \notin {FREE_OFF, IdxTail, DatFile}
  BY ChainRegion DEF AppIdxLock, At, PcInv, PcOK, KeyLabels, ScanLabels, Labels
<1>3. HeldOK(p)'
  BY <1>2, RegionsDiffer DEF AppIdxLock, At, Goto, writew_lock, TypeOK, LockInv, HeldOK, IsWrite,
         ChainLabels, FreeLabels, ScanHeld, DatLabels, TailLabels,
         KeyLabels, DelLabels, ScanLabels, Labels
<1> QED BY <1>1, <1>3, HeldStep DEF AppIdxLock, writew_lock, TypeOK, Goto

LEMMA AppIdxUnlockLocks ==
  ASSUME TypeOK, PcInv, LockInv, NEW p \in Procs, AppIdxUnlock(p)
  PROVE  LockInv'
<1>1. Compatible'
  BY CompatibleStep, Regions DEF AppIdxUnlock, LockInv
<1>2. ChainOff(arg[p].key) \notin {FREE_OFF, IdxTail, DatFile}
  BY ChainRegion DEF AppIdxUnlock, At, PcInv, PcOK, KeyLabels, ScanLabels, Labels
<1>3. HeldOK(p)'
  BY <1>2, RegionsDiffer DEF AppIdxUnlock, At, Goto, un_lock, TypeOK, LockInv, HeldOK, IsWrite,
         ChainLabels, FreeLabels, ScanHeld, DatLabels, TailLabels,
         KeyLabels, DelLabels, ScanLabels, Labels
<1> QED BY <1>1, <1>3, HeldStep DEF AppIdxUnlock, un_lock, TypeOK, Goto

LEMMA DelLockLocks ==
  ASSUME TypeOK, PcInv, LockInv, NEW p \in Procs, DelLock(p)
  PROVE  LockInv'
<1>1. Compatible'
  BY CompatibleStep, Regions DEF DelLock, LockInv
<1>2. ChainOff(arg[p].key) \notin {FREE_OFF, IdxTail, DatFile}
  BY ChainRegion DEF DelLock, At, PcInv, PcOK, KeyLabels, ScanLabels, Labels
<1>3. HeldOK(p)'
  BY <1>2, RegionsDiffer DEF DelLock, At, Goto, writew_lock, TypeOK, LockInv, HeldOK, IsWrite,
         ChainLabels, FreeLabels, ScanHeld, DatLabels, TailLabels,
         KeyLabels, DelLabels, ScanLabels, Labels
<1> QED BY <1>1, <1>3, HeldStep DEF DelLock, writew_lock, TypeOK, Goto

LEMMA DelUnlockLocks ==
  ASSUME TypeOK, PcInv, LockInv, NEW p \in Procs, DelUnlock(p)
  PROVE  LockInv'
<1>1. Compatible'
  BY CompatibleStep, Regions DEF DelUnlock, LockInv
<1>2. ChainOff(arg[p].key) \notin {FREE_OFF, IdxTail, DatFile}
  BY ChainRegion DEF DelUnlock, At, PcInv, PcOK, KeyLabels, ScanLabels, Labels
<1>3. HeldOK(p)'
  BY <1>2, RegionsDiffer DEF DelUnlock, At, Goto, un_lock, TypeOK, LockInv, HeldOK, IsWrite,
         ChainLabels, FreeLabels, ScanHeld, DatLabels, TailLabels,
         KeyLabels, DelLabels, ScanLabels, Labels
<1> QED BY <1>1, <1>3, HeldStep DEF DelUnlock, un_lock, TypeOK, Goto

LEMMA NextLockLocks ==
  ASSUME TypeOK, PcInv, LockInv, NEW p \in Procs, NextLock(p)
  PROVE  LockInv'
<1>1. Compatible'
  BY CompatibleStep, Regions DEF NextLock, LockInv
<1>3. HeldOK(p)'
  BY RegionsDiffer DEF NextLock, At, Goto, readw_lock, TypeOK, LockInv, HeldOK, IsWrite,
         ChainLabels, FreeLabels, ScanHeld, DatLabels, TailLabels,
         KeyLabels, DelLabels, ScanLabels, Labels
<1> QED BY <1>1, <1>3, HeldStep DEF NextLock, readw_lock, TypeOK, Goto

LEMMA FindLockLocks ==
  ASSUME TypeOK, PcInv, LockInv, NEW p \in Procs, FindLock(p)
  PROVE  LockInv'
<1>1. arg[p].key \in Keys /\ d[p] \in DbType
  BY DEF FindLock, At, PcInv, PcOK, TypeOK, KeyLabels, ScanLabels, Labels
<1> DEFINE c == ChainOff(arg[p].key)
<1>2. c \in Region
  BY <1>1, OffsetFacts, Regions
<1>3. Compatible'
  BY <1>2, CompatibleStep DEF FindLock, LockInv
<1>4. d'[p] = [d[p] EXCEPT !.chainoff = c, !.ptroff = c]
  BY DEF FindLock, SetDb, TypeOK
<1>5. d'[p].chainoff = c /\ arg'[p] = arg[p] /\ pc'[p] = "find_head"
  BY <1>1, <1>4 DEF DbType, FindLock, Goto, TypeOK
<1>6. c \in (IF IsWrite(arg[p]) THEN wr'[p] ELSE rd'[p])
  BY DEF FindLock, readw_lock, writew_lock, TypeOK
<1>7. HeldOK(p)'
  BY <1>5, <1>6 DEF HeldOK, IsWrite, ChainLabels, FreeLabels, ScanHeld, DatLabels, TailLabels,
         KeyLabels, DelLabels, ScanLabels, Labels
<1> QED BY <1>3, <1>7, HeldStep DEF FindLock, readw_lock, writew_lock, TypeOK, Goto, SetDb

LEMMA NextIdxLocks ==
  ASSUME TypeOK, PcInv, LockInv, NEW p \in Procs, NextIdx(p)
  PROVE  LockInv'
<1>1. HeldOK(p)'
  BY DEF NextIdx, At, Goto, TypeOK, LockInv, HeldOK, locks, ChainLabels, FreeLabels, ScanHeld, DatLabels, TailLabels,
         KeyLabels, DelLabels, ScanLabels, Labels
<1> QED BY <1>1, CompatibleStep, HeldStep DEF NextIdx, TypeOK, LockInv, Goto, SetDb, locks

LEMMA EndLocks ==
  ASSUME TypeOK, PcInv, LockInv, NEW p \in Procs,
         \/ Unlock(p) \/ NextUnlock(p) \/ LinkFails(p) \/ NextIdxFails(p) \/ Killed(p)
  PROVE  LockInv'
<1>1. Compatible'
  <2>1. d[p].chainoff \in Region
    BY Regions DEF TypeOK, DbType
  <2> QED BY <2>1, CompatibleStep, Regions
          DEF LockInv, Unlock, NextUnlock, LinkFails, NextIdxFails, Killed, Dies
<1>2. pc'[p] \in {"idle", "dead"}
  BY DEF TypeOK, Unlock, NextUnlock, LinkFails, NextIdxFails, Killed, Dies, Goto
<1>3. HeldOK(p)'
  BY <1>2 DEF HeldOK, ChainLabels, FreeLabels, ScanHeld, DatLabels, TailLabels,
         KeyLabels, DelLabels, ScanLabels, Labels
<1>4. \A q \in Procs \ {p} : /\ pc'[q] = pc[q] /\ arg'[q] = arg[q] /\ d'[q] = d[q]
                              /\ rd'[q] = rd[q] /\ wr'[q] = wr[q]
  BY DEF TypeOK, Unlock, NextUnlock, LinkFails, NextIdxFails, Killed, Dies, Goto, SetDb, un_lock
<1> QED BY <1>1, <1>3, <1>4, HeldStep

LEMMA CallLocks ==
  ASSUME TypeOK, LockInv, NEW p \in Procs, Calls(p)
  PROVE  LockInv'
<1>1. ASSUME NEW a, NEW label \in {"find_lock", "next_lock"}, Call(p, a, label)
      PROVE  LockInv'
  <2>1. HeldOK(p)'
    BY <1>1 DEF Call, Goto, TypeOK, HeldOK, ChainLabels, FreeLabels, ScanHeld, DatLabels, TailLabels,
         KeyLabels, DelLabels, ScanLabels, Labels
  <2> QED BY <1>1, <2>1, CompatibleStep, HeldStep DEF Call, TypeOK, LockInv, Goto, locks
<1>2. ASSUME db_rewind(p) PROVE LockInv'
  BY <1>2 DEF db_rewind, locks, LockInv, HeldOK, Compatible
<1> QED BY <1>1, <1>2 DEF Calls, db_fetch, db_delete, db_store, db_nextrec

LEMMA LocksNext ==
  ASSUME TypeOK, PcInv, LockInv, [Next]_vars
  PROVE  LockInv'
<1>1. ASSUME NEW p \in Procs, Step(p) PROVE LockInv'
  BY <1>1, FindLockLocks, FindHeadLocks, FindNextLocks, FetchDatLocks, InsHeadLocks,
     FreeHeadLocks, FreeNextLocks, FreeUnlinkLocks, FreeUnlockLocks, ReuseDatLocks,
     ReuseIdxLocks, AppDatLockLocks, AppDatLocks, AppDatUnlockLocks, AppIdxLockLocks,
     AppIdxLocks, AppIdxUnlockLocks, LinkLocks, RepDatLocks, RepHeadLocks, DelLockLocks,
     DelDatLocks, DelFreeLocks, DelIdxLocks, DelHeadLocks, DelUnlinkLocks,
     DelUnlockLocks, NextLockLocks, NextIdxLocks, NextDatLocks, EndLocks
  DEF Step
<1>2. CASE UNCHANGED vars
  BY <1>2 DEF LockInv, HeldOK, Compatible, IsWrite, vars
<1> QED BY <1>1, <1>2, CallLocks, EndLocks DEF Next, Done

LEMMA LocksInit == Init => LockInv
  BY DEF Init, LockInv, HeldOK, Compatible, ChainLabels, FreeLabels, ScanHeld, DatLabels, TailLabels,
         KeyLabels, DelLabels, ScanLabels, Labels

(* What the locks exclude.                                                 *)
LEMMA LocksExclude == LockInv => SectionsExclusive
<1> SUFFICES ASSUME LockInv, NEW p \in Procs, NEW q \in Procs, p # q
             PROVE  /\ ~(/\ pc[p] \in ChainLabels /\ IsWrite(arg[p]) /\ pc[q] \in ChainLabels
                         /\ ChainOff(arg[p].key) = ChainOff(arg[q].key))
                    /\ ~(pc[p] \in FreeLabels /\ pc[q] \in FreeLabels \cup ScanHeld)
                    /\ ~(pc[p] \in DatLabels /\ pc[q] \in DatLabels)
                    /\ ~(pc[p] \in TailLabels /\ pc[q] \in TailLabels)
  BY DEF SectionsExclusive
<1>1. HeldOK(p) /\ HeldOK(q) /\ \A r \in wr[p] : r \notin rd[q] \cup wr[q]
  BY DEF LockInv, Compatible
<1> QED BY <1>1 DEF HeldOK

(* A store or a delete is alone on its hash chain from _db_find's lock to  *)
(* the final un_lock, a deletion excludes other deletions and db_nextrec,  *)
(* and appends to each file are serialised: for any number of processes.   *)
THEOREM MutualExclusion == Spec => []SectionsExclusive
<1>1. Init => TypeOK /\ PcInv /\ LockInv
  BY InitOK, LocksInit
<1>2. TypeOK /\ PcInv /\ LockInv /\ [Next]_vars => (TypeOK /\ PcInv /\ LockInv)'
  BY NextOK, LocksNext
<1> QED BY <1>1, <1>2, LocksExclude, PTL DEF Spec
===============================================================================
