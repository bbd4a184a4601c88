--------------------------------- MODULE Db ---------------------------------
(***************************************************************************)
(* The database library of AP_UNIX/db.c: an index file and a data file     *)
(* shared by several processes that call db_fetch, db_store, db_delete,    *)
(* db_rewind and db_nextrec, and coordinate with advisory record locks.    *)
(*                                                                         *)
(* One step is one system call (an fcntl lock or unlock, or an lseek with  *)
(* the read or write that follows it) together with the computation up to  *)
(* the next one.  Each read and each write of a record is atomic.          *)
(*                                                                         *)
(* Offsets in the index file are counted in pointer fields and records:    *)
(* the free list pointer is at FREE_OFF = 0, the hash table at 1..NHASH,   *)
(* record i at NHASH + i; offset 0 is the null pointer, as in the code.    *)
(* A data record is named by its position in the data file.                *)
(***************************************************************************)
EXTENDS Integers, Sequences, FiniteSets

CONSTANTS
  Procs,          \* processes that have the database open
  Keys,           \* keys
  Vals,           \* data
  Data,           \* Data[k]: the data that callers store under key k
  NHASH,          \* number of hash chains (NHASH_DEF)
  Hash,           \* Hash[k]: the value of _db_hash for key k
  KeyLen,         \* KeyLen[k]: strlen of key k
  DatLen,         \* DatLen[v]: strlen of datum v plus the newline
  PTR_MAX,        \* largest offset a pointer field can hold
  Blank,          \* a key or datum that is all spaces
  NULL,           \* the null result, and "no datum"
  Ops,            \* Ops[p]: the library functions process p calls
  Flags,          \* Flags[p]: the flag arguments p passes to db_store
  MaxCalls,       \* MaxCalls[p]: bound on the calls p makes
  SerialInserts,  \* callers never overlap an insert with another write
  Killable        \* processes that may be killed in the middle of a call

ASSUME ConstAssumption ==
  /\ NHASH \in Nat \ {0}
  /\ PTR_MAX \in Nat /\ PTR_MAX > NHASH
  /\ Hash \in [Keys -> 0 .. NHASH - 1]
  /\ KeyLen \in [Keys -> Nat \ {0}]
  /\ DatLen \in [Vals -> Nat \ {0}]
  /\ Data \in [Keys -> SUBSET Vals]
  /\ Blank \notin Keys \cup Vals
  /\ NULL \notin Keys \cup Vals \cup {0, 1, -1, Blank}
  /\ {0, 1, -1} \cap Vals = {}
  /\ Ops \in [Procs -> SUBSET {"fetch", "store", "delete", "nextrec", "rewind"}]
  /\ Flags \in [Procs -> SUBSET SUBSET {"INSERT", "REPLACE"}]
  /\ MaxCalls \in [Procs -> Nat]
  /\ SerialInserts \in BOOLEAN
  /\ Killable \subseteq Procs

VARIABLES
  tbl,    \* index file: the free list pointer and the hash table
  idx,    \* index file: the index records, in file order
  dat,    \* data file: the data records, in file order
  rd, wr, \* rd[p], wr[p]: the regions p holds a read, a write lock on
  pc,     \* pc[p]: the system call p makes next
  arg,    \* arg[p]: the arguments of p's current call
  d,      \* d[p]: p's DB structure and the local variables of the library
  rc,     \* rc[p]: the result of p's current call, once known
  pos,    \* pos[p]: offset of p's descriptor of the index file
  left,   \* left[p]: calls p may still make
  map     \* history: the datum stored under each key, or NULL

files  == <<tbl, idx, dat>>
locks  == <<rd, wr>>
vars   == <<tbl, idx, dat, rd, wr, pc, arg, d, rc, pos, left, map>>

-----------------------------------------------------------------------------
FREE_OFF  == 0
HASH_OFF  == 1
FirstRec  == NHASH + 1
Unaligned == 0      \* a descriptor offset at which no index record starts

ChainOff(k) == Hash[k] + HASH_OFF

(* Lockable regions: byte FREE_OFF, the first byte of each hash chain      *)
(* pointer, the index file from FirstRec to its end, the whole data file.  *)
IdxTail == FirstRec
DatFile == -1
Region  == DatFile .. IdxTail

(* Contents of the pointer field at offset o, and the record at offset o.  *)
Rec(o)   == idx[o - NHASH]
Field(o) == IF o < FirstRec THEN tbl[o] ELSE Rec(o).ptr
RecOff   == FirstRec .. NHASH + Len(idx)

(* Offsets a pointer field may hold, and offsets of pointer fields.        *)
Ptr    == {0} \cup {o \in RecOff : o <= PTR_MAX}
PtrLoc == 0 .. NHASH + Len(idx)

DbNull == [chainoff |-> 0, ptroff |-> 0, idxoff |-> 0, ptrval |-> 0,
           datoff |-> 0, datlen |-> 0, idxbuf |-> Blank, offset |-> 0,
           saveoff |-> 0, head |-> 0, saveptr |-> 0, freeptr |-> 0]

NoArg == [op |-> "none", key |-> NULL, val |-> NULL, flag |-> {}]

Init ==
  /\ tbl  = [o \in 0 .. NHASH |-> 0]
  /\ idx  = << >>
  /\ dat  = << >>
  /\ rd   = [p \in Procs |-> {}]
  /\ wr   = [p \in Procs |-> {}]
  /\ pc   = [p \in Procs |-> "idle"]
  /\ arg  = [p \in Procs |-> NoArg]
  /\ d    = [p \in Procs |-> DbNull]
  /\ rc   = [p \in Procs |-> NULL]
  /\ pos  = [p \in Procs |-> FirstRec]
  /\ left = MaxCalls
  /\ map  = [k \in Keys |-> NULL]

-----------------------------------------------------------------------------
(* System calls.                                                           *)

At(p, label) == pc[p] = label
Goto(p, label) == pc' = [pc EXCEPT ![p] = label]
SetDb(p, r) == d' = [d EXCEPT ![p] = r]

(* fcntl(F_SETLKW) waits until no other process holds a conflicting lock.  *)
readw_lock(p, r) ==
  /\ \A q \in Procs \ {p} : r \notin wr[q]
  /\ rd' = [rd EXCEPT ![p] = @ \cup {r}]
  /\ wr' = [wr EXCEPT ![p] = @ \ {r}]

writew_lock(p, r) ==
  /\ \A q \in Procs \ {p} : r \notin wr[q] \cup rd[q]
  /\ wr' = [wr EXCEPT ![p] = @ \cup {r}]
  /\ rd' = [rd EXCEPT ![p] = @ \ {r}]

(* Mutant of un_lock: it releases every lock of the process, as an un_lock *)
(* of the whole file would.                                                *)
un_lockAll(p, r) ==
  /\ rd' = [rd EXCEPT ![p] = {}]
  /\ wr' = [wr EXCEPT ![p] = {}]

un_lock(p, r) ==
  /\ rd' = [rd EXCEPT ![p] = @ \ {r}]
  /\ wr' = [wr EXCEPT ![p] = @ \ {r}]

(* The process ends in the middle of a call (err_dump, err_quit, a kill):  *)
(* the kernel closes its descriptors, which releases its locks.            *)
Dies(p) ==
  /\ rd' = [rd EXCEPT ![p] = {}]
  /\ wr' = [wr EXCEPT ![p] = {}]
  /\ pc' = [pc EXCEPT ![p] = "dead"]
  /\ arg' = [arg EXCEPT ![p] = NoArg]
  /\ SetDb(p, DbNull)
  /\ rc' = [rc EXCEPT ![p] = NULL]
  /\ UNCHANGED <<files, pos, left>>

(* _db_readptr leaves the descriptor behind a pointer field.               *)
ReadPtrPos(p) == pos' = [pos EXCEPT ![p] = Unaligned]

(* _db_writeptr: pointer field o gets value v.                             *)
_db_writeptr(p, o, v) ==
  /\ IF o < FirstRec
     THEN tbl' = [tbl EXCEPT ![o] = v] /\ UNCHANGED idx
     ELSE idx' = [idx EXCEPT ![o - NHASH] = [@ EXCEPT !.ptr = v]] /\ UNCHANGED tbl
  /\ pos' = [pos EXCEPT ![p] = Unaligned]
  /\ UNCHANGED dat

(* _db_readidx at offset o: what it leaves in the DB structure.            *)
AfterReadidx(p, o) ==
  [d[p] EXCEPT !.idxoff = o, !.ptrval = Rec(o).ptr, !.idxbuf = Rec(o).key,
               !.datoff = Rec(o).datoff, !.datlen = Rec(o).datlen]
(* Mutant of ReadidxPos: the read does not advance the descriptor.         *)
ReadidxPosStuck(p, o) == UNCHANGED pos

ReadidxPos(p, o) == pos' = [pos EXCEPT ![p] = o + 1]

(* _db_readdat: the datum at data offset o.                                *)
_db_readdat(o) == dat[o].val

(* _db_writedat over an existing record, and _db_writeidx likewise.        *)
OverwriteDat(o, v, len) == dat' = [dat EXCEPT ![o] = [val |-> v, len |-> len]]
OverwriteIdx(p, k, klen, ptr) ==
  /\ idx' = [idx EXCEPT ![d[p].idxoff - NHASH] =
               [ptr |-> ptr, key |-> k, klen |-> klen,
                datoff |-> d[p].datoff, datlen |-> d[p].datlen]]
  /\ pos' = [pos EXCEPT ![p] = d[p].idxoff + 1]

-----------------------------------------------------------------------------
(* Calls.                                                                  *)

MayInsert(a) == a.op = "store" /\ "REPLACE" \notin a.flag
IsWrite(a)   == a.op \in {"store", "delete"}

(* The caller's side of the contract when SerialInserts is set: a call     *)
(* that may insert runs while no other process is storing or deleting.     *)
Permitted(p, a) ==
  SerialInserts /\ IsWrite(a) =>
    \A q \in Procs \ {p} :
      IsWrite(arg[q]) => ~MayInsert(a) /\ ~MayInsert(arg[q])

Call(p, a, label) ==
  /\ At(p, "idle") /\ left[p] > 0
  /\ a.op \in Ops[p]
  /\ Permitted(p, a)
  /\ left' = [left EXCEPT ![p] = @ - 1]
  /\ arg' = [arg EXCEPT ![p] = a]
  /\ Goto(p, label)
  /\ UNCHANGED <<files, locks, d, rc, pos, map>>

db_fetch(p, k) ==
  Call(p, [op |-> "fetch", key |-> k, val |-> NULL, flag |-> {}], "find_lock")

db_delete(p, k) ==
  Call(p, [op |-> "delete", key |-> k, val |-> NULL, flag |-> {}], "find_lock")

db_store(p, k, v, f) ==
  Call(p, [op |-> "store", key |-> k, val |-> v, flag |-> f], "find_lock")

db_nextrec(p) ==
  Call(p, [op |-> "nextrec", key |-> NULL, val |-> NULL, flag |-> {}], "next_lock")

(* db_rewind is a single lseek.                                            *)
db_rewind(p) ==
  /\ At(p, "idle") /\ left[p] > 0
  /\ "rewind" \in Ops[p]
  /\ left' = [left EXCEPT ![p] = @ - 1]
  /\ pos' = [pos EXCEPT ![p] = FirstRec]
  /\ UNCHANGED <<files, locks, pc, arg, d, rc, map>>

(* The final un_lock of the chain, common to db_fetch, db_delete, db_store. *)
(* The DB fields are dead between calls: every call sets what it reads.    *)
Unlock(p) ==
  /\ At(p, "unlock")
  /\ un_lock(p, d[p].chainoff)
  /\ Goto(p, "idle")
  /\ arg' = [arg EXCEPT ![p] = NoArg]
  /\ SetDb(p, DbNull)
  /\ rc' = [rc EXCEPT ![p] = NULL]
  /\ UNCHANGED <<files, pos, left, map>>

-----------------------------------------------------------------------------
(* _db_find.                                                               *)

(* Where the caller of _db_find continues when the key is not there, and   *)
(* the result it already knows.                                            *)
MissPc(a) == IF MayInsert(a) THEN "ins_head" ELSE "unlock"
MissRc(a) == IF a.op = "fetch" THEN NULL ELSE -1

(* Mutant of HitPc: db_store ignores DB_INSERT.                            *)
HitPcNoInsert(a, datlen) ==
  CASE a.op = "fetch"  -> "fetch_dat"
    [] a.op = "delete" -> "del_lock"
    [] a.op = "store"  -> IF DatLen[a.val] # datlen THEN "del_lock" ELSE "rep_dat"

HitPc(a, datlen) ==
  CASE a.op = "fetch"  -> "fetch_dat"
    [] a.op = "delete" -> "del_lock"
    [] a.op = "store" /\ "INSERT" \in a.flag -> "unlock"
    [] a.op = "store" /\ "INSERT" \notin a.flag ->
         IF DatLen[a.val] # datlen THEN "del_lock" ELSE "rep_dat"

Miss(p) ==
  /\ Goto(p, MissPc(arg[p]))
  /\ rc' = [rc EXCEPT ![p] = IF MayInsert(arg[p]) THEN NULL ELSE MissRc(arg[p])]

Hit(p, datlen) ==
  LET label == HitPc(arg[p], datlen)
  IN  /\ Goto(p, label)
      /\ rc' = [rc EXCEPT ![p] = IF label = "unlock" THEN 1 ELSE NULL]

(* Mutant of FindLock: the argument writelock is ignored.                  *)
FindLockShared(p) ==
  LET c == ChainOff(arg[p].key)
  IN  /\ At(p, "find_lock")
      /\ readw_lock(p, c)
      /\ SetDb(p, [d[p] EXCEPT !.chainoff = c, !.ptroff = c])
      /\ Goto(p, "find_head")
      /\ UNCHANGED <<files, arg, rc, pos, left, map>>

FindLock(p) ==
  LET c == ChainOff(arg[p].key)
  IN  /\ At(p, "find_lock")
      /\ IF IsWrite(arg[p]) THEN writew_lock(p, c) ELSE readw_lock(p, c)
      /\ SetDb(p, [d[p] EXCEPT !.chainoff = c, !.ptroff = c])
      /\ Goto(p, "find_head")
      /\ UNCHANGED <<files, arg, rc, pos, left, map>>

FindHead(p) ==
  LET o == Field(d[p].ptroff)
  IN  /\ At(p, "find_head")
      /\ SetDb(p, [d[p] EXCEPT !.offset = o])
      /\ \/ o = 0 /\ Miss(p)
         \/ o # 0 /\ Goto(p, "find_next") /\ UNCHANGED rc
      /\ ReadPtrPos(p)
      /\ UNCHANGED <<files, locks, arg, left, map>>

FindNext(p) ==
  LET o == d[p].offset
      n == Rec(o).ptr
  IN  /\ At(p, "find_next")
      /\ \/ /\ Rec(o).key = arg[p].key
            /\ SetDb(p, AfterReadidx(p, o))
            /\ Hit(p, Rec(o).datlen)
         \/ /\ Rec(o).key # arg[p].key
            /\ SetDb(p, [AfterReadidx(p, o) EXCEPT !.ptroff = o, !.offset = n])
            /\ \/ n = 0 /\ Miss(p)
               \/ n # 0 /\ UNCHANGED <<pc, rc>>
      /\ ReadidxPos(p, o)
      /\ UNCHANGED <<files, locks, arg, left, map>>

FetchDat(p) ==
  /\ At(p, "fetch_dat")
  /\ rc' = [rc EXCEPT ![p] = _db_readdat(d[p].datoff)]
  /\ Goto(p, "unlock")
  /\ UNCHANGED <<files, locks, arg, d, pos, left, map>>

-----------------------------------------------------------------------------
(* db_store: the record is not there.                                      *)

InsHead(p) ==
  /\ At(p, "ins_head")
  /\ SetDb(p, [d[p] EXCEPT !.head = Field(d[p].chainoff)])
  /\ Goto(p, "ff_head")
  /\ ReadPtrPos(p)
  /\ UNCHANGED <<files, locks, arg, rc, left, map>>

(* _db_findfree.  The comment says "Lock the free list"; no call does.     *)
FreeHead(p) ==
  LET o == Field(FREE_OFF)
  IN  /\ At(p, "ff_head")
      /\ SetDb(p, [d[p] EXCEPT !.saveoff = FREE_OFF, !.offset = o])
      /\ Goto(p, IF o = 0 THEN "ff_unlock" ELSE "ff_next")
      /\ ReadPtrPos(p)
      /\ UNCHANGED <<files, locks, arg, rc, left, map>>

(* Mutant of Fits: the data length is not compared.                        *)
FitsKeyOnly(a, r) == r.klen = KeyLen[a.key]

(* A free record is taken when both of its sizes match.                    *)
Fits(a, r) == r.klen = KeyLen[a.key] /\ r.datlen = DatLen[a.val]

FreeNext(p) ==
  LET o == d[p].offset
      n == Rec(o).ptr
  IN  /\ At(p, "ff_next")
      /\ \/ /\ Fits(arg[p], Rec(o))
            /\ SetDb(p, AfterReadidx(p, o))
            /\ Goto(p, "ff_unlink")
         \/ /\ ~Fits(arg[p], Rec(o))
            /\ SetDb(p, [AfterReadidx(p, o) EXCEPT !.saveoff = o, !.offset = n])
            /\ Goto(p, IF n = 0 THEN "ff_unlock" ELSE "ff_next")
      /\ ReadidxPos(p, o)
      /\ UNCHANGED <<files, locks, arg, rc, left, map>>

(* Mutant of FreeUnlink: the record found stays on the free list.          *)
FreeUnlinkSkipped(p) ==
  /\ At(p, "ff_unlink")
  /\ Goto(p, "ff_unlock")
  /\ UNCHANGED <<files, locks, arg, d, rc, pos, left, map>>

FreeUnlink(p) ==
  /\ At(p, "ff_unlink")
  /\ _db_writeptr(p, d[p].saveoff, d[p].ptrval)
  /\ Goto(p, "ff_unlock")
  /\ UNCHANGED <<locks, arg, d, rc, left, map>>

(* Mutant of FreeUnlock: a record is linked before it is written.          *)
FreeUnlockLinksFirst(p) ==
  /\ At(p, "ff_unlock")
  /\ un_lock(p, FREE_OFF)
  /\ Goto(p, IF d[p].offset = 0 THEN "app_datlock" ELSE "link")
  /\ UNCHANGED <<files, arg, d, rc, pos, left, map>>

(* The un_lock of a region that was never locked; offset 0: nothing found. *)
FreeUnlock(p) ==
  /\ At(p, "ff_unlock")
  /\ un_lock(p, FREE_OFF)
  /\ Goto(p, IF d[p].offset = 0 THEN "app_datlock" ELSE "reuse_dat")
  /\ UNCHANGED <<files, arg, d, rc, pos, left, map>>

ReuseDat(p) ==
  /\ At(p, "reuse_dat")
  /\ OverwriteDat(d[p].datoff, arg[p].val, DatLen[arg[p].val])
  /\ Goto(p, "reuse_idx")
  /\ UNCHANGED <<tbl, idx, locks, arg, d, rc, pos, left, map>>

ReuseIdx(p) ==
  /\ At(p, "reuse_idx")
  /\ OverwriteIdx(p, arg[p].key, KeyLen[arg[p].key], d[p].head)
  /\ SetDb(p, [d[p] EXCEPT !.ptrval = d[p].head])
  /\ Goto(p, "link")
  /\ UNCHANGED <<tbl, dat, locks, arg, rc, left, map>>

(* Append to the data file, then to the index file, each under its lock.   *)
AppDatLock(p) ==
  /\ At(p, "app_datlock")
  /\ writew_lock(p, DatFile)
  /\ Goto(p, "app_dat")
  /\ UNCHANGED <<files, arg, d, rc, pos, left, map>>

AppDat(p) ==
  /\ At(p, "app_dat")
  /\ dat' = Append(dat, [val |-> arg[p].val, len |-> DatLen[arg[p].val]])
  /\ SetDb(p, [d[p] EXCEPT !.datoff = Len(dat) + 1, !.datlen = DatLen[arg[p].val]])
  /\ Goto(p, "app_datunlock")
  /\ UNCHANGED <<tbl, idx, locks, arg, rc, pos, left, map>>

AppDatUnlock(p) ==
  /\ At(p, "app_datunlock")
  /\ un_lock(p, DatFile)
  /\ Goto(p, "app_idxlock")
  /\ UNCHANGED <<files, arg, d, rc, pos, left, map>>

AppIdxLock(p) ==
  /\ At(p, "app_idxlock")
  /\ writew_lock(p, IdxTail)
  /\ Goto(p, "app_idx")
  /\ UNCHANGED <<files, arg, d, rc, pos, left, map>>

AppIdx(p) ==
  /\ At(p, "app_idx")
  /\ idx' = Append(idx, [ptr |-> d[p].head, key |-> arg[p].key,
                         klen |-> KeyLen[arg[p].key],
                         datoff |-> d[p].datoff, datlen |-> d[p].datlen])
  /\ SetDb(p, [d[p] EXCEPT !.idxoff = FirstRec + Len(idx), !.ptrval = d[p].head])
  /\ pos' = [pos EXCEPT ![p] = FirstRec + Len(idx) + 1]
  /\ Goto(p, "app_idxunlock")
  /\ UNCHANGED <<tbl, dat, locks, arg, rc, left, map>>

AppIdxUnlock(p) ==
  /\ At(p, "app_idxunlock")
  /\ un_lock(p, IdxTail)
  /\ Goto(p, "link")
  /\ UNCHANGED <<files, arg, d, rc, pos, left, map>>

(* Mutant of Link: the range check of _db_writeptr is missing.             *)
LinkUnchecked(p) ==
  /\ At(p, "link")
  /\ _db_writeptr(p, d[p].chainoff, d[p].idxoff)
  /\ map' = [map EXCEPT ![arg[p].key] = arg[p].val]
  /\ rc' = [rc EXCEPT ![p] = 0]
  /\ Goto(p, "unlock")
  /\ UNCHANGED <<locks, arg, d, left>>

(* The new record becomes the head of its chain.                           *)
Link(p) ==
  /\ At(p, "link")
  /\ d[p].idxoff <= PTR_MAX
  /\ _db_writeptr(p, d[p].chainoff, d[p].idxoff)
  /\ map' = [map EXCEPT ![arg[p].key] = arg[p].val]
  /\ rc' = [rc EXCEPT ![p] = 0]
  /\ Goto(p, "unlock")
  /\ UNCHANGED <<locks, arg, d, left>>

(* err_quit("invalid ptr") in _db_writeptr: the new record lies beyond     *)
(* what a pointer field can hold.  A record being replaced is gone.        *)
LinkFails(p) ==
  /\ At(p, "link")
  /\ d[p].idxoff > PTR_MAX
  /\ map' = [map EXCEPT ![arg[p].key] = NULL]
  /\ Dies(p)

-----------------------------------------------------------------------------
(* db_store: the record is there and may be replaced.                      *)

RepDat(p) ==
  /\ At(p, "rep_dat")
  /\ OverwriteDat(d[p].datoff, arg[p].val, DatLen[arg[p].val])
  /\ map' = [map EXCEPT ![arg[p].key] = arg[p].val]
  /\ rc' = [rc EXCEPT ![p] = 0]
  /\ Goto(p, "unlock")
  /\ UNCHANGED <<tbl, idx, locks, arg, d, pos, left>>

(* Mutant of RepHead: the chain pointer is not reread.                     *)
RepHeadStale(p) ==
  /\ At(p, "rep_head")
  /\ Goto(p, "app_datlock")
  /\ UNCHANGED <<files, locks, arg, d, rc, pos, left, map>>

(* After _db_dodelete: reread the head of the chain, then append.          *)
RepHead(p) ==
  /\ At(p, "rep_head")
  /\ SetDb(p, [d[p] EXCEPT !.head = Field(d[p].chainoff)])
  /\ Goto(p, "app_datlock")
  /\ ReadPtrPos(p)
  /\ UNCHANGED <<files, locks, arg, rc, left, map>>

-----------------------------------------------------------------------------
(* _db_dodelete.                                                           *)

DelLock(p) ==
  /\ At(p, "del_lock")
  /\ writew_lock(p, FREE_OFF)
  /\ Goto(p, "del_dat")
  /\ UNCHANGED <<files, arg, d, rc, pos, left, map>>

DelDat(p) ==
  /\ At(p, "del_dat")
  /\ OverwriteDat(d[p].datoff, Blank, d[p].datlen)
  /\ Goto(p, "del_free")
  /\ UNCHANGED <<tbl, idx, locks, arg, d, rc, pos, left, map>>

DelFree(p) ==
  /\ At(p, "del_free")
  /\ SetDb(p, [d[p] EXCEPT !.freeptr = Field(FREE_OFF), !.saveptr = d[p].ptrval])
  /\ Goto(p, "del_idx")
  /\ ReadPtrPos(p)
  /\ UNCHANGED <<files, locks, arg, rc, left, map>>

DelIdx(p) ==
  /\ At(p, "del_idx")
  /\ OverwriteIdx(p, Blank, KeyLen[d[p].idxbuf], d[p].freeptr)
  /\ SetDb(p, [d[p] EXCEPT !.ptrval = d[p].freeptr])
  /\ Goto(p, "del_head")
  /\ UNCHANGED <<tbl, dat, locks, arg, rc, left, map>>

(* Mutant of DelHead: the free list pointer is not updated.                *)
DelHeadSkipped(p) ==
  /\ At(p, "del_head")
  /\ Goto(p, "del_unlink")
  /\ UNCHANGED <<files, locks, arg, d, rc, pos, left, map>>

DelHead(p) ==
  /\ At(p, "del_head")
  /\ _db_writeptr(p, FREE_OFF, d[p].idxoff)
  /\ Goto(p, "del_unlink")
  /\ UNCHANGED <<locks, arg, d, rc, left, map>>

(* The deletion of a key takes effect here; a replacement when it links.   *)
DelUnlink(p) ==
  /\ At(p, "del_unlink")
  /\ _db_writeptr(p, d[p].ptroff, d[p].saveptr)
  /\ IF arg[p].op = "delete"
     THEN /\ map' = [map EXCEPT ![arg[p].key] = NULL]
          /\ rc' = [rc EXCEPT ![p] = 0]
     ELSE UNCHANGED <<map, rc>>
  /\ Goto(p, "del_unlock")
  /\ UNCHANGED <<locks, arg, d, left>>

DelUnlock(p) ==
  /\ At(p, "del_unlock")
  /\ un_lock(p, FREE_OFF)
  /\ Goto(p, IF arg[p].op = "delete" THEN "unlock" ELSE "rep_head")
  /\ UNCHANGED <<files, arg, d, rc, pos, left, map>>

-----------------------------------------------------------------------------
(* db_nextrec.                                                             *)

(* Mutant of NextLock: the free list is not locked.                        *)
NextLockSkipped(p) ==
  /\ At(p, "next_lock")
  /\ Goto(p, "next_idx")
  /\ UNCHANGED <<files, locks, arg, d, rc, pos, left, map>>

NextLock(p) ==
  /\ At(p, "next_lock")
  /\ readw_lock(p, FREE_OFF)
  /\ Goto(p, "next_idx")
  /\ UNCHANGED <<files, arg, d, rc, pos, left, map>>

(* _db_readidx(db, 0): the record at the descriptor's offset.  Blank keys  *)
(* are skipped; at the end of the file the result is NULL.                 *)
NextIdx(p) ==
  LET o == pos[p]
  IN  /\ At(p, "next_idx")
      /\ o # Unaligned
      /\ \/ /\ o \notin RecOff
            /\ Goto(p, "next_unlock")
            /\ UNCHANGED <<d, pos>>
         \/ /\ o \in RecOff
            /\ SetDb(p, AfterReadidx(p, o))
            /\ ReadidxPos(p, o)
            /\ IF Rec(o).key = Blank THEN UNCHANGED pc ELSE Goto(p, "next_dat")
      /\ UNCHANGED <<files, locks, arg, rc, left, map>>

(* Between records, the sanity checks of _db_readidx call err_dump.        *)
NextIdxFails(p) ==
  /\ At(p, "next_idx")
  /\ pos[p] = Unaligned
  /\ Dies(p)
  /\ UNCHANGED map

NextDat(p) ==
  /\ At(p, "next_dat")
  /\ rc' = [rc EXCEPT ![p] = _db_readdat(d[p].datoff)]
  /\ Goto(p, "next_unlock")
  /\ UNCHANGED <<files, locks, arg, d, pos, left, map>>

NextUnlock(p) ==
  /\ At(p, "next_unlock")
  /\ un_lock(p, FREE_OFF)
  /\ Goto(p, "idle")
  /\ arg' = [arg EXCEPT ![p] = NoArg]
  /\ SetDb(p, DbNull)
  /\ rc' = [rc EXCEPT ![p] = NULL]
  /\ UNCHANGED <<files, pos, left, map>>

-----------------------------------------------------------------------------
(* A process is killed in the middle of a call.                            *)
Killed(p) ==
  /\ p \in Killable
  /\ pc[p] \notin {"idle", "dead"}
  /\ Dies(p)
  /\ UNCHANGED map

Calls(p) ==
  \/ \E k \in Keys : db_fetch(p, k) \/ db_delete(p, k)
  \/ \E k \in Keys, f \in Flags[p] : \E v \in Data[k] : db_store(p, k, v, f)
  \/ db_nextrec(p)
  \/ db_rewind(p)

Step(p) ==
  \/ FindLock(p) \/ FindHead(p) \/ FindNext(p) \/ FetchDat(p) \/ Unlock(p)
  \/ InsHead(p) \/ FreeHead(p) \/ FreeNext(p) \/ FreeUnlink(p) \/ FreeUnlock(p)
  \/ ReuseDat(p) \/ ReuseIdx(p)
  \/ AppDatLock(p) \/ AppDat(p) \/ AppDatUnlock(p)
  \/ AppIdxLock(p) \/ AppIdx(p) \/ AppIdxUnlock(p)
  \/ Link(p) \/ LinkFails(p) \/ RepDat(p) \/ RepHead(p)
  \/ DelLock(p) \/ DelDat(p) \/ DelFree(p) \/ DelIdx(p) \/ DelHead(p)
  \/ DelUnlink(p) \/ DelUnlock(p)
  \/ NextLock(p) \/ NextIdx(p) \/ NextIdxFails(p) \/ NextDat(p) \/ NextUnlock(p)

(* Every process has made its calls or is dead.                            *)
Done ==
  /\ \A p \in Procs : pc[p] = "dead" \/ (pc[p] = "idle" /\ left[p] = 0)
  /\ UNCHANGED vars

Next == (\E p \in Procs : Calls(p) \/ Step(p) \/ Killed(p)) \/ Done

Spec == Init /\ [][Next]_vars

(* The kernel grants a lock that stays available and schedules a process   *)
(* that can run; a process need not make another call.                     *)
FairSpec == Spec /\ \A p \in Procs : WF_vars(Step(p))
-----------------------------------------------------------------------------
(* Properties.                                                             *)

Labels ==
  {"idle", "dead", "unlock", "find_lock", "find_head", "find_next", "fetch_dat",
   "ins_head", "ff_head", "ff_next", "ff_unlink", "ff_unlock", "reuse_dat",
   "reuse_idx", "app_datlock", "app_dat", "app_datunlock", "app_idxlock",
   "app_idx", "app_idxunlock", "link", "rep_dat", "rep_head", "del_lock",
   "del_dat", "del_free", "del_idx", "del_head", "del_unlink", "del_unlock",
   "next_lock", "next_idx", "next_dat", "next_unlock"}

ScanLabels == {"next_lock", "next_idx", "next_dat", "next_unlock"}
KeyLabels  == Labels \ ({"idle", "dead"} \cup ScanLabels)

StoreLabels ==
  {"ins_head", "ff_head", "ff_next", "ff_unlink", "ff_unlock", "reuse_dat",
   "reuse_idx", "app_datlock", "app_dat", "app_datunlock", "app_idxlock",
   "app_idx", "app_idxunlock", "link", "rep_dat", "rep_head"}

DelLabels == {"del_lock", "del_dat", "del_free", "del_idx", "del_head",
              "del_unlink", "del_unlock"}

ArgType == [op : {"none", "fetch", "store", "delete", "nextrec", "rewind"},
            key : Keys \cup {NULL}, val : Vals \cup {NULL},
            flag : SUBSET {"INSERT", "REPLACE"}]

DatPos == 1 .. Len(dat)

IdxType == [ptr : Ptr, key : Keys \cup {Blank}, klen : Nat,
            datoff : DatPos, datlen : Nat]

DbType == [chainoff : 0 .. NHASH, ptroff : PtrLoc, idxoff : {0} \cup RecOff,
           ptrval : Ptr, datoff : {0} \cup DatPos, datlen : Nat,
           idxbuf : Keys \cup {Blank}, offset : Ptr, saveoff : PtrLoc,
           head : Ptr, saveptr : Ptr, freeptr : Ptr]

DatType  == [val : Vals \cup {Blank}, len : Nat]
RcType   == Vals \cup {Blank, NULL, 0, 1, -1}
ScanType == FirstRec .. FirstRec + Len(idx)
PosType  == {Unaligned} \cup ScanType

(* Every pointer in the index file, in a DB structure or in a local        *)
(* variable is 0 or the offset of an existing record a pointer field can   *)
(* hold, and every index record names an existing data record: the         *)
(* err_dump calls of _db_readptr, _db_readidx and _db_readdat for a short  *)
(* read are unreachable, whatever the processes do to each other.          *)
TypeOK ==
  /\ tbl \in [0 .. NHASH -> Ptr]
  /\ idx \in Seq(IdxType)
  /\ dat \in Seq(DatType)
  /\ rd \in [Procs -> SUBSET Region]
  /\ wr \in [Procs -> SUBSET Region]
  /\ pc \in [Procs -> Labels]
  /\ arg \in [Procs -> ArgType]
  /\ d \in [Procs -> DbType]
  /\ rc \in [Procs -> RcType]
  /\ pos \in [Procs -> PosType]
  /\ left \in [Procs -> Nat]
  /\ map \in [Keys -> Vals \cup {NULL}]

(* What the program counter says about the call in progress: which         *)
(* arguments it has and which fields of its DB structure have been set.    *)
NeedsRec == DelLabels \cup
  {"fetch_dat", "next_dat", "rep_dat", "ff_unlink", "reuse_dat", "reuse_idx"}

PcOK(p) ==
  /\ pc[p] \in KeyLabels => /\ arg[p].op \in {"fetch", "store", "delete"}
                            /\ arg[p].key \in Keys
  /\ pc[p] \in StoreLabels => arg[p].op = "store"
  /\ arg[p].op = "store" => arg[p].val \in Vals
  /\ pc[p] \in {"find_next", "ff_next"} => d[p].offset # 0
  /\ pc[p] \in NeedsRec => d[p].idxoff # 0 /\ d[p].datoff # 0
  /\ (pc[p] = "ff_unlock" /\ d[p].offset # 0) => d[p].idxoff # 0 /\ d[p].datoff # 0
  /\ pc[p] \in {"app_datunlock", "app_idxlock", "app_idx"} => d[p].datoff # 0
  /\ pc[p] \in {"app_idxunlock", "link"} => d[p].idxoff # 0
  /\ pc[p] \in DelLabels => /\ arg[p].op # "fetch"
                            /\ d[p].idxbuf \in Keys
                            /\ d[p].idxoff <= PTR_MAX

PcInv == \A p \in Procs : PcOK(p)

(* The list that starts at pointer field l: the records on it, and whether *)
(* it ends.                                                                *)
Walk(l) ==
  LET w[n \in 0 .. Len(idx)] ==
        IF n = 0 THEN Field(l) ELSE IF w[n - 1] = 0 THEN 0 ELSE Field(w[n - 1])
  IN  w
OnList(l) == {Walk(l)[n] : n \in 0 .. Len(idx)} \ {0}
Ends(l)   == Walk(l)[Len(idx)] = 0

Chains == HASH_OFF .. NHASH

Unlocked(r) == \A p \in Procs : r \notin wr[p]

(* What a reader that holds the lock of k's chain finds is what has been   *)
(* stored: whenever no process holds the write lock of a chain, the chain  *)
(* ends, a key is on it at most once, and it is there with the datum last  *)
(* stored under it or, if there is none, not at all.                       *)
ChainsAgree ==
  \A c \in Chains : Unlocked(c) =>
    /\ Ends(c)
    /\ \A k \in Keys : ChainOff(k) = c =>
         {dat[Rec(o).datoff].val : o \in {x \in OnList(c) : Rec(x).key = k}}
           = {map[k]} \ {NULL}
    /\ \A x, y \in OnList(c) : Rec(x).key = Rec(y).key => x = y

(* Nothing is lost and nothing is used twice: while no store or delete is  *)
(* in progress, every index record is on exactly one list, the free list   *)
(* holds the blank records and the chains the others.                      *)
NoLeak ==
  (\A p \in Procs : ~IsWrite(arg[p])) =>
    \A o \in RecOff :
      /\ Cardinality({l \in 0 .. NHASH : o \in OnList(l)}) = 1
      /\ (o \in OnList(FREE_OFF)) <=> (Rec(o).key = Blank)

(* The record that _db_findfree hands to db_store is that process's alone: *)
(* it is off the free list and no other process is about to reuse it.      *)
Reusing(p) == \/ pc[p] \in {"reuse_dat", "reuse_idx"}
              \/ pc[p] = "ff_unlock" /\ d[p].offset # 0
ReuseExclusive ==
  \A p \in Procs : Reusing(p) =>
    /\ d[p].idxoff \notin OnList(FREE_OFF)
    /\ \A q \in Procs \ {p} : Reusing(q) => d[q].idxoff # d[p].idxoff

(* Critical sections, by the labels inside them.                           *)
ChainLabels == KeyLabels \ {"find_lock"}
FreeLabels  == DelLabels \ {"del_lock"}
ScanHeld    == ScanLabels \ {"next_lock"}
DatLabels   == {"app_dat", "app_datunlock"}
TailLabels  == {"app_idx", "app_idxunlock"}

(* The record locks do what the code wants of them: a store or delete is   *)
(* alone on its hash chain, a deletion excludes other deletions and scans, *)
(* and each file has one appender at a time.                               *)
SectionsExclusive ==
  \A p, q \in Procs : p # q =>
    /\ ~(/\ pc[p] \in ChainLabels /\ IsWrite(arg[p]) /\ pc[q] \in ChainLabels
         /\ ChainOff(arg[p].key) = ChainOff(arg[q].key))
    /\ ~(pc[p] \in FreeLabels /\ pc[q] \in FreeLabels \cup ScanHeld)
    /\ ~(pc[p] \in DatLabels /\ pc[q] \in DatLabels)
    /\ ~(pc[p] \in TailLabels /\ pc[q] \in TailLabels)

(* The locks behind it: p holds the lock of every section it is in, and no *)
(* two processes hold conflicting locks.                                   *)
HeldOK(p) ==
  /\ pc[p] \in ChainLabels =>
       /\ d[p].chainoff = ChainOff(arg[p].key)
       /\ d[p].chainoff \in (IF IsWrite(arg[p]) THEN wr[p] ELSE rd[p])
  /\ pc[p] \in FreeLabels => FREE_OFF \in wr[p]
  /\ pc[p] \in ScanHeld => FREE_OFF \in rd[p]
  /\ pc[p] \in DatLabels => DatFile \in wr[p]
  /\ pc[p] \in TailLabels => IdxTail \in wr[p]

Compatible ==
  \A p, q \in Procs : p # q => \A r \in wr[p] : r \notin rd[q] \cup wr[q]

LockInv == Compatible /\ \A p \in Procs : HeldOK(p)

(* db_nextrec returns a key with a datum that was stored under that key,   *)
(* never a blanked datum or another key's, although it takes no chain      *)
(* lock.  Data[k] are the data stored under k.                             *)
NextrecPair ==
  \A p \in Procs : (pc[p] = "next_unlock" /\ rc[p] # NULL) =>
    d[p].idxbuf \in Keys /\ rc[p] \in Data[d[p].idxbuf]

(* A write over an existing record has that record's sizes: reused and     *)
(* replaced records never run into their neighbours in the file.           *)
OverwriteFits ==
  [][/\ \A i \in DOMAIN dat : dat'[i].len = dat[i].len
     /\ \A i \in DOMAIN idx : /\ idx'[i].klen = idx[i].klen
                              /\ idx'[i].datoff = idx[i].datoff
                              /\ idx'[i].datlen = idx[i].datlen]_<<idx, dat>>

(* A process changes a pointer of a chain, or a record on it, only while   *)
(* it holds that chain's write lock and no process holds the chain's read  *)
(* lock.                                                                   *)
ChainContent(c) ==
  <<tbl[c], {<<o, Rec(o), dat[Rec(o).datoff]>> : o \in OnList(c)}>>
ChangesUnderLock ==
  [][\A c \in Chains : ChainContent(c)' # ChainContent(c) =>
       \E p \in Procs : /\ c \in wr[p] /\ pc'[p] # pc[p]
                        /\ \A q \in Procs \ {p} : c \notin rd[q] \cup wr[q]]_files

(* Every call returns, or its process dies: no lock cycle, no lost unlock. *)
CallsReturn ==
  \A p \in Procs : (pc[p] # "idle") ~> (pc[p] \in {"idle", "dead"})
=============================================================================
