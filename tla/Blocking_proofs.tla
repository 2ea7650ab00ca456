--------------------------- MODULE Blocking_proofs --------------------------
(***************************************************************************)
(* Semaphores and files, for any number of threads, handlers, CPUs,        *)
(* semaphores and bytes.                                                   *)
(*   - The negative value of a semaphore counts its waiters, and entries   *)
(*     of the table are handed out once.                                   *)
(*   - The readers and the writer of a file are the ones it has counted,   *)
(*     and a transfer stays inside the file and inside its buffer.         *)
(***************************************************************************)
EXTENDS Semaphore, SFSFile, QueueLemmas

Entered == {"inode", "block", "store", "end"}
Announced == {"wait_readers", "readers"}
Points == Entered \cup Announced \cup {"idle", "read", "wait_read", "write", "wait_write"}

\* Threads are where their calls lead them.
CallInv ==
    /\ file_pc \in [Users -> Points] /\ DOMAIN call = Users
    /\ \A t \in Users :
        /\ file_pc[t] # "idle" => call[t] \in Calls[t]
        /\ file_pc[t] \in {"read", "wait_read"} => call[t].op = "read"
        /\ file_pc[t] \in Announced \cup {"write", "wait_write", "store"} => call[t].op = "write"

Readers == Inside("read")

\* The entry of the file counts the threads inside.
EntryInv ==
    /\ readernum = Cardinality(Readers)
    /\ writer_tid \in Users \cup {NULL}
    /\ \A t \in Users :
        (t = writer_tid) <=> (t \in Inside("write") \/ file_pc[t] \in Announced)
    /\ Inside("write") # {} => Readers = {}

ProtocolInv == CallInv /\ EntryInv
-----------------------------------------------------------------------------
\* What a step of t does to the places of the other threads: those who wait for
\* io_cond may be sent back to test their conditions, nobody else moves.
Stay(t) ==
    \A u \in Users \ {t} :
        /\ file_pc'[u] \in Points /\ call'[u] = call[u]
        /\ file_pc[u] \in Entered \/ file_pc'[u] \in Entered => file_pc'[u] = file_pc[u]
        /\ file_pc[u] \in Announced <=> file_pc'[u] \in Announced
        /\ file_pc[u] = "idle" <=> file_pc'[u] = "idle"
        /\ file_pc'[u] \in {"read", "wait_read"} => file_pc[u] \in {"read", "wait_read"}
        /\ file_pc'[u] \in {"write", "wait_write"} => file_pc[u] \in {"write", "wait_write"}

LEMMA GotoStays ==
    ASSUME CallInv, NEW t \in Users, NEW p \in Points,
           Move(t, p) \/ Broadcast(t, p),
           \A u \in Users \ {t} : call'[u] = call[u]
    PROVE  Stay(t) /\ file_pc'[t] = p /\ file_pc' \in [Users -> Points]
<1>1. CASE Move(t, p)
  <2>1. file_pc' \in [Users -> Points] /\ \A u \in Users : file_pc'[u] = IF u = t THEN p ELSE file_pc[u]
    BY <1>1, Zenon DEF CallInv, Move
  <2> QED  BY <2>1, Zenon DEF Stay
<1>2. CASE Broadcast(t, p)
  <2>1. /\ DOMAIN file_pc' = Users /\ file_pc'[t] = p
        /\ \A u \in Users \ {t} :
            file_pc'[u] = CASE file_pc[u] = "wait_read" -> "read"
                            [] file_pc[u] = "wait_write" -> "write"
                            [] file_pc[u] = "wait_readers" -> "readers"
                            [] OTHER -> file_pc[u]
    BY <1>2, Zenon DEF Broadcast
  <2>2. \A u \in Users : file_pc[u] \in Points
    BY Zenon DEF CallInv
  <2>3. Stay(t)
    BY <2>1, <2>2 DEF Stay, Points, Entered, Announced
  <2>4. file_pc' = [u \in Users |-> file_pc'[u]]
    BY <1>2, Zenon DEF Broadcast
  <2> QED  BY <2>1, <2>3, <2>4, Zenon DEF Stay
<1> QED  BY <1>1, <1>2, Zenon

\* The others remain inside or outside, and CallInv holds if it holds of t.
LEMMA StayInside ==
    ASSUME CallInv, NEW t \in Users, Stay(t), file_pc' \in [Users -> Points],
           DOMAIN call' = Users,
           file_pc'[t] # "idle" => call'[t] \in Calls[t],
           file_pc'[t] \in {"read", "wait_read"} => call'[t].op = "read",
           file_pc'[t] \in Announced \cup {"write", "wait_write", "store"} => call'[t].op = "write"
    PROVE  /\ CallInv'
           /\ \A u \in Users \ {t} :
                /\ u \in Inside("read")' <=> u \in Inside("read")
                /\ u \in Inside("write")' <=> u \in Inside("write")
<1>1. ASSUME NEW u \in Users \ {t}
      PROVE  /\ file_pc'[u] # "idle" => call'[u] \in Calls[u]
             /\ file_pc'[u] \in {"read", "wait_read"} => call'[u].op = "read"
             /\ file_pc'[u] \in Announced \cup {"write", "wait_write", "store"}
                        => call'[u].op = "write"
  BY DEF CallInv, Stay, Entered
<1>2. CallInv'
  BY <1>1, Zenon DEF CallInv
<1> QED  BY <1>2, Zenon DEF Stay, Inside, Entered

-----------------------------------------------------------------------------
(* Blocks of S bytes: which block a byte lies in.                          *)

LEMMA DivMod ==
    ASSUME NEW n \in Nat, NEW S \in Nat \ {0}
    PROVE  /\ n \div S \in Nat /\ n % S \in 0..(S - 1)
           /\ n % S = n - S * (n \div S)
           /\ S * (n \div S) <= n /\ n < S * (n \div S) + S
<1>1. n \div S \in Int /\ n \div S >= 0
  OBVIOUS
<1>2. n % S \in 0..(S - 1)
  OBVIOUS
<1>3. n % S = n - S * (n \div S)
  OBVIOUS
<1>4. S * (n \div S) <= n /\ n < S * (n \div S) + S
  OBVIOUS
<1> QED  BY <1>1, <1>2, <1>3, <1>4

LEMMA Times ==
    ASSUME NEW a \in Int, NEW b \in Int, NEW S \in Nat \ {0}
    PROVE  /\ S * a \in Int /\ S * (a + 1) = S * a + S
           /\ a <= b => S * a <= S * b
<1>1. S * a \in Int /\ S * (a + 1) = S * a + S
  OBVIOUS
<1>2. a <= b => S * a <= S * b
  BY Z3
<1> QED  BY <1>1, <1>2, Zenon

\* A byte that starts in block a at the latest and ends in block b at the earliest.
LEMMA Order ==
    ASSUME NEW n \in Int, NEW a \in Int, NEW b \in Int, NEW S \in Nat \ {0},
           S * a <= n, n < S * b + S
    PROVE  a <= b
<1>1. SUFFICES ASSUME a > b PROVE FALSE
  OBVIOUS
<1>2. S * (b + 1) <= S * a /\ S * (b + 1) = S * b + S /\ S * a \in Int /\ S * b \in Int
  BY <1>1, Times
<1> QED  BY <1>2

\* A thread between two blocks: the next byte of its range lies in block b1, at its
\* start unless the transfer begins, and the last one in b2, inside the file.
Moving(t) ==
    /\ size[t] \in 1..FileSize /\ size[t] <= call[t].size
    /\ call[t].offset \in Nat /\ call[t].offset + size[t] <= FileSize
    /\ count[t] \in 0..(size[t] - 1)
    /\ b1[t] \in Nat
    /\ SFS_VBLOCK_SIZE * b1[t] <= call[t].offset + count[t]
    /\ call[t].offset + count[t] < SFS_VBLOCK_SIZE * b1[t] + SFS_VBLOCK_SIZE
    /\ count[t] > 0 => call[t].offset + count[t] = SFS_VBLOCK_SIZE * b1[t]

Cells == [0..(SFS_VBLOCK_SIZE - 1) -> Bytes]

TransferInv ==
    /\ block \in [0..LastBlock -> Cells]
    /\ size \in [Users -> Int] /\ b1 \in [Users -> Int] /\ count \in [Users -> Int]
    /\ DOMAIN bat = Users
    /\ \A t \in Users :
        /\ b1[t] \in 0..(LastBlock + 1) /\ count[t] \in -1..FileSize
        /\ file_pc[t] \notin {"block", "store", "end"} => count[t] = 0
        /\ file_pc[t] \in {"block", "store"} => Moving(t)
        /\ file_pc[t] = "store" => bat[t] \in Cells

LEMMA Sizes ==
    ASSUME SFSFileAssumption
    PROVE  /\ SFS_VBLOCK_SIZE \in Nat \ {0} /\ FileSize \in Nat \ {0} /\ LastBlock \in Nat
           /\ FileSize - 1 < SFS_VBLOCK_SIZE * LastBlock + SFS_VBLOCK_SIZE
           /\ SFS_VBLOCK_SIZE * LastBlock <= FileSize - 1
<1>1. FileSize - 1 \in Nat
  BY DEF SFSFileAssumption
<1> QED  BY <1>1, DivMod, Zenon DEF SFSFileAssumption, LastBlock

\* What the transfer of one block does: it stays within block b1, and leaves the
\* thread at the next block or, with all of its bytes moved, at the end.
LEMMA PieceBounds ==
    ASSUME SFSFileAssumption, NEW t \in Users, Moving(t)
    PROVE  /\ b2(t) \in Nat /\ b1[t] <= b2(t) /\ b2(t) <= LastBlock
           /\ Start(t) \in Nat /\ Piece(t) \in Nat \ {0}
           /\ Start(t) + Piece(t) <= SFS_VBLOCK_SIZE
           /\ Piece(t) = SFS_VBLOCK_SIZE => Start(t) = 0
           /\ count[t] + Piece(t) <= size[t]
           /\ b1[t] < b2(t) =>
                /\ count[t] + Piece(t) < size[t]
                /\ call[t].offset + count[t] + Piece(t) = SFS_VBLOCK_SIZE * (b1[t] + 1)
<1> DEFINE S == SFS_VBLOCK_SIZE
           o == call[t].offset
           n == size[t]
           k == count[t]
           b == b1[t]
           e == b2(t)
<1>1. /\ S \in Nat \ {0} /\ LastBlock \in Nat /\ FileSize \in Nat \ {0}
      /\ FileSize - 1 < S * LastBlock + S /\ S * LastBlock <= FileSize - 1
  BY Sizes, Zenon
<1>2. /\ o \in Nat /\ n \in Nat \ {0} /\ k \in Nat /\ b \in Nat /\ k < n /\ o + n <= FileSize
      /\ S * b <= o + k /\ o + k < S * b + S /\ (k > 0 => o + k = S * b)
  BY <1>1 DEF Moving
<1>3. e \in Nat /\ S * e <= o + n - 1 /\ o + n - 1 < S * e + S
  <2>1. o + n - 1 \in Nat /\ e = (o + n - 1) \div S
    BY <1>2 DEF b2
  <2> QED  BY <1>1, <2>1, DivMod, Zenon
<1>4. S * b \in Int /\ S * e \in Int /\ S * LastBlock \in Int /\ S * (b + 1) = S * b + S
  BY <1>1, <1>2, <1>3, Times
<1>5. b <= e
  <2>1. o + n - 1 \in Int /\ S * b <= o + n - 1
    BY <1>1, <1>2, <1>4
  <2> QED  BY <1>1, <1>2, <1>3, <2>1, Order
<1>6. e <= LastBlock
  <2>1. o + n - 1 \in Int /\ o + n - 1 < S * LastBlock + S
    BY <1>1, <1>2, <1>4
  <2> QED  BY <1>1, <1>3, <2>1, Order
<1>7. b < e => S * b + S <= o + n - 1
  <2>1. ASSUME b < e PROVE S * (b + 1) <= S * e
    BY <1>1, <1>2, <1>3, <2>1, Times
  <2> QED  BY <1>1, <1>2, <1>3, <1>4, <2>1
<1>8. b = e => o + n - 1 < S * b + S
  BY <1>3, Zenon
<1>9. k = 0 => Start(t) = o - S * b /\ Start(t) \in 0..(S - 1)
  <2>1. SUFFICES ASSUME k = 0 PROVE Start(t) = o - S * b /\ Start(t) \in 0..(S - 1)
    BY Zenon
  <2>2. /\ Start(t) = o % S /\ o % S = o - S * (o \div S) /\ o % S \in 0..(S - 1)
        /\ o \div S \in Nat /\ S * (o \div S) <= o /\ o < S * (o \div S) + S
    BY <1>1, <1>2, <2>1, DivMod, Zenon DEF Start
  <2>3. S * b <= o /\ o < S * b + S
    BY <1>1, <1>2, <1>4, <2>1
  <2>4. b <= o \div S /\ o \div S <= b
    <3> DEFINE d == o \div S
    <3>1. d \in Int /\ b \in Int /\ o \in Int /\ S * d <= o /\ o < S * d + S
      BY <1>2, <2>2
    <3> HIDE DEF d
    <3>2. b <= d
      BY <1>1, <2>3, <3>1, Order, Zenon
    <3>3. d <= b
      BY <1>1, <2>3, <3>1, Order, Zenon
    <3> QED  BY <3>2, <3>3, Zenon DEF d
  <2>5. b = o \div S
    BY <1>2, <2>2, <2>4
  <2> QED  BY <2>2, <2>5, Zenon
<1>10. k > 0 => Start(t) = 0
  BY <1>2 DEF Start
<1>11. k = 0 => Piece(t) = IF S - Start(t) < n THEN S - Start(t) ELSE n
  BY Zenon DEF Piece, Min
<1>12. k > 0 => Piece(t) = IF b = e THEN n - k ELSE S
  BY <1>2 DEF Piece
<1>13. k = 0 \/ k > 0
  BY <1>2
<1> HIDE DEF S, o, n, k, b, e
<1>14. CASE k = 0
  <2> DEFINE x == S * b
             g == Start(t)
             l == Piece(t)
  <2>1. /\ x \in Int /\ g = o - x /\ g \in 0..(S - 1) /\ l = IF S - g < n THEN S - g ELSE n
        /\ b < e => x + S <= o + n - 1
    BY <1>4, <1>7, <1>9, <1>11, <1>14, Zenon
  <2> HIDE DEF x, g, l
  <2>2. /\ g \in Nat /\ l \in Nat \ {0} /\ g + l <= S /\ (l = S => g = 0) /\ l <= n
        /\ b < e => l < n /\ o + l = x + S
    BY <1>1, <1>2, <2>1
  <2>3. S * (b + 1) = x + S
    BY <1>4, Zenon DEF x
  <2>4. k + l = l /\ o + k + l = o + l
    BY <1>2, <1>14, <2>2
  <2> QED  BY <1>3, <1>5, <1>6, <2>2, <2>3, <2>4, Zenon DEF S, o, n, k, b, e, g, l
<1>15. CASE k > 0
  BY <1>1, <1>2, <1>3, <1>4, <1>5, <1>6, <1>7, <1>8, <1>10, <1>12, <1>15, SMTT(60) DEF S, o, n, k, b, e
<1> QED  BY <1>13, <1>14, <1>15, Zenon
-----------------------------------------------------------------------------
\* What TransferInv says of one thread.
Transfer(t) ==
    /\ b1[t] \in 0..(LastBlock + 1) /\ count[t] \in -1..FileSize
    /\ file_pc[t] \notin {"block", "store", "end"} => count[t] = 0
    /\ file_pc[t] \in {"block", "store"} => Moving(t)
    /\ file_pc[t] = "store" => bat[t] \in Cells

\* A step of t that leaves the locals of the others alone.
LEMMA OthersTransfer ==
    ASSUME TransferInv, NEW t \in Users, Stay(t), Transfer(t)',
           block' \in [0..LastBlock -> Cells],
           size' \in [Users -> Int], b1' \in [Users -> Int], count' \in [Users -> Int],
           DOMAIN bat' = Users,
           \A u \in Users \ {t} : /\ size'[u] = size[u] /\ b1'[u] = b1[u]
                                  /\ count'[u] = count[u] /\ bat'[u] = bat[u]
    PROVE  TransferInv'
<1>1. ASSUME NEW u \in Users \ {t} PROVE Transfer(u)'
  <2>1. Transfer(u)
    BY Zenon DEF TransferInv, Transfer
  <2>2. Moving(u) => Moving(u)'
    BY Zenon DEF Moving, Stay
  <2> QED  BY <2>1, <2>2, Zenon DEF Transfer, Stay, Entered
<1> QED  BY <1>1, Zenon DEF TransferInv, Transfer

LEMMA InitTransfer == ASSUME SFSFileAssumption, FileInit PROVE TransferInv
<1>1. LastBlock \in Nat /\ FileSize \in Nat /\ 0 \in Bytes
  BY Sizes, Zenon DEF SFSFileAssumption
<1> QED  BY <1>1 DEF FileInit, TransferInv, Cells

\* A step that moves t and leaves all locals but call alone.
LEMMA OutsideStep ==
    ASSUME TransferInv, NEW t \in Users, Stay(t), file_pc[t] \notin {"block", "store", "end"},
           file_pc'[t] \notin {"block", "store", "end"},
           UNCHANGED <<block, size, b1, count, bat>>
    PROVE  TransferInv'
<1>1. Transfer(t)'
  BY Zenon DEF TransferInv, Transfer
<1> QED  BY <1>1, OthersTransfer, Zenon DEF TransferInv

LEMMA InodeStep ==
    ASSUME SFSFileAssumption, CallInv, TransferInv, NEW t \in Users, Stay(t), read_inode(t)
    PROVE  TransferInv'
<1> DEFINE c == call[t]
           n == IF c.offset > FileSize THEN -1 ELSE Min(c.size, FileSize - c.offset)
           S == SFS_VBLOCK_SIZE
<1>1. /\ file_pc[t] = "inode" /\ count[t] = 0 /\ c \in Calls[t] /\ c.offset \in Nat /\ c.size \in Nat
      /\ UNCHANGED <<block, call, bat>> /\ size' = [size EXCEPT ![t] = n]
      /\ b1[t] \in 0..(LastBlock + 1)
  BY Zenon DEF read_inode, CallInv, SFSFileAssumption, TransferInv
<1>2. S \in Nat \ {0} /\ FileSize \in Nat \ {0} /\ LastBlock \in Nat
  BY Sizes, Zenon
<1>3. /\ n \in Int /\ n >= -1 /\ n <= FileSize
      /\ n > 0 => n <= c.size /\ c.offset + n <= FileSize
  BY <1>1, <1>2 DEF Min
<1>4. CASE n <= 0
  <2>1. /\ Move(t, "end") /\ count' = [count EXCEPT ![t] = n] /\ UNCHANGED b1
    BY <1>4, Zenon DEF read_inode
  <2> HIDE DEF n, S, c
  <2>2. /\ size' \in [Users -> Int] /\ count' \in [Users -> Int] /\ count'[t] = n
        /\ \A u \in Users \ {t} : size'[u] = size[u] /\ count'[u] = count[u]
    BY <1>1, <1>3, <2>1, Zenon DEF TransferInv
  <2>3. file_pc'[t] = "end"
    BY <2>1, Zenon DEF CallInv, Move
  <2>4. Transfer(t)'
    BY <1>1, <1>2, <1>3, <2>1, <2>2, <2>3 DEF Transfer
  <2> QED  BY <1>1, <2>1, <2>2, <2>4, OthersTransfer, Zenon DEF TransferInv
<1>5. CASE n > 0
  <2>1. /\ Move(t, "block") /\ b1' = [b1 EXCEPT ![t] = c.offset \div S] /\ UNCHANGED count
    BY <1>3, <1>5 DEF read_inode
  <2> DEFINE d == c.offset \div S
  <2>2. d \in Nat /\ S * d <= c.offset /\ c.offset < S * d + S
    BY <1>1, <1>2, DivMod, Zenon
  <2>3. d <= LastBlock
    <3>1. c.offset < S * LastBlock + S /\ c.offset \in Int
      <4>1. c.offset <= FileSize - 1 /\ FileSize - 1 < S * LastBlock + S
        BY <1>1, <1>2, <1>3, <1>5, Sizes
      <4>2. S * LastBlock \in Int
        BY <1>2, Times, SMTT(60)
      <4> QED  BY <1>1, <1>2, <4>1, <4>2, SMTT(60)
    <3> QED  BY <1>2, <2>2, <3>1, Order, SMTT(60)
  <2> HIDE DEF n, S, c, d
  <2>4. /\ size' \in [Users -> Int] /\ b1' \in [Users -> Int] /\ size'[t] = n /\ b1'[t] = d
        /\ \A u \in Users \ {t} : size'[u] = size[u] /\ b1'[u] = b1[u]
    BY <1>1, <1>3, <2>1, <2>2, SMTT(60) DEF TransferInv, d
  <2>5. file_pc'[t] = "block"
    BY <2>1, Zenon DEF CallInv, Move
  <2>6. call'[t] = c /\ count'[t] = 0
    BY <1>1, <2>1, Zenon DEF c
  <2>7. Moving(t)'
    <3>1. c.offset + 0 = c.offset /\ n \in 1..FileSize /\ 0 \in 0..(n - 1)
      BY <1>1, <1>2, <1>3, <1>5, SMTT(60)
    <3> QED
      BY <1>1, <1>3, <1>5, <2>2, <2>4, <2>6, <3>1 DEF Moving, S
  <2>8. Transfer(t)'
    BY <1>2, <2>2, <2>3, <2>4, <2>5, <2>6, <2>7, SMTT(60) DEF Transfer
  <2> QED  BY <1>1, <2>1, <2>4, <2>8, OthersTransfer, Zenon DEF TransferInv
<1> QED  BY <1>3, <1>4, <1>5

\* The end of a block's transfer, in sfs_read and in sfs_write.
LEMMA AdvanceStep ==
    ASSUME SFSFileAssumption, CallInv, TransferInv, NEW t \in Users, Stay(t), Advance(t),
           file_pc[t] \in {"block", "store"}, UNCHANGED <<call, size, bat>>,
           block' \in [0..LastBlock -> Cells]
    PROVE  TransferInv'
<1> DEFINE S == SFS_VBLOCK_SIZE
           o == call[t].offset
           k == count[t] + Piece(t)
           b == b1[t]
<1>1. Moving(t)
  BY Zenon DEF TransferInv
<1>2. /\ b2(t) \in Nat /\ b <= b2(t) /\ b2(t) <= LastBlock /\ k \in Nat \ {0} /\ k <= size[t]
      /\ b < b2(t) => k < size[t] /\ o + k = S * (b + 1)
      /\ b \in Nat /\ o \in Nat /\ size[t] \in 1..FileSize
  <2>1. count[t] \in Nat /\ b \in Nat /\ o \in Nat /\ size[t] \in 1..FileSize
    BY <1>1 DEF Moving
  <2>2. Piece(t) \in Nat \ {0}
    BY <1>1, PieceBounds, Zenon
  <2>3. o + k = o + count[t] + Piece(t)
    BY <2>1, <2>2
  <2>4. /\ b2(t) \in Nat /\ b <= b2(t) /\ b2(t) <= LastBlock /\ k <= size[t]
        /\ b < b2(t) => k < size[t] /\ o + count[t] + Piece(t) = S * (b + 1)
    BY <1>1, PieceBounds, Zenon
  <2> QED  BY <2>1, <2>2, <2>3, <2>4
<1>3. /\ count' = [count EXCEPT ![t] = k] /\ b1' = [b1 EXCEPT ![t] = b + 1]
      /\ Move(t, IF b < b2(t) THEN "block" ELSE "end")
  BY Zenon DEF Advance
<1>4. FileSize \in Nat \ {0} /\ LastBlock \in Nat /\ S \in Nat \ {0}
  BY Sizes, Zenon
<1> HIDE DEF S, o, k, b
<1>5. /\ count' \in [Users -> Int] /\ b1' \in [Users -> Int]
      /\ count'[t] = k /\ b1'[t] = b + 1
      /\ \A u \in Users \ {t} : count'[u] = count[u] /\ b1'[u] = b1[u]
  BY <1>2, <1>3, SMTT(60) DEF TransferInv
<1>6. file_pc'[t] = IF b < b2(t) THEN "block" ELSE "end"
  BY <1>3, Zenon DEF CallInv, Move
<1>7. b + 1 \in 0..(LastBlock + 1) /\ k \in -1..FileSize
  BY <1>2, <1>4, SMTT(60)
<1>8. b < b2(t) => Moving(t)'
  <2>1. SUFFICES ASSUME b < b2(t) PROVE Moving(t)'
    BY Zenon
  <2>2. k \in 0..(size[t] - 1) /\ o + k = S * (b + 1) /\ b + 1 \in Nat
    BY <1>2, <2>1
  <2>3. S * (b + 1) \in Int
    BY <1>4, <2>2, Times
  <2> DEFINE y == S * (b + 1)
  <2>4. y <= o + k /\ o + k < y + S
    <3>1. y \in Int /\ o + k = y
      BY <2>2, <2>3, Zenon
    <3> HIDE DEF y
    <3> QED  BY <1>4, <3>1
  <2> QED  BY <1>1, <1>5, <2>2, <2>4, Zenon DEF Moving, S, o
<1>9. Transfer(t)'
  BY <1>5, <1>6, <1>7, <1>8, Zenon DEF Transfer
<1> QED  BY <1>5, <1>9, OthersTransfer, Zenon DEF TransferInv

LEMMA FillStep ==
    ASSUME SFSFileAssumption, CallInv, TransferInv, NEW t \in Users, Stay(t), fill_block(t)
    PROVE  TransferInv'
<1> DEFINE S == SFS_VBLOCK_SIZE
           old == IF Piece(t) < S THEN block[b1[t]] ELSE bat[t]
           In(i) == Start(t) <= i /\ i < Start(t) + Piece(t)
<1>1. /\ file_pc[t] = "block" /\ call[t].op = "write" /\ Move(t, "store")
      /\ UNCHANGED <<block, call, size, b1, count>>
      /\ bat' = [bat EXCEPT ![t] = [i \in 0..(S - 1) |->
                    IF In(i) THEN call[t].data[count[t] + i - Start(t)] ELSE old[i]]]
  BY Zenon DEF fill_block
<1>2. Moving(t) /\ call[t] \in Calls[t] /\ S \in Nat \ {0} /\ LastBlock \in Nat
  BY <1>1, Sizes, Zenon DEF TransferInv, CallInv
<1>3. /\ Start(t) \in Nat /\ Piece(t) \in Nat /\ Start(t) + Piece(t) <= S
      /\ Piece(t) = S => Start(t) = 0
      /\ count[t] + Piece(t) <= size[t] /\ b1[t] <= LastBlock
  <2>1. b2(t) \in Nat /\ b1[t] <= b2(t) /\ b2(t) <= LastBlock
    BY <1>2, PieceBounds, Zenon
  <2>2. b1[t] <= LastBlock
    BY <1>2, <2>1 DEF Moving
  <2> QED  BY <1>2, <2>2, PieceBounds, Zenon
<1>4. /\ count[t] \in Nat /\ size[t] \in Nat /\ b1[t] \in 0..LastBlock
      /\ call[t].size \in Nat /\ size[t] <= call[t].size
      /\ \A j \in 0..(call[t].size - 1) : call[t].data[j] \in Bytes
  <2>1. /\ call[t].size \in Nat
        /\ \A j \in 0..(call[t].size - 1) : call[t].data[j] \in Bytes
    BY <1>1, <1>2, Zenon DEF SFSFileAssumption
  <2>2. FileSize \in Nat /\ size[t] \in 1..FileSize /\ count[t] \in 0..(size[t] - 1)
    BY <1>2, Sizes, Zenon DEF Moving
  <2> QED  BY <1>2, <1>3, <2>1, <2>2, SMTT(60) DEF Moving
<1>5. ASSUME NEW i \in 0..(S - 1)
      PROVE  (IF In(i) THEN call[t].data[count[t] + i - Start(t)] ELSE old[i]) \in Bytes
  <2>1. CASE In(i)
    <3>1. count[t] + i - Start(t) \in 0..(call[t].size - 1)
      BY <1>2, <1>3, <1>4, <2>1
    <3> QED  BY <1>4, <2>1, <3>1, Zenon
  <2>2. CASE ~In(i)
    <3>1. Piece(t) < S
      BY <1>2, <1>3, <2>2
    <3>2. block[b1[t]] \in Cells
      BY <1>4, Zenon DEF TransferInv
    <3> QED  BY <2>2, <3>1, <3>2, Zenon DEF Cells
  <2> QED  BY <2>1, <2>2, Zenon
<1> HIDE DEF In, old
<1>6. [i \in 0..(S - 1) |->
        IF In(i) THEN call[t].data[count[t] + i - Start(t)] ELSE old[i]] \in Cells
  BY <1>5, Zenon DEF Cells
<1>7. /\ DOMAIN bat' = Users /\ bat'[t] \in Cells
      /\ \A u \in Users \ {t} : bat'[u] = bat[u]
  BY <1>1, <1>6, Zenon DEF TransferInv
<1>8. file_pc'[t] = "store" /\ Moving(t)'
  BY <1>1, <1>2, Zenon DEF CallInv, Move, Moving
<1>9. Transfer(t)'
  BY <1>1, <1>7, <1>8, Zenon DEF TransferInv, Transfer
<1> QED  BY <1>1, <1>7, <1>9, OthersTransfer, Zenon DEF TransferInv

LEMMA ForgetStep ==
    ASSUME SFSFileAssumption, TransferInv, NEW t \in Users, Stay(t), file_pc'[t] = "idle",
           Forget(t), UNCHANGED block
    PROVE  TransferInv'
<1>1. LastBlock \in Nat /\ FileSize \in Nat
  BY Sizes, Zenon
<1>2. /\ size' \in [Users -> Int] /\ b1' \in [Users -> Int] /\ count' \in [Users -> Int]
      /\ DOMAIN bat' = Users /\ b1'[t] = 0 /\ count'[t] = 0
      /\ \A u \in Users \ {t} : /\ size'[u] = size[u] /\ b1'[u] = b1[u]
                                /\ count'[u] = count[u] /\ bat'[u] = bat[u]
  BY SMTT(60) DEF TransferInv, Forget
<1>3. Transfer(t)'
  BY <1>1, <1>2, SMTT(60) DEF Transfer
<1> QED  BY <1>2, <1>3, OthersTransfer, Zenon DEF TransferInv
-----------------------------------------------------------------------------
LEMMA NextTransfer ==
    ASSUME SFSFileAssumption, CallInv, TransferInv, [FileNext]_file_vars
    PROVE  TransferInv'
<1>1. CASE UNCHANGED file_vars
  <2>1. UNCHANGED <<block, file_pc, call, size, b1, count, bat>>
    BY <1>1, Zenon DEF file_vars
  <2> QED  BY <2>1 DEF TransferInv, Moving
<1>2. ASSUME NEW t \in Users, NEW c \in Calls[t], Call(t, c) PROVE TransferInv'
  <2>1. c.op \in {"read", "write"} /\ \A u \in Users \ {t} : call'[u] = call[u]
    BY <1>2, Zenon DEF Call, SFSFileAssumption, CallInv
  <2>2. Stay(t) /\ file_pc'[t] = c.op
    BY <1>2, <2>1, GotoStays, Zenon DEF Call, Points
  <2> QED  BY <1>2, <2>1, <2>2, OutsideStep, Zenon DEF Call
<1>3. ASSUME NEW t \in Users, NEW p \in Points, Move(t, p), UNCHANGED call
      PROVE  Stay(t) /\ file_pc'[t] = p
  BY <1>3, GotoStays, Zenon
<1>4. ASSUME NEW t \in Users, GoOn(t) PROVE TransferInv'
  <2>1. ASSUME read_enter(t) \/ write_enter(t) \/ write_readers(t) PROVE TransferInv'
    <3>1. PICK p \in {"wait_read", "wait_write", "wait_readers", "inode"} : Move(t, p)
      BY <2>1, Zenon DEF read_enter, write_enter, write_readers
    <3>2. /\ UNCHANGED <<block, call, size, b1, count, bat>>
          /\ file_pc[t] \notin {"block", "store", "end"}
      BY <2>1, Zenon DEF read_enter, write_enter, write_readers, locals
    <3>3. Stay(t) /\ file_pc'[t] = p
      BY <1>3, <3>1, <3>2, Zenon DEF Points, Entered, Announced
    <3> QED  BY <3>1, <3>2, <3>3, OutsideStep, Zenon
  <2>2. CASE read_inode(t)
    <3>1. Stay(t)
      BY <1>3, <2>2, Zenon DEF read_inode, Points, Entered
    <3> QED  BY <2>2, <3>1, InodeStep, Zenon
  <2>3. CASE read_block(t)
    <3>1. Stay(t)
      BY <1>3, <2>3, Zenon DEF read_block, Advance, Points, Entered
    <3> QED  BY <2>3, <3>1, AdvanceStep, Zenon DEF read_block, TransferInv
  <2>4. CASE fill_block(t)
    <3>1. Stay(t)
      BY <1>3, <2>4, Zenon DEF fill_block, Points, Entered
    <3> QED  BY <2>4, <3>1, FillStep, Zenon
  <2>5. CASE write_block(t)
    <3>1. Stay(t)
      BY <1>3, <2>5, Zenon DEF write_block, Advance, Points, Entered
    <3>2. block' \in [0..LastBlock -> Cells]
      BY <2>5, Zenon DEF write_block, TransferInv
    <3> QED  BY <2>5, <3>1, <3>2, AdvanceStep, Zenon DEF write_block
  <2>6. ASSUME sfs_end_read(t) \/ sfs_end_write(t) PROVE TransferInv'
    <3>1. /\ Move(t, "idle") \/ Broadcast(t, "idle")
          /\ Forget(t) /\ UNCHANGED block
      BY <2>6, Zenon DEF sfs_end_read, sfs_end_write
    <3>2. \A u \in Users \ {t} : call'[u] = call[u]
      BY <3>1, Zenon DEF Forget, CallInv
    <3>3. Stay(t) /\ file_pc'[t] = "idle"
      BY <3>1, <3>2, GotoStays, Zenon DEF Points
    <3> QED  BY <3>1, <3>3, ForgetStep, Zenon
  <2> QED  BY <1>4, <2>1, <2>2, <2>3, <2>4, <2>5, <2>6, Zenon DEF GoOn
<1> QED  BY <1>1, <1>2, <1>4, ZenonT(40) DEF FileNext, NewCall
-----------------------------------------------------------------------------
\* Nobody has a call on s under way, but for a V that has only slock to release.
Unused(s) == \A a \in Actors : sem[a] = s => pc[a] = "V_unlock"

\* An entry in the hands of semaphore_create or in nobody's holds no debt from
\* its last use: its value is zero, and no call but such a V is under way on it.
FreshInv ==
    /\ \A a \in Actors : pc[a] = "out" <=> sem[a] = NoSem
    /\ \A s \in Semaphores : creator[s] = NoThread => value[s] = 0 /\ Unused(s)
    /\ \A t \in Threads : pc[t] = "create_init" =>
        /\ creator[sem[t]] # NoThread /\ value[sem[t]] = 0
        /\ \A a \in Actors : sem[a] = sem[t] => a = t \/ pc[a] = "V_unlock"
    /\ \A a \in Actors : pc[a] \in {"create_init", "P_locked", "P_unlock", "P_switch"} => a \in Threads

\* The length of the queue is what the value owes.
CountInv ==
    \A s \in Semaphores : Len(queue[s]) = IF value[s] < 0 THEN -value[s] ELSE 0

IInv == TypeOK /\ FreshInv /\ CountInv
-----------------------------------------------------------------------------
LEMMA Numbers ==
    /\ SemCount \in Nat \ {0} /\ Semaphores \subseteq Nat
    /\ 0 \in Semaphores /\ NoSem \notin Semaphores
    /\ \A s \in Semaphores : (s + 1) % SemCount \in Semaphores
  BY SemaphoreAssumption DEF Semaphores, NoSem

LEMMA InitInv == Init => IInv
<1> SUFFICES ASSUME Init PROVE IInv
  BY Zenon
<1>1. TypeOK
  BY Numbers, EmptyQueue DEF Init, TypeOK, SQ!Init, ProgramPoints
<1>2. FreshInv
  <2>1. \A a \in Actors : pc[a] = "out" /\ sem[a] = NoSem
    BY Zenon DEF Init
  <2>2. \A s \in Semaphores : creator[s] = NoThread /\ value[s] = 0 /\ NoSem # s
    BY Numbers, Zenon DEF Init
  <2>3. \A t \in Threads : t \in Actors
    BY Zenon DEF Actors
  <2> QED  BY <2>1, <2>2, <2>3, Zenon DEF FreshInv, Unused
<1>3. CountInv
  BY EmptyQueue DEF Init, SQ!Init, CountInv
<1> QED  BY <1>1, <1>2, <1>3, Zenon DEF IInv

LEMMA CreateStep ==
    ASSUME IInv, NEW t \in Threads, semaphore_create(t)
    PROVE  IInv'
<1>1. PICK s \in Semaphores :
        /\ Found(s)
        /\ creator' = [creator EXCEPT ![s] = t]
        /\ next' = (s + 1) % SemCount
        /\ Goto(t, "create_init", s)
  BY Zenon DEF semaphore_create
<1>2. UNCHANGED <<value, slock, queue, blocked>> /\ t \in Actors
  BY Zenon DEF semaphore_create, Actors
<1>3. TypeOK'
  BY <1>1, <1>2, Numbers, Zenon DEF IInv, TypeOK, Goto, ProgramPoints
<1>4. /\ \A a \in Actors : pc'[a] = (IF a = t THEN "create_init" ELSE pc[a])
      /\ \A a \in Actors : sem'[a] = (IF a = t THEN s ELSE sem[a])
      /\ \A r \in Semaphores : creator'[r] = (IF r = s THEN t ELSE creator[r])
      /\ creator[s] = NoThread /\ t # NoThread
  BY <1>1, <1>2, SemaphoreAssumption, Zenon DEF IInv, TypeOK, Goto, Found
<1>5. FreshInv'
  <2>1. \A a \in Actors : pc'[a] = "out" <=> sem'[a] = NoSem
    BY <1>2, <1>4, Numbers DEF IInv, FreshInv
  <2>2. \A r \in Semaphores : creator'[r] = NoThread => value'[r] = 0 /\ Unused(r)'
    BY <1>2, <1>4, Numbers DEF IInv, FreshInv, Unused
  <2>3. \A u \in Threads : u \in Actors /\ (pc[u] = "create_init" => sem[u] \in Semaphores)
    BY DEF IInv, TypeOK, FreshInv, Actors
  <2>4. ASSUME NEW u \in Threads, pc'[u] = "create_init"
        PROVE  /\ creator'[sem'[u]] # NoThread /\ value'[sem'[u]] = 0
               /\ \A a \in Actors : sem'[a] = sem'[u] => a = u \/ pc'[a] = "V_unlock"
    <3>1. value'[s] = 0 /\ creator'[s] # NoThread /\ Unused(s)
      BY <1>2, <1>4, Zenon DEF IInv, FreshInv
    <3>2. CASE u = t
      <4>1. sem'[u] = s
        BY <1>4, <2>3, <3>2, Zenon
      <4>2. ASSUME NEW a \in Actors, sem'[a] = s PROVE a = u \/ pc'[a] = "V_unlock"
        BY <1>4, <3>1, <3>2, <4>2, Zenon DEF Unused
      <4> QED  BY <3>1, <4>1, <4>2, Zenon
    <3>3. CASE u # t
      <4>1. pc[u] = "create_init" /\ sem'[u] = sem[u] /\ sem[u] \in Semaphores
        BY <1>4, <2>3, <2>4, <3>3, Zenon
      <4>2. /\ creator[sem[u]] # NoThread /\ value[sem[u]] = 0
            /\ \A a \in Actors : sem[a] = sem[u] => a = u \/ pc[a] = "V_unlock"
        BY <4>1, Zenon DEF IInv, FreshInv
      <4>3. sem[u] # s
        BY <1>4, <4>2, Zenon
      <4>4. creator'[sem[u]] # NoThread /\ value'[sem[u]] = 0
        BY <1>2, <1>4, <4>1, <4>2, Zenon
      <4>5. ASSUME NEW a \in Actors, sem'[a] = sem[u] PROVE a = u \/ pc'[a] = "V_unlock"
        BY <1>4, <4>2, <4>3, <4>5, Zenon
      <4> QED  BY <4>1, <4>4, <4>5, Zenon
    <3> QED  BY <3>2, <3>3, Zenon
  <2>5. \A a \in Actors :
          pc'[a] \in {"create_init", "P_locked", "P_unlock", "P_switch"} => a \in Threads
    BY <1>2, <1>4, Zenon DEF IInv, FreshInv
  <2> QED  BY <2>1, <2>2, <2>4, <2>5, Zenon DEF FreshInv
<1>6. CountInv'
  BY <1>2, Zenon DEF IInv, CountInv
<1> QED  BY <1>3, <1>5, <1>6, Zenon DEF IInv

LEMMA CreateInitStep ==
    ASSUME IInv, NEW t \in Threads, NEW v \in Values, semaphore_create_init(t, v)
    PROVE  IInv'
<1>1. /\ t \in Actors /\ v \in Nat /\ sem[t] \in Semaphores /\ pc[t] = "create_init"
      /\ UNCHANGED <<creator, next, queue, blocked>>
  BY SemaphoreAssumption, Zenon DEF IInv, TypeOK, FreshInv, semaphore_create_init, Actors
<1>2. TypeOK'
  BY <1>1 DEF IInv, TypeOK, semaphore_create_init, Goto, ProgramPoints
<1>3. /\ \A a \in Actors : pc'[a] = (IF a = t THEN "out" ELSE pc[a])
      /\ \A a \in Actors : sem'[a] = (IF a = t THEN NoSem ELSE sem[a])
      /\ \A r \in Semaphores : value'[r] = (IF r = sem[t] THEN v ELSE value[r])
  BY <1>1, Zenon DEF IInv, TypeOK, semaphore_create_init, Goto
<1>4. FreshInv'
  <2>1. \A a \in Actors : pc'[a] = "out" <=> sem'[a] = NoSem
    BY <1>1, <1>3, Numbers DEF IInv, FreshInv
  <2>2. \A r \in Semaphores : creator'[r] = NoThread => value'[r] = 0 /\ Unused(r)'
    BY <1>1, <1>3, Numbers DEF IInv, FreshInv, Unused
  <2>3. \A u \in Threads : u \in Actors /\ (pc[u] = "create_init" => sem[u] \in Semaphores)
    BY Zenon DEF IInv, TypeOK, FreshInv, Actors
  <2>4. ASSUME NEW u \in Threads, pc'[u] = "create_init"
        PROVE  /\ creator'[sem'[u]] # NoThread /\ value'[sem'[u]] = 0
               /\ \A a \in Actors : sem'[a] = sem'[u] => a = u \/ pc'[a] = "V_unlock"
    <3>1. u # t /\ pc[u] = "create_init" /\ sem'[u] = sem[u] /\ sem[u] \in Semaphores
      BY <1>1, <1>3, <2>3, <2>4
    <3>2. sem[u] # sem[t]
      BY <1>1, <2>3, <3>1, Zenon DEF IInv, FreshInv
    <3>3. creator'[sem[u]] # NoThread /\ value'[sem[u]] = 0
      BY <1>1, <1>3, <3>1, <3>2, Zenon DEF IInv, FreshInv
    <3>4. \A a \in Actors : sem[a] = sem[u] => a = u \/ pc[a] = "V_unlock"
      BY <3>1, Zenon DEF IInv, FreshInv
    <3>5. ASSUME NEW a \in Actors, sem'[a] = sem[u] PROVE a = u \/ pc'[a] = "V_unlock"
      <4>1. a # t
        BY <1>1, <1>3, <3>1, <3>5, Numbers
      <4> QED  BY <1>3, <3>4, <3>5, <4>1, Zenon
    <3> QED  BY <3>1, <3>3, <3>5, Zenon
  <2>5. \A a \in Actors :
          pc'[a] \in {"create_init", "P_locked", "P_unlock", "P_switch"} => a \in Threads
    BY <1>1, <1>3, Zenon DEF IInv, FreshInv
  <2> QED  BY <2>1, <2>2, <2>4, <2>5, Zenon DEF FreshInv
<1>5. ASSUME NEW r \in Semaphores
      PROVE  Len(queue'[r]) = IF value'[r] < 0 THEN -value'[r] ELSE 0
  <2>1. CASE r = sem[t]
    <3>1. Len(queue[r]) = 0
      BY <1>1, <2>1 DEF IInv, FreshInv, CountInv
    <3> QED  BY <1>1, <1>3, <2>1, <3>1
  <2>2. CASE r # sem[t]
    BY <1>1, <1>3, <2>2, Zenon DEF IInv, CountInv
  <2> QED  BY <2>1, <2>2, Zenon
<1>6. CountInv'
  BY <1>5, Zenon DEF CountInv
<1> QED  BY <1>2, <1>4, <1>6, Zenon DEF IInv

LEMMA DestroyStep ==
    ASSUME IInv, NEW t \in Threads, NEW s \in Semaphores, semaphore_destroy(t, s)
    PROVE  IInv'
<1>1. /\ value[s] = 0 /\ Usable(s) /\ Unused(s)
      /\ creator' = [creator EXCEPT ![s] = NoThread]
      /\ UNCHANGED <<value, slock, next, queue, blocked, pc, sem>>
  BY Zenon DEF semaphore_destroy, Unused
<1>2. TypeOK'
  BY <1>1, Zenon DEF IInv, TypeOK
<1>3. \A r \in Semaphores : creator'[r] = (IF r = s THEN NoThread ELSE creator[r])
  BY <1>1, Zenon DEF IInv, TypeOK
<1>4. \A u \in Threads : u \in Actors /\ (pc[u] = "create_init" => sem[u] \in Semaphores)
  BY DEF IInv, TypeOK, FreshInv, Actors
<1>5. FreshInv'
  BY <1>1, <1>3, <1>4 DEF IInv, FreshInv, Unused, Usable
<1>6. CountInv'
  BY <1>1, Zenon DEF IInv, CountInv
<1> QED  BY <1>2, <1>5, <1>6, Zenon DEF IInv
-----------------------------------------------------------------------------
LEMMA AcquireStep ==
    ASSUME IInv, NEW a \in Actors, NEW s \in Semaphores, NEW p,
           p \in {"V_locked", "P_locked"}, p = "P_locked" => a \in Threads,
           Acquire(a, p, s)
    PROVE  IInv'
<1>1. /\ Usable(s) /\ slock' = [slock EXCEPT ![s] = TRUE]
      /\ UNCHANGED <<creator, value, next, queue, blocked>>
  BY Zenon DEF Acquire
<1>2. TypeOK'
  BY <1>1, Zenon DEF IInv, TypeOK, Acquire, Goto, ProgramPoints, Locked
<1>3. /\ \A b \in Actors : pc'[b] = (IF b = a THEN p ELSE pc[b])
      /\ \A b \in Actors : sem'[b] = (IF b = a THEN s ELSE sem[b])
  BY <1>1, Zenon DEF IInv, TypeOK, Acquire, Goto
<1>4. \A u \in Threads : u \in Actors
  BY Zenon DEF Actors
<1>5. FreshInv'
  BY <1>1, <1>3, <1>4, Numbers DEF IInv, FreshInv, Unused, Usable
<1>6. CountInv'
  BY <1>1, Zenon DEF IInv, CountInv
<1> QED  BY <1>2, <1>5, <1>6, Zenon DEF IInv

\* A step of an actor a inside P or V of semaphore s that leaves the table of
\* creators alone and keeps value and queue in step.
LEMMA InsideStep ==
    ASSUME IInv, TypeOK', CountInv', NEW a \in Actors, NEW p, NEW r, Goto(a, p, r),
           UNCHANGED creator,
           pc[a] \in {"P_locked", "P_unlock", "P_switch", "V_locked", "V_unlock"},
           \A s \in Semaphores : value'[s] # value[s] => s = sem[a] /\ pc[a] # "V_unlock",
           \/ p = "out" /\ r = NoSem
           \/ r = sem[a] /\ p = "V_unlock"
           \/ r = sem[a] /\ p \in {"P_unlock", "P_switch"} /\ a \in Threads
              /\ pc[a] # "V_unlock"
    PROVE  IInv'
<1>1. /\ \A b \in Actors : pc'[b] = (IF b = a THEN p ELSE pc[b])
      /\ \A b \in Actors : sem'[b] = (IF b = a THEN r ELSE sem[b])
  BY Zenon DEF IInv, TypeOK, Goto
<1>2. \A u \in Threads : u \in Actors /\ (pc[u] = "create_init" => sem[u] \in Semaphores)
  BY DEF IInv, TypeOK, FreshInv, Actors
<1>3. sem[a] \in Semaphores /\ pc[a] # "out"
  BY DEF IInv, TypeOK, FreshInv
<1>4. FreshInv'
  <2>1. /\ p = "out" <=> r = NoSem
        /\ r # NoSem => r = sem[a] /\ (pc[a] = "V_unlock" => p = "V_unlock")
        /\ p # "create_init" /\ (p \in {"P_locked", "P_unlock", "P_switch"} => a \in Threads)
    BY <1>3, Numbers, Zenon
  <2>2. \A b \in Actors : pc'[b] = "out" <=> sem'[b] = NoSem
    BY <1>1, <2>1, Zenon DEF IInv, FreshInv
  <2>3. ASSUME NEW s \in Semaphores, creator'[s] = NoThread PROVE value'[s] = 0 /\ Unused(s)'
    <3>1. value[s] = 0 /\ Unused(s)
      BY <2>3, Zenon DEF IInv, FreshInv
    <3>2. sem[a] = s => pc[a] = "V_unlock"
      BY <3>1, Zenon DEF Unused
    <3>3. ASSUME NEW b \in Actors, sem'[b] = s PROVE pc'[b] = "V_unlock"
      <4>1. CASE b = a
        <5>1. r = s /\ r # NoSem
          BY <1>1, <3>3, <4>1, Numbers, Zenon
        <5> QED  BY <1>1, <2>1, <3>2, <4>1, <5>1, Zenon
      <4>2. CASE b # a
        <5>1. pc'[b] = pc[b] /\ sem[b] = s
          BY <1>1, <3>3, <4>2, Zenon
        <5> QED  BY <3>1, <5>1, Zenon DEF Unused
      <4> QED  BY <4>1, <4>2, Zenon
    <3> QED  BY <3>1, <3>2, <3>3, Zenon DEF Unused
  <2>4. ASSUME NEW u \in Threads, pc'[u] = "create_init"
        PROVE  /\ creator'[sem'[u]] # NoThread /\ value'[sem'[u]] = 0
               /\ \A b \in Actors : sem'[b] = sem'[u] => b = u \/ pc'[b] = "V_unlock"
    <3>1. /\ u # a /\ pc[u] = "create_init" /\ sem'[u] = sem[u] /\ sem[u] \in Semaphores
          /\ sem[u] # NoSem
      BY <1>1, <1>2, <2>1, <2>4, Numbers, Zenon
    <3>2. /\ creator[sem[u]] # NoThread /\ value[sem[u]] = 0
          /\ \A b \in Actors : sem[b] = sem[u] => b = u \/ pc[b] = "V_unlock"
      BY <3>1, Zenon DEF IInv, FreshInv
    <3>3. value'[sem[u]] = 0
      BY <3>1, <3>2, Zenon
    <3>4. ASSUME NEW b \in Actors, sem'[b] = sem[u] PROVE b = u \/ pc'[b] = "V_unlock"
      <4>1. CASE b = a
        BY <1>1, <2>1, <3>1, <3>2, <3>4, <4>1, Zenon
      <4>2. CASE b # a
        BY <1>1, <3>2, <3>4, <4>2, Zenon
      <4> QED  BY <4>1, <4>2, Zenon
    <3> QED  BY <3>1, <3>2, <3>3, <3>4, Zenon
  <2>5. \A b \in Actors :
          pc'[b] \in {"create_init", "P_locked", "P_unlock", "P_switch"} => b \in Threads
    BY <1>1, <2>1, Zenon DEF IInv, FreshInv
  <2> QED  BY <2>2, <2>3, <2>4, <2>5, Zenon DEF FreshInv
<1> QED  BY <1>4, Zenon DEF IInv

LEMMA PlowerStep ==
    ASSUME IInv, NEW t \in Threads, P_lower(t)
    PROVE  IInv'
<1> DEFINE s == sem[t]
<1>1. /\ t \in Actors /\ s \in Semaphores /\ pc[t] = "P_locked" /\ value[s] \in Int
      /\ value' = [value EXCEPT ![s] = @ - 1] /\ queue[s] \in Seq(Threads)
      /\ Goto(t, "P_unlock", s) /\ UNCHANGED <<creator, slock, next>>
  BY Zenon DEF IInv, TypeOK, FreshInv, P_lower, Actors
<1>2. /\ value' \in [Semaphores -> Int]
      /\ \A r \in Semaphores : value'[r] = IF r = s THEN value[s] - 1 ELSE value[r]
  BY <1>1 DEF IInv, TypeOK
<1>3. /\ queue' \in [Semaphores -> Seq(Threads)] /\ blocked' \in SUBSET Threads
      /\ CountInv'
  <2>1. CASE value[s] <= 0
    <3>1. queue' = [queue EXCEPT ![s] = Append(@, t)] /\ blocked' = blocked \cup {t}
      BY <1>1, <1>2, <2>1 DEF P_lower, SQ!Sleep
    <3> HIDE DEF s
    <3>2. /\ queue'[s] = Append(queue[s], t)
          /\ \A r \in Semaphores \ {s} : queue'[r] = queue[r]
      BY <1>1, <3>1, Zenon DEF IInv, TypeOK
    <3>3. queue'[s] \in Seq(Threads) /\ Len(queue'[s]) = Len(queue[s]) + 1
      BY <1>1, <3>2, AfterAppend DEF Joined
    <3>4. queue' \in [Semaphores -> Seq(Threads)] /\ blocked' \in SUBSET Threads
      BY <1>1, <3>1, <3>2, <3>3, Zenon DEF IInv, TypeOK
    <3>5. ASSUME NEW r \in Semaphores
          PROVE  Len(queue'[r]) = IF value'[r] < 0 THEN -value'[r] ELSE 0
      <4>1. CASE r = s
        <5>1. Len(queue[s]) = IF value[s] < 0 THEN -value[s] ELSE 0
          BY <1>1, Zenon DEF IInv, CountInv
        <5> QED  BY <1>1, <1>2, <2>1, <3>3, <4>1, <5>1, SMTT(60)
      <4>2. CASE r # s
        BY <1>2, <3>2, <4>2, Zenon DEF IInv, CountInv
      <4> QED  BY <4>1, <4>2, Zenon
    <3>6. CountInv'
      BY <3>5, Zenon DEF CountInv
    <3> QED  BY <3>4, <3>6, ZenonT(40)
  <2>2. CASE value[s] > 0
    <3>1. UNCHANGED <<queue, blocked>>
      BY <1>1, <1>2, <2>2 DEF P_lower
    <3> QED  BY <1>1, <1>2, <2>2, <3>1 DEF IInv, TypeOK, CountInv
  <2> QED  BY <1>1, <2>1, <2>2
<1>4. TypeOK'
  BY <1>1, <1>2, <1>3, Zenon DEF IInv, TypeOK, Goto, ProgramPoints, Locked
<1> QED  BY <1>1, <1>2, <1>3, <1>4, InsideStep, Zenon

LEMMA VraiseStep ==
    ASSUME IInv, NEW a \in Actors, V_raise(a)
    PROVE  IInv'
<1> DEFINE s == sem[a]
<1>1. /\ s \in Semaphores /\ pc[a] = "V_locked" /\ value[s] \in Int
      /\ value' = [value EXCEPT ![s] = @ + 1] /\ queue[s] \in Seq(Threads)
      /\ Goto(a, "V_unlock", s) /\ UNCHANGED <<creator, slock, next>>
  BY DEF IInv, TypeOK, FreshInv, V_raise
<1>2. /\ value' \in [Semaphores -> Int]
      /\ \A r \in Semaphores : value'[r] = IF r = s THEN value[s] + 1 ELSE value[r]
  BY <1>1 DEF IInv, TypeOK
<1>3. queue[s] = <<>> <=> value[s] >= 0
  BY <1>1, EmptyIff DEF IInv, CountInv
<1>4. /\ queue' \in [Semaphores -> Seq(Threads)] /\ blocked' = blocked
      /\ CountInv'
  <2>1. CASE value[s] < 0
    <3>1. queue' = [queue EXCEPT ![s] = Tail(@)] /\ blocked' = blocked
      BY <1>1, <1>2, <1>3, <2>1 DEF V_raise, SQ!Wake
    <3> HIDE DEF s
    <3>2. /\ queue'[s] = Tail(queue[s])
          /\ \A r \in Semaphores \ {s} : queue'[r] = queue[r]
      BY <1>1, <3>1, Zenon DEF IInv, TypeOK
    <3>3. queue'[s] \in Seq(Threads) /\ Len(queue'[s]) = Len(queue[s]) - 1
      BY <1>1, <1>3, <2>1, <3>2, AfterTail, SMTT(60) DEF Left
    <3>4. queue' \in [Semaphores -> Seq(Threads)]
      BY <1>1, <3>1, <3>2, <3>3, Zenon DEF IInv, TypeOK
    <3>5. ASSUME NEW r \in Semaphores
          PROVE  Len(queue'[r]) = IF value'[r] < 0 THEN -value'[r] ELSE 0
      <4>1. CASE r = s
        <5>1. Len(queue[s]) = IF value[s] < 0 THEN -value[s] ELSE 0
          BY <1>1, Zenon DEF IInv, CountInv
        <5> QED  BY <1>1, <1>2, <2>1, <3>3, <4>1, <5>1, SMTT(60)
      <4>2. CASE r # s
        BY <1>2, <3>2, <4>2, Zenon DEF IInv, CountInv
      <4> QED  BY <4>1, <4>2, Zenon
    <3>6. CountInv'
      BY <3>5, Zenon DEF CountInv
    <3> QED  BY <3>1, <3>4, <3>6, Zenon
  <2>2. CASE value[s] >= 0
    <3>1. UNCHANGED <<queue, blocked>>
      BY <1>1, <1>2, <2>2, SMTT(60) DEF V_raise
    <3> QED  BY <1>1, <1>2, <2>2, <3>1, SMTT(60) DEF IInv, TypeOK, CountInv
  <2> QED  BY <1>1, <2>1, <2>2
<1>5. TypeOK'
  BY <1>1, <1>2, <1>4, Zenon DEF IInv, TypeOK, Goto, ProgramPoints, Locked
<1> QED  BY <1>1, <1>2, <1>4, <1>5, InsideStep, Zenon

LEMMA UnlockStep ==
    ASSUME IInv, NEW a \in Actors, (a \in Threads /\ P_unlock(a)) \/ V_unlock(a)
    PROVE  IInv'
<1>1. /\ pc[a] \in {"P_unlock", "V_unlock"} /\ sem[a] \in Semaphores
      /\ slock' = [slock EXCEPT ![sem[a]] = FALSE]
      /\ UNCHANGED <<creator, value, next, queue, blocked>>
      /\ \/ Goto(a, "out", NoSem)
         \/ pc[a] = "P_unlock" /\ Goto(a, "P_switch", sem[a]) /\ a \in Threads
  BY Zenon DEF IInv, TypeOK, FreshInv, P_unlock, V_unlock
<1>2. TypeOK'
  BY <1>1, Zenon DEF IInv, TypeOK, Goto, ProgramPoints
<1>3. CountInv'
  BY <1>1, Zenon DEF IInv, CountInv
<1> QED  BY <1>1, <1>2, <1>3, InsideStep, Zenon

LEMMA ReturnStep ==
    ASSUME IInv, NEW t \in Threads, P_return(t)
    PROVE  IInv'
<1>1. /\ pc[t] = "P_switch" /\ t \in Actors /\ Goto(t, "out", NoSem)
      /\ blocked' = blocked \ {t} /\ UNCHANGED <<creator, value, slock, next, queue>>
  BY Zenon DEF P_return, SQ!Return, Actors
<1>2. TypeOK'
  BY <1>1, Zenon DEF IInv, TypeOK, Goto, ProgramPoints
<1>3. CountInv'
  BY <1>1, Zenon DEF IInv, CountInv
<1> QED  BY <1>1, <1>2, <1>3, InsideStep, Zenon
-----------------------------------------------------------------------------
LEMMA NextInv == IInv /\ [Next]_vars => IInv'
<1> SUFFICES ASSUME IInv, [Next]_vars PROVE IInv'
  BY Zenon
<1>1. CASE UNCHANGED vars
  BY <1>1, Zenon DEF vars, IInv, TypeOK, FreshInv, Unused, CountInv
<1>2. ASSUME NEW t \in Threads, semaphore_create(t) PROVE IInv'
  BY <1>2, CreateStep, Zenon
<1>3. ASSUME NEW t \in Threads, NEW v \in Values, semaphore_create_init(t, v) PROVE IInv'
  BY <1>3, CreateInitStep, Zenon
<1>4. ASSUME NEW t \in Threads, P_lower(t) \/ P_unlock(t) \/ P_return(t) PROVE IInv'
  BY <1>4, PlowerStep, UnlockStep, ReturnStep, Zenon DEF Actors
<1>5. ASSUME NEW t \in Threads, NEW s \in Semaphores, semaphore_destroy(t, s) PROVE IInv'
  BY <1>5, DestroyStep, Zenon
<1>6. ASSUME NEW t \in Threads, NEW s \in Semaphores, semaphore_P(t, s) PROVE IInv'
  BY <1>6, AcquireStep, Zenon DEF semaphore_P, Actors
<1>7. ASSUME NEW a \in Actors, NEW s \in Semaphores, semaphore_V(a, s) PROVE IInv'
  <2>1. Acquire(a, "V_locked", s)
    BY <1>7, Zenon DEF semaphore_V
  <2> QED  BY <2>1, AcquireStep, Zenon
<1>8. ASSUME NEW a \in Actors, V_raise(a) \/ V_unlock(a) PROVE IInv'
  BY <1>8, VraiseStep, UnlockStep, Zenon
<1> QED  BY <1>1, <1>2, <1>3, <1>4, <1>5, <1>6, <1>7, <1>8, Zenon DEF Next

\* The negative value of a semaphore is the number of its sleeping waiters, and
\* semaphore_create never hands out an entry in use, however many threads,
\* handlers, CPUs and semaphores there are.
THEOREM WaitersAreCounted == Spec => []WaitersCounted
<1>1. IInv => WaitersCounted
  BY Zenon DEF IInv, FreshInv, CountInv, WaitersCounted
<1> QED  BY <1>1, InitInv, NextInv, PTL DEF Spec
-----------------------------------------------------------------------------
\* At most one actor at a time works on a semaphore under its spinlock, so that
\* the two statements of P or V in such a section are one step.
Exclusive ==
    \A a, b \in Actors : InCritical(a) /\ InCritical(b) /\ sem[a] = sem[b] => a = b

\* Where semaphores stay: who is in a section holds slock, and nobody at all
\* works on an entry that semaphore_create is about to reset.
HeldInv ==
    /\ IInv /\ Exclusive
    /\ \A a \in Actors : InCritical(a) => slock[sem[a]]
    /\ \A a \in Actors, s \in Semaphores : creator[s] = NoThread => sem[a] # s
    /\ \A t \in Threads, a \in Actors : pc[t] = "create_init" /\ sem[a] = sem[t] => a = t

\* On one CPU: interrupts are off in a section, so nobody else runs.
AloneInv ==
    /\ IInv
    /\ \A a, b \in Actors : InCritical(a) /\ InCritical(b) => a = b

\* What a step does to the places of the actors and to the spinlocks.
Moved(a, p, r) ==
    \A b \in Actors : /\ pc'[b] = IF b = a THEN p ELSE pc[b]
                      /\ sem'[b] = IF b = a THEN r ELSE sem[b]

Places ==
    \/ UNCHANGED <<creator, pc, sem, slock>>
    \/ Temporary # {} /\ UNCHANGED <<pc, sem, slock>>
    \/ \E t \in Threads, s \in Semaphores :
        /\ creator[s] = NoThread /\ creator' = [creator EXCEPT ![s] = t]
        /\ Moved(t, "create_init", s) /\ UNCHANGED slock
    \/ \E t \in Threads :
        /\ pc[t] = "create_init" /\ Moved(t, "out", NoSem)
        /\ slock' = [slock EXCEPT ![sem[t]] = FALSE] /\ UNCHANGED creator
    \/ \E a \in Actors, s \in Semaphores, p \in {"P_locked", "V_locked"} :
        /\ pc[a] = "out" /\ CanRun(a) /\ Usable(s) /\ ~slock[s]
        /\ slock' = [slock EXCEPT ![s] = TRUE]
        /\ Moved(a, p, s) /\ UNCHANGED creator
    \/ \E a \in Actors, p \in {"P_unlock", "V_unlock"} :
        InCritical(a) /\ Moved(a, p, sem[a]) /\ UNCHANGED <<creator, slock>>
    \/ \E a \in Actors, p \in {"P_switch", "out"}, r \in Semaphores \cup {NoSem} :
        /\ InCritical(a) /\ r \in {sem[a], NoSem} /\ Moved(a, p, r)
        /\ slock' = [slock EXCEPT ![sem[a]] = FALSE] /\ UNCHANGED creator
    \/ \E a \in Actors :
        pc[a] = "P_switch" /\ Moved(a, "out", NoSem) /\ UNCHANGED <<creator, slock>>

LEMMA GotoMoves ==
    ASSUME IInv, NEW a \in Actors, NEW p, NEW r, Goto(a, p, r)
    PROVE  Moved(a, p, r)
  BY Zenon DEF IInv, TypeOK, Goto, Moved

LEMMA EveryPlace == ASSUME IInv, [Next]_vars PROVE Places
<1>0. \A t \in Threads : t \in Actors
  BY Zenon DEF Actors
<1>1. CASE UNCHANGED vars
  BY <1>1, Zenon DEF vars, Places
<1>2. ASSUME NEW t \in Threads, semaphore_create(t) PROVE Places
  <2>1. PICK s \in Semaphores : /\ creator[s] = NoThread /\ Goto(t, "create_init", s)
                                /\ creator' = [creator EXCEPT ![s] = t]
    BY <1>2, Zenon DEF semaphore_create, Found
  <2>2. UNCHANGED slock /\ Moved(t, "create_init", s)
    BY <1>0, <1>2, <2>1, GotoMoves, Zenon DEF semaphore_create
  <2> QED  BY <2>1, <2>2, Zenon DEF Places
<1>3. ASSUME NEW t \in Threads, NEW v \in Values, semaphore_create_init(t, v) PROVE Places
  <2>1. Moved(t, "out", NoSem)
    BY <1>0, <1>3, GotoMoves, Zenon DEF semaphore_create_init
  <2> QED  BY <1>3, <2>1, Zenon DEF semaphore_create_init, Places
<1>4. ASSUME NEW t \in Threads, NEW s \in Semaphores, semaphore_destroy(t, s) PROVE Places
  BY <1>4, Zenon DEF semaphore_destroy, Places
<1>5. ASSUME NEW a \in Actors, NEW s \in Semaphores, NEW p \in {"P_locked", "V_locked"},
             Acquire(a, p, s)
      PROVE  Places
  <2>1. Moved(a, p, s)
    BY <1>5, GotoMoves, Zenon DEF Acquire
  <2> QED  BY <1>5, <2>1, Zenon DEF Acquire, Places
<1>6. ASSUME NEW a \in Actors, P_lower(a) \/ V_raise(a) PROVE Places
  <2>1. PICK p \in {"P_unlock", "V_unlock"} : Goto(a, p, sem[a])
    BY <1>6, Zenon DEF P_lower, V_raise
  <2>2. Moved(a, p, sem[a])
    BY <2>1, GotoMoves, Zenon
  <2> QED  BY <1>6, <2>2, Zenon DEF P_lower, V_raise, Places, InCritical, Locked
<1>7. ASSUME NEW a \in Actors, P_unlock(a) \/ V_unlock(a) PROVE Places
  <2>1. PICK p \in {"P_switch", "out"}, r \in {sem[a], NoSem} : Goto(a, p, r)
    BY <1>7, Zenon DEF P_unlock, V_unlock
  <2>2. Moved(a, p, r) /\ r \in Semaphores \cup {NoSem}
    BY <2>1, GotoMoves, Zenon DEF IInv, TypeOK
  <2> QED  BY <1>7, <2>1, <2>2, Zenon DEF P_unlock, V_unlock, Places, InCritical, Locked
<1>8. ASSUME NEW t \in Threads, P_return(t) PROVE Places
  <2>1. Moved(t, "out", NoSem)
    BY <1>0, <1>8, GotoMoves, Zenon DEF P_return
  <2> QED  BY <1>0, <1>8, <2>1, Zenon DEF P_return, Places
<1>9. ASSUME NEW t \in Threads, NEW s \in Semaphores, semaphore_P(t, s) PROVE Places
  BY <1>0, <1>5, <1>9, Zenon DEF semaphore_P
<1>10. ASSUME NEW a \in Actors, NEW s \in Semaphores, semaphore_V(a, s) PROVE Places
  <2>1. Acquire(a, "V_locked", s)
    BY <1>10, Zenon DEF semaphore_V
  <2> QED  BY <1>5, <2>1, Zenon
<1> QED
  BY <1>0, <1>1, <1>2, <1>3, <1>4, <1>6, <1>7, <1>8, <1>9, <1>10, Zenon DEF Next

LEMMA HeldStep == ASSUME Temporary = {}, HeldInv, [Next]_vars PROVE HeldInv'
<1>1. IInv /\ IInv' /\ Places
  BY NextInv, EveryPlace, Zenon DEF HeldInv
<1>2. /\ creator \in [Semaphores -> Threads \cup {NoThread}] /\ NoThread \notin Threads
      /\ slock \in [Semaphores -> BOOLEAN] /\ NoSem \notin Semaphores
      /\ \A t \in Threads : t \in Actors
      /\ \A a \in Actors : pc[a] # "out" => sem[a] \in Semaphores
      /\ \A a \in Actors : pc[a] = "out" => sem[a] = NoSem
  <2>1. NoThread \notin Threads /\ \A t \in Threads : t \in Actors
    BY SemaphoreAssumption, Zenon DEF Actors
  <2>2. /\ \A a \in Actors : pc[a] = "out" <=> sem[a] = NoSem
        /\ sem \in [Actors -> Semaphores \cup {NoSem}]
    BY <1>1, Zenon DEF IInv, TypeOK, FreshInv
  <2> QED  BY <1>1, <2>1, <2>2, Numbers, Zenon DEF IInv, TypeOK
<1>3. ASSUME UNCHANGED <<creator, pc, sem, slock>> PROVE HeldInv'
  BY <1>1, <1>3, ZenonT(40) DEF HeldInv, Exclusive, InCritical
<1>4. ASSUME NEW t \in Threads, NEW s \in Semaphores, creator[s] = NoThread,
             creator' = [creator EXCEPT ![s] = t], Moved(t, "create_init", s), UNCHANGED slock
      PROVE  HeldInv'
  BY <1>1, <1>2, <1>4, SMTT(60) DEF HeldInv, Exclusive, InCritical, Locked, Moved
<1>5. ASSUME NEW t \in Threads, pc[t] = "create_init", Moved(t, "out", NoSem),
             slock' = [slock EXCEPT ![sem[t]] = FALSE], UNCHANGED creator
      PROVE  HeldInv'
  BY <1>1, <1>2, <1>5, SMTT(60) DEF HeldInv, Exclusive, InCritical, Locked, Moved
<1>6. ASSUME NEW a \in Actors, NEW s \in Semaphores, NEW p \in {"P_locked", "V_locked"},
             pc[a] = "out", Usable(s), ~slock[s], slock' = [slock EXCEPT ![s] = TRUE],
             Moved(a, p, s), UNCHANGED creator
      PROVE  HeldInv'
  BY <1>1, <1>2, <1>6, SMTT(60) DEF HeldInv, Exclusive, InCritical, Locked, Moved, Usable
<1>7. ASSUME NEW a \in Actors, NEW p \in {"P_unlock", "V_unlock"}, InCritical(a),
             Moved(a, p, sem[a]), UNCHANGED <<creator, slock>>
      PROVE  HeldInv'
  BY <1>1, <1>2, <1>7, SMTT(60) DEF HeldInv, Exclusive, InCritical, Locked, Moved
<1>8. ASSUME NEW a \in Actors, NEW p \in {"P_switch", "out"}, NEW r \in {sem[a], NoSem},
             InCritical(a), Moved(a, p, r), slock' = [slock EXCEPT ![sem[a]] = FALSE],
             UNCHANGED creator
      PROVE  HeldInv'
  BY <1>1, <1>2, <1>8, SMTT(60) DEF HeldInv, Exclusive, InCritical, Locked, Moved
<1>9. ASSUME NEW a \in Actors, pc[a] = "P_switch", Moved(a, "out", NoSem),
             UNCHANGED <<creator, slock>>
      PROVE  HeldInv'
  BY <1>1, <1>2, <1>9, SMTT(60) DEF HeldInv, Exclusive, InCritical, Locked, Moved
<1> QED  BY <1>1, <1>3, <1>4, <1>5, <1>6, <1>7, <1>8, <1>9, Zenon DEF Places

-----------------------------------------------------------------------------
(* The refinement: the count is the value where that is not negative.      *)

Counts == [s \in Semaphores |-> IF value[s] < 0 THEN 0 ELSE value[s]]

LEMMA InitRefines == Init => Abstract!Init
  BY Zenon DEF Init, SQ!Init, Abstract!Init

\* A step that leaves the queues and the values of all semaphores alone.
LEMMA StutterRefines ==
    ASSUME UNCHANGED <<value, queue>>
    PROVE  UNCHANGED <<Counts, queue>>
  BY Zenon DEF Counts

\* The count of s follows its value, the others stay.
LEMMA CountsSet ==
    ASSUME IInv, NEW s \in Semaphores, value' = [value EXCEPT ![s] = value'[s]]
    PROVE  /\ Counts' = [Counts EXCEPT ![s] = Counts'[s]]
           /\ Counts'[s] = IF value'[s] < 0 THEN 0 ELSE value'[s]
<1>1. \A r \in Semaphores \ {s} : value'[r] = value[r]
  BY Zenon DEF IInv, TypeOK
<1>2. /\ Counts' = [r \in Semaphores |-> Counts'[r]] /\ Counts = [r \in Semaphores |-> Counts[r]]
      /\ \A r \in Semaphores \ {s} : Counts'[r] = Counts[r]
      /\ Counts'[s] = IF value'[s] < 0 THEN 0 ELSE value'[s]
  BY <1>1, Zenon DEF Counts
<1> HIDE DEF Counts
<1> QED  BY <1>2, Zenon

LEMMA CreateRefines ==
    ASSUME IInv, NEW t \in Threads, NEW v \in Values, NEW s \in Semaphores, sem[t] = s,
           semaphore_create_init(t, v)
    PROVE  Abstract!Create(s, v)
<1>1. /\ v \in Nat /\ value[s] = 0 /\ value' = [value EXCEPT ![s] = v] /\ UNCHANGED queue
      /\ value'[s] = v
  BY SemaphoreAssumption, Zenon DEF IInv, TypeOK, FreshInv, semaphore_create_init
<1>2. queue[s] = <<>>
  BY <1>1, EmptyIff, SMTT(60) DEF IInv, TypeOK, CountInv
<1>3. Counts' = [Counts EXCEPT ![s] = v]
  <2>1. /\ Counts' = [Counts EXCEPT ![s] = Counts'[s]]
        /\ Counts'[s] = IF value'[s] < 0 THEN 0 ELSE value'[s]
    BY <1>1, CountsSet, Zenon
  <2>2. Counts'[s] = v
    BY <1>1, <2>1
  <2> QED  BY <2>1, <2>2, Zenon
<1> QED  BY <1>1, <1>2, <1>3, Zenon DEF Abstract!Create, Counts

LEMMA PRefines ==
    ASSUME IInv, NEW t \in Threads, NEW s \in Semaphores, sem[t] = s, P_lower(t)
    PROVE  Abstract!P(t, s)
<1>1. /\ value[s] \in Int /\ value' = [value EXCEPT ![s] = value[s] - 1]
      /\ value'[s] = value[s] - 1
      /\ Counts[s] = IF value[s] < 0 THEN 0 ELSE value[s]
      /\ Counts' = [Counts EXCEPT ![s] = Counts'[s]]
      /\ Counts'[s] = IF value'[s] < 0 THEN 0 ELSE value'[s]
  <2>1. /\ value[s] \in Int /\ value' = [value EXCEPT ![s] = value[s] - 1]
        /\ value'[s] = value[s] - 1
        /\ Counts[s] = IF value[s] < 0 THEN 0 ELSE value[s]
    BY Zenon DEF IInv, TypeOK, P_lower, Counts
  <2> QED  BY <2>1, CountsSet, Zenon
<1>2. CASE value[s] > 0
  <2>1. Counts'[s] = Counts[s] - 1 /\ Counts[s] > 0
    BY <1>1, <1>2, SMTT(60)
  <2>2. UNCHANGED queue
    BY <1>1, <1>2, SMTT(60) DEF P_lower
  <2> QED  BY <1>1, <2>1, <2>2, Zenon DEF Abstract!P, Counts
<1>3. CASE value[s] <= 0
  <2>1. Counts[s] = 0 /\ Counts'[s] = 0
    BY <1>1, <1>3, SMTT(60)
  <2>2. Counts' = Counts
    <3>1. Counts = [r \in Semaphores |-> Counts[r]]
      BY ZenonT(40) DEF Counts
    <3> QED  BY <1>1, <2>1, <3>1, SMTT(60)
  <2>3. queue' = [queue EXCEPT ![s] = Append(@, t)]
    BY <1>1, <1>3 DEF P_lower, SQ!Sleep
  <2> QED  BY <2>1, <2>2, <2>3, SMTT(60) DEF Abstract!P, Counts
<1> QED  BY <1>1, <1>2, <1>3

LEMMA VRefines ==
    ASSUME IInv, NEW a \in Actors, NEW s \in Semaphores, sem[a] = s, V_raise(a)
    PROVE  Abstract!V(s)
<1>1. /\ value[s] \in Int /\ value' = [value EXCEPT ![s] = value[s] + 1]
      /\ value'[s] = value[s] + 1
      /\ Counts[s] = IF value[s] < 0 THEN 0 ELSE value[s]
      /\ Counts' = [Counts EXCEPT ![s] = Counts'[s]]
      /\ Counts'[s] = IF value'[s] < 0 THEN 0 ELSE value'[s]
  <2>1. /\ value[s] \in Int /\ value' = [value EXCEPT ![s] = value[s] + 1]
        /\ value'[s] = value[s] + 1
        /\ Counts[s] = IF value[s] < 0 THEN 0 ELSE value[s]
    BY Zenon DEF IInv, TypeOK, V_raise, Counts
  <2> QED  BY <2>1, CountsSet, Zenon
<1>2. queue[s] = <<>> <=> value[s] >= 0
  BY <1>1, EmptyIff DEF IInv, TypeOK, CountInv
<1>3. CASE value[s] >= 0
  <2>1. Counts'[s] = Counts[s] + 1
    BY <1>1, <1>3
  <2>2. UNCHANGED queue
    BY <1>2, <1>3, ZenonT(40) DEF V_raise
  <2> QED  BY <1>1, <1>2, <1>3, <2>1, <2>2, Zenon DEF Abstract!V, Counts
<1>4. CASE value[s] < 0
  <2>1. Counts[s] = 0 /\ Counts'[s] = 0
    BY <1>1, <1>4, SMTT(60)
  <2>2. Counts' = Counts
    <3>1. Counts = [r \in Semaphores |-> Counts[r]]
      BY ZenonT(40) DEF Counts
    <3> QED  BY <1>1, <2>1, <3>1, SMTT(60)
  <2>3. queue' = [queue EXCEPT ![s] = Tail(@)]
    BY <1>1, <1>2, <1>4, SMTT(60) DEF V_raise, SQ!Wake
  <2> QED  BY <1>1, <1>2, <1>4, <2>2, <2>3, SMTT(60) DEF Abstract!V, Counts
<1> QED  BY <1>1, <1>3, <1>4

LEMMA NextRefines ==
    ASSUME IInv, [Next]_vars
    PROVE  Abstract!Next \/ UNCHANGED <<Counts, queue>>
<1>0. \A a \in Actors : pc[a] # "out" => sem[a] \in Semaphores
  BY Zenon DEF IInv, TypeOK, FreshInv
<1>1. ASSUME NEW t \in Threads, NEW v \in Values, semaphore_create_init(t, v)
      PROVE  Abstract!Next
  <2>1. PICK s \in Semaphores : sem[t] = s
    BY <1>0, <1>1, Zenon DEF semaphore_create_init, Actors
  <2>2. Abstract!Create(s, v)
    BY <1>1, <2>1, CreateRefines, Zenon
  <2> QED  BY <2>2, Zenon DEF Abstract!Next
<1>2. ASSUME NEW t \in Threads, P_lower(t) PROVE Abstract!Next
  <2>1. PICK s \in Semaphores : sem[t] = s
    BY <1>0, <1>2, Zenon DEF P_lower, Actors
  <2>2. Abstract!P(t, s)
    BY <1>2, <2>1, PRefines, Zenon
  <2> QED  BY <2>2, Zenon DEF Abstract!Next
<1>3. ASSUME NEW a \in Actors, V_raise(a) PROVE Abstract!Next
  <2>1. PICK s \in Semaphores : sem[a] = s
    BY <1>0, <1>3, Zenon DEF V_raise
  <2>2. Abstract!V(s)
    BY <1>3, <2>1, VRefines, Zenon
  <2> QED  BY <2>2, Zenon DEF Abstract!Next
<1>4. ASSUME NEW t \in Threads, \/ semaphore_create(t) \/ P_unlock(t) \/ P_return(t)
                                \/ \E s \in Semaphores : semaphore_destroy(t, s) \/ semaphore_P(t, s)
      PROVE  UNCHANGED <<value, queue>>
  BY <1>4, Zenon DEF semaphore_create, P_unlock, P_return, SQ!Return, semaphore_destroy,
              semaphore_P, Acquire
<1>5. ASSUME NEW a \in Actors, V_unlock(a) \/ \E s \in Semaphores : semaphore_V(a, s)
      PROVE  UNCHANGED <<value, queue>>
  BY <1>5, Zenon DEF V_unlock, semaphore_V, Acquire
<1>6. CASE UNCHANGED vars
  BY <1>6, StutterRefines, Zenon DEF vars
<1> QED  BY <1>1, <1>2, <1>3, <1>4, <1>5, <1>6, StutterRefines, Zenon DEF Next

\* semaphore_P and semaphore_V implement a counting semaphore that serves its
\* waiters in the order they came.
THEOREM SemaphoresCount == Spec => ImplementsCountingSemaphore
<1>1. Init => IInv
  BY InitInv, Zenon
<1>2. IInv /\ [Next]_vars => IInv'
  BY NextInv, Zenon
<1>3. IInv /\ [Next]_vars => [Abstract!Next]_<<Counts, queue>>
  BY NextRefines, Zenon
<1> QED
  BY <1>1, <1>2, <1>3, InitRefines, PTL
     DEF Spec, ImplementsCountingSemaphore, Abstract!Spec, Counts
-----------------------------------------------------------------------------
INSTANCE FiniteSetTheorems

LEMMA FiniteInside ==
    ASSUME SFSFileAssumption
    PROVE  IsFiniteSet(Readers)
  BY FS_Subset, ZenonT(40) DEF SFSFileAssumption, Readers, Inside

\* A step of t that neither enters nor leaves the file.
LEMMA KeepStep ==
    ASSUME SFSFileAssumption, ProtocolInv, NEW t \in Users, CallInv',
           \A u \in Users \ {t} :
                /\ u \in Inside("read")' <=> u \in Inside("read")
                /\ u \in Inside("write")' <=> u \in Inside("write"),
           Stay(t), UNCHANGED <<readernum, writer_tid>>,
           t \in Inside("read")' <=> t \in Inside("read"),
           t \in Inside("write")' \/ file_pc'[t] \in Announced
               <=> t \in Inside("write") \/ file_pc[t] \in Announced,
           t \in Inside("write")' => t \in Inside("write") \/ readernum = 0
    PROVE  ProtocolInv'
<1>1. Readers' = Readers
  BY DEF Readers, Inside
<1>2. readernum = 0 <=> Readers = {}
  BY FiniteInside, FS_EmptySet, Zenon DEF ProtocolInv, EntryInv
<1>3. Inside("write")' # {} => Readers = {}
  <2>1. ASSUME NEW u \in Inside("write")' PROVE Readers = {}
    <3>1. u \in Users
      BY Zenon DEF Inside
    <3> QED  BY <1>2, <3>1, Zenon DEF ProtocolInv, EntryInv
  <2> QED  BY <2>1, Zenon
<1>4. \A u \in Users :
        (u = writer_tid) <=> (u \in Inside("write")' \/ file_pc'[u] \in Announced)
  BY Zenon DEF ProtocolInv, EntryInv, Stay
<1> QED  BY <1>1, <1>3, <1>4, ZenonT(40) DEF ProtocolInv, EntryInv
-----------------------------------------------------------------------------
LEMMA InitProtocol == ASSUME SFSFileAssumption, FileInit PROVE ProtocolInv
<1>1. CallInv
  BY Zenon DEF FileInit, CallInv, Points, Announced, Entered
<1>2. Inside("read") = {} /\ Inside("write") = {}
  BY Zenon DEF FileInit, Inside
<1>3. EntryInv
  BY <1>2, FS_EmptySet, ZenonT(40) DEF FileInit, EntryInv, Readers, Announced, SFSFileAssumption
<1> QED  BY <1>1, <1>3, Zenon DEF ProtocolInv

LEMMA CallStep ==
    ASSUME SFSFileAssumption, ProtocolInv, NEW t \in Users, NEW c \in Calls[t], Call(t, c)
    PROVE  ProtocolInv'
<1>1. /\ file_pc[t] = "idle" /\ c.op \in {"read", "write"} /\ Move(t, c.op)
      /\ DOMAIN call' = Users /\ call'[t] = c /\ \A u \in Users \ {t} : call'[u] = call[u]
      /\ UNCHANGED <<readernum, writer_tid>>
  BY Zenon DEF Call, SFSFileAssumption, ProtocolInv, CallInv
<1>2. Stay(t) /\ file_pc'[t] = c.op /\ file_pc' \in [Users -> Points]
  <2>1. c.op \in Points /\ CallInv
    BY <1>1, Zenon DEF Points, ProtocolInv
  <2> QED  BY <1>1, <2>1, GotoStays, Zenon
<1>3. /\ CallInv'
      /\ \A u \in Users \ {t} : /\ u \in Inside("read")' <=> u \in Inside("read")
                                /\ u \in Inside("write")' <=> u \in Inside("write")
  BY <1>1, <1>2, StayInside, Zenon DEF ProtocolInv, Announced
<1> QED  BY <1>1, <1>2, <1>3, KeepStep DEF Inside, Announced

\* A step of t from p to q inside its call that changes neither readernum nor
\* writer_tid.
LEMMA MoveStep ==
    ASSUME SFSFileAssumption, ProtocolInv, NEW t \in Users, NEW q, Move(t, q),
           UNCHANGED <<readernum, writer_tid, call>>,
           \/ file_pc[t] = "read" /\ q = "wait_read"
           \/ file_pc[t] = "write" /\ q = "wait_write"
           \/ file_pc[t] = "readers" /\ q = "wait_readers"
           \/ file_pc[t] = "readers" /\ q = "inode" /\ readernum = 0
           \/ file_pc[t] \in Entered /\ q \in {"block", "end"}
           \/ file_pc[t] \in Entered /\ q = "store" /\ call[t].op = "write"
    PROVE  ProtocolInv'
<1>1. Stay(t) /\ file_pc'[t] = q /\ file_pc' \in [Users -> Points]
  <2>1. q \in Points /\ CallInv
    BY Zenon DEF Points, Entered, Announced, ProtocolInv
  <2> QED  BY <2>1, GotoStays, Zenon
<1>2. /\ file_pc[t] # "idle" /\ call[t] \in Calls[t] /\ DOMAIN call' = Users
      /\ q \in {"read", "wait_read"} => call[t].op = "read"
      /\ q \in Announced \cup {"write", "wait_write", "store"} => call[t].op = "write"
      /\ file_pc[t] = "readers" => call[t].op = "write"
  BY Zenon DEF ProtocolInv, CallInv, Announced, Entered
<1>3. /\ CallInv'
      /\ \A u \in Users \ {t} : /\ u \in Inside("read")' <=> u \in Inside("read")
                                /\ u \in Inside("write")' <=> u \in Inside("write")
  BY <1>1, <1>2, StayInside, Zenon DEF ProtocolInv
<1>4. /\ t \in Inside("read")' <=> t \in Inside("read")
      /\ t \in Inside("write")' \/ file_pc'[t] \in Announced
            <=> t \in Inside("write") \/ file_pc[t] \in Announced
      /\ t \in Inside("write")' => t \in Inside("write") \/ readernum = 0
  BY <1>1, <1>2, Zenon DEF Inside, Announced, Entered
<1> QED  BY <1>1, <1>3, <1>4, KeepStep, Zenon
-----------------------------------------------------------------------------
LEMMA ReadEnterStep ==
    ASSUME SFSFileAssumption, ProtocolInv, NEW t \in Users, read_enter(t)
    PROVE  ProtocolInv'
<1>1. file_pc[t] = "read" /\ UNCHANGED <<writer_tid, call>>
  BY ZenonT(40) DEF read_enter, locals
<1>2. CASE writer_tid # NULL
  BY <1>1, <1>2, MoveStep, ZenonT(40) DEF read_enter
<1>3. CASE writer_tid = NULL
  <2>1. Move(t, "inode") /\ readernum' = readernum + 1
    BY <1>3, Zenon DEF read_enter
  <2>2. Stay(t) /\ file_pc'[t] = "inode" /\ file_pc' \in [Users -> Points]
    BY <1>1, <2>1, GotoStays, Zenon DEF Points, Entered, ProtocolInv
  <2>3. call[t] \in Calls[t] /\ call[t].op = "read" /\ DOMAIN call' = Users
    BY <1>1, ZenonT(40) DEF ProtocolInv, CallInv
  <2>4. /\ CallInv'
      /\ \A u \in Users \ {t} : /\ u \in Inside("read")' <=> u \in Inside("read")
                                /\ u \in Inside("write")' <=> u \in Inside("write")
    BY <1>1, <2>2, <2>3, StayInside, ZenonT(40) DEF ProtocolInv, Announced
  <2>5. Readers' = Readers \cup {t} /\ t \notin Readers
    BY <1>1, <2>2, <2>3, <2>4 DEF Readers, Inside
  <2>6. readernum' = Cardinality(Readers')
    BY <2>1, <2>5, FiniteInside, FS_AddElement, Zenon DEF ProtocolInv, EntryInv
  <2>7. \A u \in Users : ~(u \in Inside("write") \/ file_pc[u] \in Announced)
    BY <1>3, ZenonT(40) DEF ProtocolInv, EntryInv, SFSFileAssumption
  <2>8. \A u \in Users : ~(u \in Inside("write")' \/ file_pc'[u] \in Announced)
    BY <1>1, <2>2, <2>3, <2>4, <2>7 DEF Stay, Inside, Announced
  <2>9. Inside("write")' = {}
    BY <2>8, Zenon DEF Inside
  <2> QED
    BY <1>1, <1>3, <2>4, <2>6, <2>8, <2>9 DEF ProtocolInv, EntryInv, SFSFileAssumption
<1> QED  BY <1>2, <1>3, Zenon

LEMMA WriteEnterStep ==
    ASSUME SFSFileAssumption, ProtocolInv, NEW t \in Users, write_enter(t)
    PROVE  ProtocolInv'
<1>1. file_pc[t] = "write" /\ UNCHANGED <<readernum, call>>
  BY Zenon DEF write_enter, locals
<1>2. CASE writer_tid # NULL
  BY <1>1, <1>2, MoveStep, ZenonT(40) DEF write_enter
<1>3. CASE writer_tid = NULL
  <2>1. PICK q \in {"wait_readers", "inode"} :
          Move(t, q) /\ writer_tid' = t /\ (q = "inode" => ~(readernum > 0))
    BY <1>3, Zenon DEF write_enter
  <2>2. Stay(t) /\ file_pc'[t] = q /\ file_pc' \in [Users -> Points]
    BY <1>1, <2>1, GotoStays, Zenon DEF Points, Entered, Announced, ProtocolInv
  <2>3. call[t] \in Calls[t] /\ call[t].op = "write" /\ DOMAIN call' = Users
    BY <1>1, Zenon DEF ProtocolInv, CallInv
  <2>4. /\ CallInv'
      /\ \A u \in Users \ {t} : /\ u \in Inside("read")' <=> u \in Inside("read")
                                /\ u \in Inside("write")' <=> u \in Inside("write")
    BY <1>1, <2>2, <2>3, StayInside, Zenon DEF ProtocolInv
  <2>5. Readers' = Readers /\ t \notin Readers
    BY <1>1, <2>2, <2>3, <2>4, Zenon DEF Readers, Inside
  <2>6. q = "inode" => Readers = {}
    BY <2>1, FiniteInside, FS_EmptySet, FS_CardinalityType DEF ProtocolInv, EntryInv
  <2>7. \A u \in Users : ~(u \in Inside("write") \/ file_pc[u] \in Announced)
    BY <1>3, Zenon DEF ProtocolInv, EntryInv, SFSFileAssumption
  <2>8. \A u \in Users \ {t} : ~(u \in Inside("write")' \/ file_pc'[u] \in Announced)
    BY <2>2, <2>4, <2>7, Zenon DEF Stay
  <2>9. t \in Inside("write")' \/ file_pc'[t] \in Announced
    BY <1>1, <2>1, <2>2, <2>3, Zenon DEF Inside, Announced
  <2>10. Inside("write")' # {} => q = "inode"
    BY <2>2, <2>8, Zenon DEF Inside
  <2> QED
    BY <1>1, <2>1, <2>4, <2>5, <2>6, <2>8, <2>9, <2>10 DEF ProtocolInv, EntryInv
<1> QED  BY <1>2, <1>3, Zenon

\* The last step of a call, with or without a broadcast.
LEMMA EndStep ==
    ASSUME SFSFileAssumption, ProtocolInv, NEW t \in Users,
           sfs_end_read(t) \/ sfs_end_write(t)
    PROVE  ProtocolInv'
<1>1. /\ file_pc[t] = "end" /\ (Move(t, "idle") \/ Broadcast(t, "idle"))
      /\ call' = [call EXCEPT ![t] = NULL]
  BY ZenonT(40) DEF sfs_end_read, sfs_end_write, Forget
<1>2. Stay(t) /\ file_pc'[t] = "idle" /\ file_pc' \in [Users -> Points]
  <2>1. "idle" \in Points /\ CallInv /\ \A u \in Users \ {t} : call'[u] = call[u]
    BY <1>1, Zenon DEF Points, ProtocolInv, CallInv
  <2> QED  BY <1>1, <2>1, GotoStays
<1>3. DOMAIN call' = Users
  BY <1>1, Zenon DEF ProtocolInv, CallInv
<1>4. /\ CallInv'
      /\ \A u \in Users \ {t} : /\ u \in Inside("read")' <=> u \in Inside("read")
                                /\ u \in Inside("write")' <=> u \in Inside("write")
  BY <1>2, <1>3, StayInside, Zenon DEF ProtocolInv, Announced
<1>5. t \notin Inside("read")' /\ t \notin Inside("write")' /\ file_pc'[t] \notin Announced
  BY <1>2, ZenonT(40) DEF Inside, Announced
<1>6. CASE sfs_end_read(t)
  <2>1. t \in Readers /\ readernum' = readernum - 1 /\ writer_tid' = writer_tid
    BY <1>6, Zenon DEF sfs_end_read, Readers, Inside
  <2>2. Readers' = Readers \ {t}
    BY <1>4, <1>5, Zenon DEF Readers, Inside
  <2>3. readernum' = Cardinality(Readers')
    BY <2>1, <2>2, FiniteInside, FS_RemoveElement, Zenon DEF ProtocolInv, EntryInv
  <2>4. Inside("write") = {}
    BY <2>1, ZenonT(40) DEF ProtocolInv, EntryInv
  <2>5. Inside("write")' = {}
    BY <1>4, <1>5, <2>4 DEF Inside
  <2>6. file_pc[t] \notin Announced
    BY <1>1, ZenonT(40) DEF Announced
  <2>7. \A u \in Users :
          (u = writer_tid') <=> (u \in Inside("write")' \/ file_pc'[u] \in Announced)
    BY <1>2, <1>4, <1>5, <2>1, <2>4, <2>6, ZenonT(40) DEF ProtocolInv, EntryInv, Stay
  <2> QED  BY <1>4, <2>1, <2>3, <2>5, <2>7 DEF ProtocolInv, EntryInv
<1>7. CASE sfs_end_write(t)
  <2>1. t \in Inside("write") /\ readernum' = readernum /\ writer_tid' = NULL
    BY <1>7, Zenon DEF sfs_end_write, Inside
  <2>2. Readers = {} /\ writer_tid = t
    BY <2>1, Zenon DEF ProtocolInv, EntryInv
  <2>3. Readers' = {}
    BY <1>4, <1>5, <2>2, ZenonT(40) DEF Readers, Inside
  <2>4. \A u \in Users : ~(u \in Inside("write")' \/ file_pc'[u] \in Announced)
    BY <1>2, <1>4, <1>5, <2>2 DEF ProtocolInv, EntryInv, Stay
  <2> QED  BY <1>4, <2>1, <2>2, <2>3, <2>4 DEF ProtocolInv, EntryInv, SFSFileAssumption
<1> QED  BY <1>6, <1>7, Zenon

LEMMA NextProtocol == ASSUME SFSFileAssumption, ProtocolInv, [FileNext]_file_vars PROVE ProtocolInv'
<1>1. CASE UNCHANGED file_vars
  <2>1. UNCHANGED <<readernum, writer_tid, file_pc, call>>
    BY <1>1, Zenon DEF file_vars
  <2> QED  BY <2>1 DEF ProtocolInv, CallInv, EntryInv, Readers, Inside
<1>2. CASE NewCall
  BY <1>2, CallStep, ZenonT(40) DEF NewCall
<1>3. ASSUME NEW t \in Users, GoOn(t) PROVE ProtocolInv'
  <2>1. CASE read_enter(t)
    BY <2>1, ReadEnterStep, Zenon
  <2>2. CASE write_enter(t)
    BY <2>2, WriteEnterStep, ZenonT(40)
  <2>3. CASE write_readers(t)
    <3>1. readernum \in Nat
      BY FiniteInside, FS_CardinalityType, Zenon DEF ProtocolInv, EntryInv
    <3> QED  BY <2>3, <3>1, MoveStep DEF write_readers, locals
  <2>4. CASE read_inode(t)
    BY <2>4, MoveStep, Zenon DEF read_inode, Entered
  <2>5. CASE read_block(t)
    BY <2>5, MoveStep, Zenon DEF read_block, Advance, Entered
  <2>6. CASE fill_block(t)
    BY <2>6, MoveStep, Zenon DEF fill_block, Entered
  <2>7. CASE write_block(t)
    BY <2>7, MoveStep, Zenon DEF write_block, Advance, Entered
  <2>8. CASE sfs_end_read(t) \/ sfs_end_write(t)
    BY <2>8, EndStep, Zenon
  <2> QED  BY <1>3, <2>1, <2>2, <2>3, <2>4, <2>5, <2>6, <2>7, <2>8 DEF GoOn
<1> QED  BY <1>1, <1>2, <1>3, ZenonT(40) DEF FileNext

\* readernum and writer_tid count the threads inside sfs_read and sfs_write, no
\* reader is inside with a writer that moves data, and every transfer stays within
\* the blocks of the file, whatever the calls and the sizes of file and block.
THEOREM ReadersAreCounted ==
    ASSUME SFSFileAssumption
    PROVE  FileSpec => []ReadersCounted
<1> DEFINE BothInv == ProtocolInv /\ TransferInv
<1>1. FileInit => BothInv
  BY InitProtocol, InitTransfer, Zenon
<1>2. BothInv /\ [FileNext]_file_vars => BothInv'
  BY NextProtocol, NextTransfer, Zenon DEF ProtocolInv
<1>3. BothInv => ReadersCounted
  <2>1. SUFFICES ASSUME ProtocolInv, TransferInv PROVE ReadersCounted
    BY ZenonT(40)
  <2>2. readernum \in Nat
    BY <2>1, FiniteInside, FS_CardinalityType, SMTT(60) DEF ProtocolInv, EntryInv
  <2>3. FileTypeOK
    BY <2>1, <2>2, ZenonT(40) DEF FileTypeOK, TransferInv, Cells, ProtocolInv, EntryInv
  <2> QED  BY <2>1, <2>3, ZenonT(40) DEF ReadersCounted, ProtocolInv, EntryInv, Readers, Announced
<1> QED  BY <1>1, <1>2, <1>3, PTL DEF FileSpec
-----------------------------------------------------------------------------
LEMMA AloneStep ==
    ASSUME NCPUs = 1, IsFiniteSet(Actors), AloneInv, [Next]_vars
    PROVE  AloneInv'
<1>1. IInv /\ IInv' /\ Places
  BY NextInv, EveryPlace, Zenon DEF AloneInv
<1>2. ASSUME NEW a \in Actors, pc[a] = "out", CanRun(a)
      PROVE  \A b \in Actors : ~InCritical(b)
  <2> DEFINE inside == {b \in Actors : InCritical(b)}
  <2>1. Cardinality(inside) < 1 /\ IsFiniteSet(inside)
    BY <1>2, FS_Subset, Zenon DEF CanRun, InCritical, Locked
  <2>2. Cardinality(inside) = 0
    BY <2>1, FS_CardinalityType
  <2> QED  BY <2>1, <2>2, FS_EmptySet, Zenon
<1>3. ASSUME NEW a \in Actors, NEW p, NEW r, Moved(a, p, r),
             p \notin Locked \/ InCritical(a) \/ \A b \in Actors : ~InCritical(b)
      PROVE  AloneInv'
  BY <1>1, <1>3, Zenon DEF AloneInv, InCritical, Moved
<1>4. CASE UNCHANGED <<pc, sem>>
  BY <1>1, <1>4, Zenon DEF AloneInv, InCritical
<1>5. \A t \in Threads : t \in Actors
  BY Zenon DEF Actors
<1>6. "create_init" \notin Locked /\ "out" \notin Locked /\ "P_switch" \notin Locked
  BY Zenon DEF Locked
<1> QED  BY <1>1, <1>2, <1>3, <1>4, <1>5, <1>6, SMTT(60) DEF Places

\* The sections of P and V under slock exclude each other as long as semaphores
\* are kept, or on one CPU: in both cases nobody is inside when semaphore_create
\* resets slock.  (With several CPUs a V that has still to release the spinlock of
\* a semaphore that was destroyed and created again can release that of another.)
THEOREM SectionsExclude ==
    ASSUME Temporary = {} \/ (NCPUs = 1 /\ IsFiniteSet(Actors))
    PROVE  Spec => []Exclusive
<1>1. Init => HeldInv /\ AloneInv
  <2> SUFFICES ASSUME Init PROVE HeldInv /\ AloneInv
    BY Zenon
  <2>1. IInv /\ \A a \in Actors : pc[a] = "out" /\ sem[a] = NoSem
    BY InitInv, Zenon DEF Init
  <2>2. \A t \in Threads : t \in Actors
    BY Zenon DEF Actors
  <2> QED
    BY <2>1, <2>2, Numbers, Zenon DEF HeldInv, AloneInv, Exclusive, InCritical, Locked
<1>2. CASE Temporary = {}
  <2>1. HeldInv /\ [Next]_vars => HeldInv'
    BY <1>2, HeldStep, Zenon
  <2>2. HeldInv => Exclusive
    BY Zenon DEF HeldInv
  <2> QED  BY <1>1, <2>1, <2>2, PTL DEF Spec
<1>3. CASE NCPUs = 1 /\ IsFiniteSet(Actors)
  <2>1. AloneInv /\ [Next]_vars => AloneInv'
    BY <1>3, AloneStep, Zenon
  <2>2. AloneInv => Exclusive
    BY Zenon DEF AloneInv, Exclusive
  <2> QED  BY <1>1, <2>1, <2>2, PTL DEF Spec
<1> QED  BY <1>2, <1>3, Zenon
=============================================================================
