---------------------------- MODULE SharedState -----------------------------
(***************************************************************************)
(* Four drivers that keep their data in a global variable without a lock,  *)
(* one of them loaded: the buffer of the real device driver ("buffer"),    *)
(* value of the ioctl driver ("ioctl"), dummy_array and the toggle len of  *)
(* the procfs driver ("proc"), and dummy_count, exported by one module and *)
(* counted up in a read of another ("export").                             *)
(*                                                                         *)
(* A user runs one session, a visit of the driver from which it has an     *)
(* answer: a string, the value it has just set, what cat shows, a count.   *)
(* Texts are rows of cells, copied one by one.                             *)
(***************************************************************************)
EXTENDS Naturals, Sequences, FiniteSets

CONSTANTS Users,    \* processes, each with one session
          Cells,    \* size of kernel_buffer and dummy_array
          Greeting, \* a cell of the text they hold at first
          Nul,      \* the end of a string
          MaxReads  \* bound on the texts that one reader of the proc file takes

ASSUME UsersAssumption    == IsFiniteSet(Users)
ASSUME CellsAssumption    == Cells \in Nat \ {0}
ASSUME LettersAssumption  == Greeting # Nul /\ {Greeting, Nul} \cap Users = {}
ASSUME MaxReadsAssumption == MaxReads \in Nat \ {0}

VARIABLES shDriver,   \* the driver that is loaded, or "none"
          memory,     \* kernel_buffer or dummy_array
          ioValue,    \* value
          procLen,    \* len, the toggle
          dummyCount, \* dummy_count
          userAt,     \* where each user is, in the program or in the driver
          userDoes,   \* its session: "write", "read", "call"
          text,       \* what it writes
          got,        \* what it has copied or loaded in this call
          answer,     \* what its session has come to
          party,      \* history: users with a session since the driver was last quiet
          before,     \* history: what the driver held then
          left        \* history: readers of the proc file that left before its end

driverData == <<memory, ioValue, procLen, dummyCount>>
session    == <<userDoes, text, party, before>>
sharedVars == <<shDriver, driverData, userAt, got, answer, session, left>>

Row(len, c) == [i \in 1..len |-> c]
Initially   == Row(Cells - 1, Greeting) \o <<Nul>>

SharedInit == /\ shDriver = "none"
              /\ memory = Initially /\ ioValue = 0 /\ procLen = 1 /\ dummyCount = 0
              /\ userAt = [u \in Users |-> "start"]
              /\ userDoes = [u \in Users |-> "nothing"]
              /\ text = [u \in Users |-> <<>>]
              /\ got = [u \in Users |-> <<>>]
              /\ answer = [u \in Users |-> <<>>]
              /\ party = {} /\ left = {}
              /\ before = [cells |-> memory, len |-> procLen, count |-> dummyCount]

\* What printf("%s") shows of a row of cells.
Shown(row) == IF \E i \in DOMAIN row : row[i] = Nul
              THEN SubSeq(row, 1, (CHOOSE i \in DOMAIN row : row[i] = Nul
                                     /\ \A j \in 1..(i - 1) : row[j] # Nul) - 1)
              ELSE row

-----------------------------------------------------------------------------
SharedLoad == /\ shDriver = "none"
              /\ shDriver' \in {"buffer", "ioctl", "proc", "export"}
              /\ UNCHANGED <<driverData, userAt, got, answer, session, left>>

Active == {u \in Users : userAt[u] \notin {"start", "end"}}

\* u begins a session that does what, and is at label to.
Begin(u, what, to) ==
  /\ userAt[u] = "start"
  /\ userAt' = [userAt EXCEPT ![u] = to]
  /\ userDoes' = [userDoes EXCEPT ![u] = what]
  /\ IF Active = {}
     THEN /\ party' = {u}
          /\ before' = [cells |-> memory, len |-> procLen, count |-> dummyCount]
     ELSE /\ party' = party \cup {u}
          /\ UNCHANGED before
  /\ UNCHANGED <<shDriver, driverData, got, answer, left>>

\* strlen(write_buf) + 1
WithNul(u, len) == Row(len, u) \o <<Nul>>

\* The program of the buffer driver writes a string, echo writes a text.
BeginWrite(u) ==
  \E len \in 1..(Cells - 1) :
    /\ shDriver \in {"buffer", "proc"}
    /\ Begin(u, "write", "copyin")
    /\ text' = [text EXCEPT ![u] = IF shDriver = "buffer" THEN WithNul(u, len) ELSE Row(len, u)]

BeginRead(u) ==
  /\ shDriver \in {"buffer", "proc"}
  /\ Begin(u, "read", IF shDriver = "buffer" THEN "copyout" ELSE "read")
  /\ UNCHANGED text

BeginCall(u) ==
  /\ \/ shDriver = "ioctl"  /\ Begin(u, "ioctl", "wr_value")
     \/ shDriver = "export" /\ Begin(u, "count", "load")
  /\ UNCHANGED text

Step(u, from, to) == /\ userAt[u] = from
                     /\ userAt' = [userAt EXCEPT ![u] = to]
                     /\ UNCHANGED <<shDriver, session>>

-----------------------------------------------------------------------------
(* The buffer, and the text of the proc file.                              *)

\* copy_from_user, of the next cell.
CopyIn(u) ==
  LET i == Len(got[u]) + 1
  IN  /\ Step(u, "copyin", IF i = Len(text[u]) THEN "end" ELSE "copyin")
      /\ memory' = [memory EXCEPT ![i] = text[u][i]]
      /\ got' = [got EXCEPT ![u] = Append(@, text[u][i])]
      /\ UNCHANGED <<ioValue, procLen, dummyCount, answer, left>>

\* copy_to_user, of the next cell, and what the program makes of them all.
CopyOut(u) ==
  LET row == Append(got[u], memory[Len(got[u]) + 1])
  IN  /\ userAt[u] = "copyout"
      /\ \/ /\ Len(row) < Cells
            /\ Step(u, "copyout", "copyout")
            /\ got' = [got EXCEPT ![u] = row]
            /\ UNCHANGED answer
         \/ /\ Len(row) = Cells
            /\ Step(u, "copyout", IF shDriver = "buffer" THEN "end" ELSE "read")
            /\ got' = [got EXCEPT ![u] = <<>>]
            /\ answer' = [answer EXCEPT ![u] = IF shDriver = "buffer" THEN Shown(row)
                                                                      ELSE Append(@, row)]
      /\ UNCHANGED <<driverData, left>>

-----------------------------------------------------------------------------
(* The toggle of the proc file.                                            *)

\* cat reads until it is told of the end.
TestLen(u) == /\ Len(answer[u]) < MaxReads
              /\ Step(u, "read", IF procLen = 1 THEN "clear" ELSE "set")
              /\ UNCHANGED <<driverData, got, answer, left>>

ClearLen(u) == /\ Step(u, "clear", "copyout")
               /\ procLen' = 0
               /\ UNCHANGED <<memory, ioValue, dummyCount, got, answer, left>>

\* Mutant: the toggle stays at the end of the file.
SetLenNever(u) == /\ Step(u, "set", "end")
                  /\ UNCHANGED <<driverData, got, answer, left>>

SetLen(u) == /\ Step(u, "set", "end")
             /\ procLen' = 1
             /\ UNCHANGED <<memory, ioValue, dummyCount, got, answer, left>>

\* A reader that does not ask again: it has enough, or was killed.
Leave(u) == /\ answer[u] # <<>>
            /\ Step(u, "read", "end")
            /\ left' = left \cup {u}
            /\ UNCHANGED <<driverData, got, answer>>

-----------------------------------------------------------------------------
(* The ioctl commands and the exported counter.                            *)

WrValue(u) == /\ Step(u, "wr_value", "rd_value")
              /\ ioValue' = u
              /\ UNCHANGED <<memory, procLen, dummyCount, got, answer, left>>

RdValue(u) == /\ Step(u, "rd_value", "end")
              /\ answer' = [answer EXCEPT ![u] = <<ioValue>>]
              /\ UNCHANGED <<driverData, got, left>>

\* dummy_count++ of dummy_shared_func, and pr_info of dummy_count.
LoadCount(u) == /\ Step(u, "load", "store")
                /\ got' = [got EXCEPT ![u] = <<dummyCount>>]
                /\ UNCHANGED <<driverData, answer, left>>

StoreCount(u) == /\ Step(u, "store", "show")
                 /\ dummyCount' = got[u][1] + 1
                 /\ UNCHANGED <<memory, ioValue, procLen, got, answer, left>>

ShowCount(u) == /\ Step(u, "show", "end")
                /\ answer' = [answer EXCEPT ![u] = <<dummyCount>>]
                /\ UNCHANGED <<driverData, got, left>>

-----------------------------------------------------------------------------
SharedNext == \/ SharedLoad
              \/ \E u \in Users : \/ BeginWrite(u) \/ BeginRead(u) \/ BeginCall(u)
                                  \/ CopyIn(u) \/ CopyOut(u)
                                  \/ TestLen(u) \/ ClearLen(u) \/ SetLen(u) \/ Leave(u)
                                  \/ WrValue(u) \/ RdValue(u)
                                  \/ LoadCount(u) \/ StoreCount(u) \/ ShowCount(u)

SharedSpec == SharedInit /\ [][SharedNext]_sharedVars

-----------------------------------------------------------------------------
\* Every variable stays in its range.
SharedTypeOK ==
  /\ shDriver \in {"none", "buffer", "ioctl", "proc", "export"}
  /\ memory \in Seq(Users \cup {Greeting, Nul}) /\ Len(memory) = Cells
  /\ ioValue \in Users \cup {0}
  /\ procLen \in {0, 1}
  /\ dummyCount \in Nat
  /\ userAt \in [Users -> {"start", "end", "copyin", "copyout", "read", "clear", "set",
                           "wr_value", "rd_value", "load", "store", "show"}]
  /\ \A u \in Users : Len(got[u]) <= Cells /\ Len(answer[u]) <= Cells + MaxReads
  /\ party \subseteq Users /\ left \subseteq Users

-----------------------------------------------------------------------------
(* What sessions that meet do to each other.                               *)

\* Who of the party does what, and what it writes into a cell.
Doing(what) == {u \in party : userDoes[u] = what}
Covering(i) == {u \in Doing("write") : i <= Len(text[u])}
Written(i)  == {text[u][i] : u \in Covering(i)}
MayShow(i)  == Written(i) \cup {before.cells[i]}

\* What the driver holds when it is quiet again.
DataKnown ==
  /\ \A i \in 1..Cells :
       memory[i] \in IF Covering(i) = {} THEN {before.cells[i]} ELSE Written(i)
  /\ IF Doing("read") = {} THEN procLen = before.len
                           ELSE procLen = 1 \/ left \cap party # {}
  /\ IF Doing("count") = {}
     THEN dummyCount = before.count
     ELSE dummyCount \in (before.count + 1)..(before.count + Cardinality(Doing("count")))

\* What a session comes to.
AnswerKnown(u) ==
  CASE userDoes[u] = "write" -> TRUE
    [] userDoes[u] = "read" /\ shDriver = "buffer" ->
         /\ \A i \in 1..Len(answer[u]) : answer[u][i] \in MayShow(i) \ {Nul}
         /\ Len(answer[u]) < Cells => Nul \in MayShow(Len(answer[u]) + 1)
    [] userDoes[u] = "read" /\ shDriver = "proc" ->
         /\ \A k \in 1..Len(answer[u]) : \A i \in 1..Cells : answer[u][k][i] \in MayShow(i)
         /\ party = {u} => Len(answer[u]) = before.len
    [] userDoes[u] = "ioctl" -> \E v \in party : answer[u] = <<v>>
    [] userDoes[u] = "count" ->
         \E n \in (before.count + 1)..(before.count + Cardinality(Doing("count"))) :
           answer[u] = <<n>>

\* Sessions that meet harm each other, but only each other and only so far.
\* Written side by side, a cell keeps what one of those that met has written.
\* Counts are lost, but never all, and none that was counted before.  The toggle
\* of the proc file is back at 1 when all are gone, unless a reader left before
\* its end.  A reader sees no cell but what was there when the driver was last
\* quiet or was written since, a string ends where a Nul may be, the value that
\* ioctl returns is of one that met.  So a session that met no other finds
\* exactly what those before it have left, except that a proc reader is told of
\* the end at once when that is a toggle at 0.
MeetingsKnown == /\ Active = {} => DataKnown
                 /\ \A u \in party : userAt[u] = "end" => AnswerKnown(u)
=============================================================================
