------------------------------ MODULE ReadIOBuf ------------------------------
(* Reading the log of several cores (processes/read_iobuf_process.py): every   *)
(* core keeps its log in a chain of blocks in memory; the process finds the    *)
(* head of each chain, and then reads in rounds the start of a block with its  *)
(* header, and the tails of the blocks that one read cannot bring.             *)
(* The cores go on printing. The replies of a round come in any order, while   *)
(* the round is being sent or after it (SCPPipeline: each once, its own).      *)
(* The k-th byte a core prints has the value k; 0 is a byte never filled in.   *)
EXTENDS Integers, FiniteSets, SequencesExt

CONSTANTS
    Cores,       \* the core_subsets to read
    BlockSize,   \* iobuf_size: the bytes of log a block holds
    HeaderSize,  \* the header in front of them, 16 in the code
    ReadSize,    \* UDP_MESSAGE_MAX_SIZE, the most a single read brings
    MaxPrinted   \* bound: the bytes that a core prints

ASSUME SizeAssumption ==
    /\ BlockSize \in Nat \ {0} /\ HeaderSize \in Nat \ {0}
    /\ ReadSize \in Nat /\ ReadSize > HeaderSize
    /\ MaxPrinted \in Nat

VARIABLES
    printed,      \* the bytes each core has printed
    pc,           \* where read_iobuf is
    next_reads,   \* blocks whose start is to be read
    extra_reads,  \* tails of blocks to be read
    asked,        \* requests sent and not answered yet
    iobuf,        \* the blocks of each core, in the order they were put in
    errors,       \* has a request failed?
    started       \* history: what each core had printed when the call began

vars == <<printed, pc, next_reads, extra_reads, asked, iobuf, errors, started>>

Addresses == [kind : {"address"}, core : Cores]
Regions == [kind : {"region"}, core : Cores, n : Nat]
Tails == [kind : {"tail"}, core : Cores, n : Nat, offset : Nat, size : Nat]

TypeOK ==
    /\ printed \in [Cores -> 0..MaxPrinted]
    /\ pc \in {"addresses", "extras", "nexts", "finish", "done", "raised"}
    /\ \A r \in next_reads : r \in Regions
    /\ \A r \in extra_reads : r \in Tails
    /\ \A r \in asked : r \in Addresses \/ r \in Regions \/ r \in Tails
    /\ \A c \in Cores : \A i \in DOMAIN iobuf[c] :
         iobuf[c][i].n \in Nat /\ Len(iobuf[c][i].data) <= BlockSize
    /\ errors \in BOOLEAN
    /\ started \in [Cores -> 0..MaxPrinted]

Init ==
    /\ printed \in [Cores -> 0..MaxPrinted]
    /\ started = printed
    /\ pc = "addresses"
    /\ next_reads = {} /\ extra_reads = {}
    /\ asked = [kind : {"address"}, core : Cores]
    /\ iobuf = [c \in Cores |-> <<>>]
    /\ errors = FALSE

-----------------------------------------------------------------------------
(* The memory of the cores.                                                    *)

\* block n exists once something was printed into it; its predecessor then holds
\* its address
Exists(core, n) == printed[core] > n * BlockSize
InBlock(core, n) == Min({BlockSize, printed[core] - n * BlockSize})
ByteAt(core, n, i) == n * BlockSize + i

PrintByte(core) ==
    /\ printed[core] < MaxPrinted
    /\ printed' = [printed EXCEPT ![core] = @ + 1]
    /\ UNCHANGED <<pc, next_reads, extra_reads, asked, iobuf, errors, started>>

-----------------------------------------------------------------------------
(* Replies                                                                     *)

FirstRead == Min({BlockSize + HeaderSize, ReadSize})

\* __handle_iobuf_address_response: a null address means there is no log
HandleAddress(r) ==
    /\ next_reads' = IF Exists(r.core, 0)
                     THEN next_reads \cup
                          {[kind |-> "region", core |-> r.core, n |-> 0]}
                     ELSE next_reads
    /\ UNCHANGED <<extra_reads, iobuf>>

\* Mutant of TailsOf: the last tail is a full message too.
FullTailsOf(r, got, bytes) ==
    {[kind |-> "tail", core |-> r.core, n |-> r.n, offset |-> o, size |-> ReadSize] :
         o \in {k \in got..(bytes - 1) : (k - got) % ReadSize = 0}}

\* the tails of a block of which the first read brought only got bytes
TailsOf(r, got, bytes) ==
    {[kind |-> "tail", core |-> r.core, n |-> r.n, offset |-> o,
      size |-> Min({ReadSize, bytes - o})] :
         o \in {k \in got..(bytes - 1) : (k - got) % ReadSize = 0}}

\* __handle_first_iobuf_response: make the buffer as long as the header says, fill
\* in what came with it, and note what is left to read of this block and the next
HandleRegion(r) ==
    LET bytes == InBlock(r.core, r.n)
        got == Min({FirstRead - HeaderSize, bytes})
    IN  /\ iobuf' = [iobuf EXCEPT ![r.core] = Append(@,
              [n |-> r.n, data |-> [i \in 1..bytes |->
                  IF i <= got THEN ByteAt(r.core, r.n, i) ELSE 0]])]
        /\ extra_reads' = extra_reads \cup TailsOf(r, got, bytes)
        /\ next_reads' = IF Exists(r.core, r.n + 1)
                         THEN next_reads \cup {[r EXCEPT !.n = @ + 1]}
                         ELSE next_reads

\* __handle_extra_iobuf_response: fill in a tail
HandleTail(r) ==
    LET log == iobuf[r.core]
        Filled(data) == [i \in DOMAIN data |->
            IF i \in r.offset + 1..r.offset + r.size
            THEN ByteAt(r.core, r.n, i) ELSE data[i]]
    IN  /\ iobuf' = [iobuf EXCEPT ![r.core] = [b \in DOMAIN log |->
              IF log[b].n = r.n
              THEN [n |-> r.n, data |-> Filled(log[b].data)]
              ELSE log[b]]]
        /\ UNCHANGED <<next_reads, extra_reads>>

\* a request of the round is answered, or given up by the pipeline
Receive(r) ==
    /\ r \in asked
    /\ asked' = asked \ {r}
    /\ \/ /\ CASE r.kind = "address" -> HandleAddress(r)
               [] r.kind = "region"  -> HandleRegion(r)
               [] r.kind = "tail"    -> HandleTail(r)
          /\ UNCHANGED errors
       \/ /\ errors' = TRUE
          /\ UNCHANGED <<next_reads, extra_reads, iobuf>>
    /\ UNCHANGED <<printed, pc, started>>

-----------------------------------------------------------------------------
(* read_iobuf                                                                  *)

\* the addresses are sent in Init; a round sends the tails, then the regions,
\* those included that replies add meanwhile
SendExtra(r) ==
    /\ pc = "extras"
    /\ r \in extra_reads
    /\ extra_reads' = extra_reads \ {r}
    /\ asked' = asked \cup {r}
    /\ UNCHANGED <<printed, pc, next_reads, iobuf, errors, started>>

\* Mutant of SendNext: the region stays in the list.
SendNextKept(r) ==
    /\ pc = "nexts"
    /\ r \in next_reads
    /\ asked' = asked \cup {r}
    /\ UNCHANGED <<printed, pc, next_reads, extra_reads, iobuf, errors, started>>

SendNext(r) ==
    /\ pc = "nexts"
    /\ r \in next_reads
    /\ next_reads' = next_reads \ {r}
    /\ asked' = asked \cup {r}
    /\ UNCHANGED <<printed, pc, extra_reads, iobuf, errors, started>>

Sent ==
    /\ \/ pc = "addresses" /\ pc' = "finish"
       \/ pc = "extras" /\ extra_reads = {} /\ pc' = "nexts"
       \/ pc = "nexts" /\ next_reads = {} /\ pc' = "finish"
    /\ UNCHANGED <<printed, next_reads, extra_reads, asked, iobuf, errors, started>>

\* Mutant of EndRound: the errors of the round are not looked at.
EndRoundUnchecked ==
    /\ pc = "finish" /\ asked = {}
    /\ pc' = IF extra_reads \cup next_reads = {} THEN "done" ELSE "extras"
    /\ UNCHANGED <<printed, next_reads, extra_reads, asked, iobuf, errors, started>>

\* the end of _collect_responses and the test of the outer loop
EndRound ==
    /\ pc = "finish" /\ asked = {}
    /\ pc' = CASE errors                            -> "raised"
               [] extra_reads \cup next_reads # {} -> "extras"
               [] OTHER                             -> "done"
    /\ UNCHANGED <<printed, next_reads, extra_reads, asked, iobuf, errors, started>>

Reader ==
    \/ \E r \in asked : Receive(r)
    \/ \E r \in extra_reads : SendExtra(r)
    \/ \E r \in next_reads : SendNext(r)
    \/ Sent
    \/ EndRound

Next == Reader \/ \E c \in Cores : PrintByte(c)

Spec == Init /\ [][Next]_vars

\* every request is answered or given up (WorkEnds of SCPPipeline)
FairSpec == Spec /\ WF_vars(Reader)

-----------------------------------------------------------------------------
(* Properties                                                                  *)

Text(core) == FlattenSeq([i \in DOMAIN iobuf[core] |-> iobuf[core][i].data])

\* The text that is returned for a core is what the core had printed at one moment
\* of the call: nothing is missing, repeated, out of place or left blank, although
\* the log grows and the replies of all cores come in any order (read_iobuf).
TextIsSnapshot ==
    pc = "done" =>
        \A c \in Cores : \E k \in started[c]..printed[c] :
            Text(c) = [i \in 1..k |-> i]

\* Types, and: blocks are put into the dictionary of a core in the order of the
\* chain, which is the order their texts are joined in; a tail finds the block it
\* belongs to and stays inside it.
WellFormed ==
    /\ TypeOK
    /\ \A c \in Cores : \A i \in DOMAIN iobuf[c] : iobuf[c][i].n = i - 1
    /\ \A r \in extra_reads \cup {t \in asked : t.kind = "tail"} :
         /\ r.n + 1 \in DOMAIN iobuf[r.core]
         /\ r.offset + r.size <= Len(iobuf[r.core][r.n + 1].data)

\* The call ends, once the cores stop printing (the outer loop of read_iobuf).
ReadEnds == <>(pc \in {"done", "raised"})
=============================================================================
