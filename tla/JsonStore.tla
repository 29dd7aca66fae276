----------------------------- MODULE JsonStore -----------------------------
(***************************************************************************)
(* The JSON files of watchlist.py, portfolio.py and alerts.py.  The three  *)
(* modules share one protocol: under a lock of the process, read the whole *)
(* file, write the changed whole to <file>.json.tmp, rename that over the  *)
(* file.  The server and the CLI run it against the same two names, each   *)
(* under a lock of its own.  A process holds its lock through an operation *)
(* and so runs one at a time, whatever its threads.  The save of a copy    *)
(* that was loaded in an earlier call, which alerts.py makes of the        *)
(* poller's, is modelled in AlertEngine.                                   *)
(***************************************************************************)
EXTENDS Integers, FiniteSets

CONSTANTS
    Proc,       \* processes: the server, the CLI
    Key,        \* tickers or alert ids
    Value,      \* what the file keeps for a key
    Missing     \* no entry

ASSUME JsonAssumption == Missing \notin Value /\ IsFiniteSet(Proc)

\* At most one file per process is open, besides the ones the names refer to.
NoFile == 0
File == 1 .. Cardinality(Proc) + 2

VARIABLES
    path,       \* the file that <name>.json refers to, or NoFile
    tmp,        \* the file that <name>.json.tmp refers to, or NoFile
    content,    \* what each file holds
    op,         \* op[p]: the operation p runs under its lock
    answer,     \* observed: what the latest operation returned
    calm        \* observed: no operations of two processes overlapped so far

vars == <<path, tmp, content, op, answer, calm>>

Map == [Key -> Value \cup {Missing}]
Empty == [k \in Key |-> Missing]

\* Truncated, or a mixture of two writes: json.loads raises.
Torn == [whole |-> FALSE, map |-> Empty]
Whole(m) == [whole |-> TRUE, map |-> m]

NoOp == [pc |-> "idle", next |-> Empty, file |-> NoFile]

Init ==
    /\ path = NoFile /\ tmp = NoFile
    /\ content = [f \in File |-> Torn]
    /\ op = [p \in Proc |-> NoOp]
    /\ answer = Empty
    /\ calm = TRUE

\* What a reader makes of the file: nothing there and nothing parseable are
\* both an empty map.
Parsed ==
    IF path # NoFile /\ content[path].whole THEN content[path].map ELSE Empty

Busy(p) == op[p].pc # "idle"

-----------------------------------------------------------------------------
(* The operations.                                                         *)

\* The maps an operation may write, given what it read: add or replace a key,
\* remove one, or change one that is there.
Results(m) ==
    {[m EXCEPT ![k] = v] : k \in Key, v \in Value \cup {Missing}}

\* The lock is taken and the file read; update_holding of a missing key ends
\* here, with None and no write.
Begin(p) ==
    /\ ~Busy(p)
    /\ \E next \in Results(Parsed) :
          op' = [op EXCEPT ![p] = [pc |-> "open", next |-> next, file |-> NoFile]]
    /\ calm' = (calm /\ \A q \in Proc \ {p} : ~Busy(q))
    /\ UNCHANGED <<path, tmp, content, answer>>

\* load_*, list_*
Read(p) ==
    /\ ~Busy(p)
    /\ answer' = Parsed
    /\ UNCHANGED <<path, tmp, content, op, calm>>

InUse == {path, tmp} \cup {op[q].file : q \in Proc}

\* A file that is created: the least one not in use.
IsFresh(f) == f \notin InUse /\ \A g \in File \ InUse : f <= g

\* Mutant: the file itself is opened for writing, without a temporary one.
OpensPath(f) ==
    /\ IF path # NoFile THEN f = path ELSE IsFresh(f)
    /\ tmp' = f

\* write_text opens the temporary name: an existing file is truncated, even
\* one that another process has open.
OpensTmp(f) ==
    /\ IF tmp # NoFile THEN f = tmp ELSE IsFresh(f)
    /\ tmp' = f

Open(p) ==
    /\ op[p].pc = "open"
    /\ \E f \in File :
          /\ OpensTmp(f)
          /\ content' = [content EXCEPT ![f] = Torn]
          /\ op' = [op EXCEPT ![p].pc = "write", ![p].file = f]
    /\ UNCHANGED <<path, answer, calm>>

\* The data is written.  Over data that another process wrote since the open,
\* what comes out depends on the lengths of the two.
Write(p) ==
    /\ op[p].pc = "write"
    /\ \E c \in {Whole(op[p].next)} \cup (IF content[op[p].file].whole THEN {Torn} ELSE {}) :
          content' = [content EXCEPT ![op[p].file] = c]
    /\ op' = [op EXCEPT ![p].pc = "replace", ![p].file = NoFile]
    /\ UNCHANGED <<path, tmp, answer, calm>>

\* os.replace moves whatever the temporary name refers to by now; the result
\* is returned and the lock released.
Replace(p) ==
    /\ op[p].pc = "replace"
    /\ tmp # NoFile
    /\ path' = tmp
    /\ tmp' = NoFile
    /\ answer' = op[p].next
    /\ op' = [op EXCEPT ![p] = NoOp]
    /\ UNCHANGED <<content, calm>>

\* The operation raises or its process dies: a full disk, a kill, or a
\* temporary file that another process has moved away.
Fail(p) ==
    /\ Busy(p)
    /\ op' = [op EXCEPT ![p] = NoOp]
    /\ UNCHANGED <<path, tmp, content, answer, calm>>

Next == \E p \in Proc :
    Begin(p) \/ Read(p) \/ Open(p) \/ Write(p) \/ Replace(p) \/ Fail(p)

Spec == Init /\ [][Next]_vars

-----------------------------------------------------------------------------
(* Properties.                                                             *)

\* The state is well typed, and the temporary name is never that of the file.
TypeOK ==
    /\ path \in File \cup {NoFile} /\ tmp \in File \cup {NoFile}
    /\ path = tmp => path = NoFile
    /\ content \in [File -> [whole : BOOLEAN, map : Map]]
    /\ op \in [Proc -> [pc : {"idle", "open", "write", "replace"}, next : Map,
                        file : File \cup {NoFile}]]
    /\ answer \in Map
    /\ calm \in BOOLEAN

\* Until operations of two processes overlap, the file is a map that changes in
\* one step: no crash, failed write or concurrent reader sees less than the
\* whole of an operation, and each operation answers with the map it left.
Promised == INSTANCE AtomicMap WITH items <- Parsed
ImplementsAtomicMap == Promised!Spec
=============================================================================
