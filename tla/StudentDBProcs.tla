--------------------------- MODULE StudentDBProcs ---------------------------
(***************************************************************************)
(* sdbsc one system call at a time.  Several processes run the program on  *)
(* the same directory; each is a loop of "start a command, make its system *)
(* calls, print, exit".  Between two calls any other process may run, and  *)
(* a process may be killed; a call may fail as long as MaxFaults allows.   *)
(*                                                                         *)
(* The kernel side is small: the two names student.db and .tmp_student.db  *)
(* refer to inodes, an open file keeps its inode and its offset whatever   *)
(* happens to the names, and an inode nothing refers to is free.  Reading  *)
(* and writing one 64-byte record at a multiple of 64 is one step: such a  *)
(* record never straddles a page, so it is transferred whole or not at all.*)
(***************************************************************************)
EXTENDS StudentReply

CONSTANTS Procs,          \* the processes (shells that run sdbsc)
          Inodes,         \* inode numbers, a set of positive integers
          Menu,           \* Menu[p]: the commands process p runs
          InitialFiles,   \* what student.db may hold at the start
          Alone,          \* options users run only while no other command runs
          MaxFaults,      \* bound on the system calls that fail
          MaxCrashes      \* bound on the processes that are killed

NoInode == 0

ASSUME ProcsAssumption ==
    /\ Inodes \subseteq Nat \ {NoInode}
    /\ MaxFaults \in Nat /\ MaxCrashes \in Nat
    /\ \A f \in InitialFiles : IsFile(f)

VARIABLES
    content,    \* content[i]: the slots of inode i
    db, tmp,    \* the inodes named DB_FILE and TMP_DB_FILE, or NoInode
    pc,         \* pc[p]: the system call p makes next
    cmd,        \* cmd[p]: its option letter and arguments
    fd,         \* fd[p]: fd of main, its inode and its offset in slots
    tfd,        \* tfd[p]: temp_fd of compress_db
    student,    \* student[p]: the record compress_db has just read
    tally,      \* tally[p]: the used records count_db_records or print_db met
    reply,      \* reply[p]: the message and exit code on their way
    out,        \* the last answer a command came to, until its process is gone
    faults, crashes

kernel == <<content, db, tmp>>
local == <<pc, cmd, fd, tfd, student, tally, reply>>
vars == <<kernel, local, out, faults, crashes>>

Closed == [ino |-> NoInode, off |-> 0]
NoCmd == [op |-> "none", id |-> 0, gpa |-> 0]

Calls == {"idle", "open", "scan", "write", "read", "opentmp", "copyread",
          "copywrite", "rename", "reopen", "truncate", "exit"}

Init ==
    /\ \E f \in InitialFiles :
          \/ /\ f = EmptyFile /\ db = NoInode
             /\ content = [i \in Inodes |-> EmptyFile]
          \/ /\ db \in Inodes /\ \A i \in Inodes : db <= i
             /\ content = [i \in Inodes |-> IF i = db THEN f ELSE EmptyFile]
    /\ tmp = NoInode
    /\ pc = [p \in Procs |-> "idle"]
    /\ cmd = [p \in Procs |-> NoCmd]
    /\ fd = [p \in Procs |-> Closed]
    /\ tfd = [p \in Procs |-> Closed]
    /\ student = [p \in Procs |-> EMPTY]
    /\ tally = [p \in Procs |-> EmptyFile]
    /\ reply = [p \in Procs |-> Killed]
    /\ out = Killed
    /\ faults = 0 /\ crashes = 0

----------------------------------------------------------------------------
(* The file system *)

Referenced == {db, tmp} \cup {fd[p].ino : p \in Procs} \cup {tfd[p].ino : p \in Procs}

NoSpace == Inodes \subseteq Referenced

\* The inode a new file gets.
FreshInode == CHOOSE i \in Inodes \ Referenced : \A j \in Inodes \ Referenced : i <= j

\* The space of an inode that lost its last name and its last open file is
\* given back.  Conjoined after the other primed variables are known.
Store(c) ==
    content' = [i \in Inodes |-> IF i \in Referenced' THEN c[i] ELSE EmptyFile]

FileOf(p) == content[fd[p].ino]

\* The call p makes next fails.
Fails == faults < MaxFaults /\ faults' = faults + 1
Works == UNCHANGED faults

Goto(p, l) == pc' = [pc EXCEPT ![p] = l]

\* The command has its answer and leaves the switch of main.
Answer(p, r) ==
    /\ reply' = [reply EXCEPT ![p] = r]
    /\ out' = r
    /\ Goto(p, "exit")

\* The command goes on with call l.
Proceed(p, l) == Goto(p, l) /\ UNCHANGED <<reply, out>>

\* Mistake: an empty record is taken for the end of the file.
AtHole(p) == fd[p].off \in DOMAIN FileOf(p) => FileOf(p)[fd[p].off] = EMPTY

\* read returns 0.
AtEnd(p) == fd[p].off \notin DOMAIN FileOf(p)

\* Mistake: the loop seeks with SEEK_SET and reads slot 0 again.
Rewind(p) == fd' = [fd EXCEPT ![p].off = 0]

\* A record was read.
Advance(p) == fd' = [fd EXCEPT ![p].off = @ + 1]

----------------------------------------------------------------------------
(* main: start, open_db, exit *)

\* Help and a missing option are answered before the file is opened.
Start(p) ==
    /\ pc[p] = "idle"
    /\ \A q \in Procs : cmd[q].op \notin Alone
    /\ \E c \in Menu[p] :
          /\ c.op \in Alone => \A q \in Procs : pc[q] = "idle"
          /\ cmd' = [cmd EXCEPT ![p] = c]
          /\ \/ c.op = "h" /\ Answer(p, Say("h", 0, "usage", EXIT_OK))
             \/ c.op = "no option" /\ Answer(p, Say("?", 0, "usage", 1))
             \/ c.op \notin {"h", "no option"} /\ Proceed(p, "open")
    /\ UNCHANGED <<kernel, fd, tfd, student, tally, faults, crashes>>

\* Where main goes once the file is open.  The range check of -a comes only
\* now, so a rejected -a has still created the file.
Dispatch(p) ==
    LET c == cmd[p] IN
    \/ /\ c.op = "a" /\ ~InRange(c.id, c.gpa)
       /\ Answer(p, Say("a", c.id, "M_ERR_STD_RNG", EXIT_FAIL_ARGS))
    \/ /\ c.op = "a" /\ InRange(c.id, c.gpa)
       /\ Proceed(p, "scan")
    \/ c.op \in {"d", "f"} /\ Proceed(p, "scan")
    \/ c.op \in {"c", "p"} /\ Proceed(p, "read")
    \/ c.op = "x" /\ Proceed(p, "opentmp")
    \/ c.op = "z" /\ Proceed(p, "truncate")
    \/ c.op = "?" /\ Answer(p, Say("?", 0, "usage", EXIT_FAIL_ARGS))

\* open_db(DB_FILE, false): O_CREAT makes an empty file when there is none.
OpenDb(p) ==
    /\ pc[p] = "open"
    /\ \/ /\ Works
          /\ db = NoInode => ~NoSpace
          /\ db' = IF db = NoInode THEN FreshInode ELSE db
          /\ fd' = [fd EXCEPT ![p] = [ino |-> db', off |-> 0]]
          /\ Dispatch(p)
       \/ /\ Fails \/ (Works /\ db = NoInode /\ NoSpace)
          /\ Answer(p, Say(cmd[p].op, cmd[p].id, "M_ERR_DB_OPEN", EXIT_FAIL_DB))
          /\ UNCHANGED <<db, fd>>
    /\ UNCHANGED <<content, tmp, cmd, tfd, student, tally, crashes>>

\* The process is gone: its descriptors are closed and its memory released.
Gone(p) ==
    /\ Goto(p, "idle")
    /\ cmd' = [cmd EXCEPT ![p] = NoCmd]
    /\ fd' = [fd EXCEPT ![p] = Closed]
    /\ tfd' = [tfd EXCEPT ![p] = Closed]
    /\ student' = [student EXCEPT ![p] = EMPTY]
    /\ tally' = [tally EXCEPT ![p] = EmptyFile]
    /\ reply' = [reply EXCEPT ![p] = Killed]
    /\ UNCHANGED <<db, tmp>>
    /\ Store(content)

\* Output is flushed, the process exits and the user has read its answer.
Exit(p) ==
    /\ pc[p] = "exit"
    /\ out' = Killed
    /\ Gone(p)
    /\ UNCHANGED <<faults, crashes>>

\* The process is killed before its output was flushed.
Crash(p) ==
    /\ pc[p] # "idle"
    /\ crashes < MaxCrashes
    /\ crashes' = crashes + 1
    /\ out' = Killed
    /\ Gone(p)
    /\ UNCHANGED faults

----------------------------------------------------------------------------
(* get_student and its three callers *)

\* What each caller does when get_student returns NO_ERROR with record r.
OnFound(p, r) ==
    LET c == cmd[p] IN
    \/ c.op = "a" /\ Answer(p, Say("a", c.id, "M_ERR_DB_ADD_DUP", EXIT_FAIL_DB))
    \/ c.op = "d" /\ Proceed(p, "write")
    \/ /\ c.op = "f"
       /\ Answer(p, IF r.id = 0 THEN Say("f", c.id, "M_ERR_STD_PRINT", EXIT_OK)
                                ELSE List("f", c.id, "STUDENT_PRINT", One(r)))

\* add_student goes on whenever the answer is not NO_ERROR, and del_student
\* calls every other answer "not found"; only -f tells the two apart.
OnMissing(p, rc) ==
    LET c == cmd[p] IN
    \/ c.op = "a" /\ Proceed(p, "write")
    \/ c.op = "d" /\ Answer(p, Say("d", c.id, "M_STD_NOT_FND_MSG", EXIT_FAIL_DB))
    \/ /\ c.op = "f"
       /\ Answer(p, Say("f", c.id, IF rc = "SRCH_NOT_FOUND" THEN "M_STD_NOT_FND_MSG"
                                                         ELSE "M_ERR_DB_READ",
                        EXIT_FAIL_DB))

\* One turn of the loop of get_student: read the next record and look at it.
Scan(p) ==
    /\ pc[p] = "scan"
    /\ \/ /\ Fails
          /\ OnMissing(p, "ERR_DB_FILE")
          /\ UNCHANGED fd
       \/ /\ Works
          /\ AtEnd(p)
          /\ OnMissing(p, "SRCH_NOT_FOUND")
          /\ UNCHANGED fd
       \/ /\ Works
          /\ ~AtEnd(p)
          /\ FileOf(p)[fd[p].off].id = cmd[p].id
          /\ OnFound(p, FileOf(p)[fd[p].off])
          /\ Advance(p)
       \/ /\ Works
          /\ ~AtEnd(p)
          /\ FileOf(p)[fd[p].off].id # cmd[p].id
          /\ Advance(p)
          /\ UNCHANGED <<pc, reply, out>>
    /\ UNCHANGED <<kernel, cmd, tfd, student, tally, crashes>>

\* Mistake: no lseek before the write.
SlotAfterScan(p) == fd[p].off

\* Where add_student and del_student seek before they write.
SlotToWrite(p) == cmd[p].id

\* The write of add_student or del_student at slot id.
WriteSlot(p) ==
    LET c == cmd[p]
        r == IF c.op = "a" THEN [id |-> c.id, gpa |-> c.gpa] ELSE EMPTY
    IN
    /\ pc[p] = "write"
    /\ \/ /\ Works
          /\ content' = [content EXCEPT ![fd[p].ino] = WriteAt(@, SlotToWrite(p), r)]
          /\ Answer(p, Say(c.op, c.id, IF c.op = "a" THEN "M_STD_ADDED"
                                                     ELSE "M_STD_DEL_MSG", EXIT_OK))
       \/ /\ Fails
          /\ Answer(p, Say(c.op, c.id, "M_ERR_DB_WRITE", EXIT_FAIL_DB))
          /\ UNCHANGED content
    /\ UNCHANGED <<db, tmp, cmd, fd, tfd, student, tally, crashes>>

----------------------------------------------------------------------------
(* count_db_records and print_db: the same loop *)

\* The loop ends at the end of the file and just as well at a failed read.
ReadRecord(p) ==
    LET o == fd[p].off
        n == Cardinality(DOMAIN tally[p])
    IN
    /\ pc[p] = "read"
    /\ \/ /\ Fails \/ (Works /\ AtEnd(p))
          /\ Answer(p, IF cmd[p].op = "c"
                       THEN Tell("c", IF n = 0 THEN "M_DB_EMPTY" ELSE "M_DB_RECORD_CNT", n)
                       ELSE List("p", 0, IF n = 0 THEN "M_DB_EMPTY" ELSE "STUDENT_PRINT",
                                 tally[p]))
          /\ UNCHANGED <<fd, tally>>
       \/ /\ Works
          /\ ~AtEnd(p)
          /\ Advance(p)
          /\ tally' = [tally EXCEPT ![p] = IF FileOf(p)[o] = EMPTY THEN @
                                           ELSE WriteAt(@, n, FileOf(p)[o])]
          /\ UNCHANGED <<pc, reply, out>>
    /\ UNCHANGED <<kernel, cmd, tfd, student, crashes>>

----------------------------------------------------------------------------
(* compress_db *)

\* Mistake: no O_TRUNC.
LeaveAsIs(i) == UNCHANGED content

\* O_TRUNC
MakeEmpty(i) == content' = [content EXCEPT ![i] = EmptyFile]

\* open(TMP_DB_FILE, O_CREAT | O_TRUNC): a file left by a killed run, or in
\* use by another one, is emptied.
OpenTmp(p) ==
    /\ pc[p] = "opentmp"
    /\ \/ /\ Works
          /\ tmp = NoInode => ~NoSpace
          /\ tmp' = IF tmp = NoInode THEN FreshInode ELSE tmp
          /\ MakeEmpty(tmp')
          /\ tfd' = [tfd EXCEPT ![p] = [ino |-> tmp', off |-> 0]]
          /\ Proceed(p, "copyread")
       \/ /\ Fails \/ (Works /\ tmp = NoInode /\ NoSpace)
          /\ Answer(p, Say("x", 0, "M_ERR_DB_CREATE", EXIT_FAIL_DB))
          /\ UNCHANGED <<content, tmp, tfd>>
    /\ UNCHANGED <<db, cmd, fd, student, tally, crashes>>

\* As in count_db_records, a failed read looks like the end of the file.
CopyRead(p) ==
    LET o == fd[p].off IN
    /\ pc[p] = "copyread"
    /\ \/ /\ Fails \/ (Works /\ AtEnd(p))
          /\ Goto(p, "rename")
          /\ UNCHANGED <<fd, student>>
       \/ /\ Works
          /\ ~AtEnd(p)
          /\ Advance(p)
          /\ IF FileOf(p)[o] = EMPTY
             THEN UNCHANGED <<pc, student>>
             ELSE Goto(p, "copywrite") /\ student' = [student EXCEPT ![p] = FileOf(p)[o]]
    /\ UNCHANGED <<kernel, cmd, tfd, tally, reply, out, crashes>>

CopyWrite(p) ==
    /\ pc[p] = "copywrite"
    /\ student' = [student EXCEPT ![p] = EMPTY]
    /\ \/ /\ Works
          /\ content' = [content EXCEPT ![tfd[p].ino] = WriteAt(@, tfd[p].off, student[p])]
          /\ tfd' = [tfd EXCEPT ![p].off = @ + 1]
          /\ Proceed(p, "copyread")
          /\ UNCHANGED <<db, tmp, fd>>
       \/ /\ Fails
          /\ Answer(p, Say("x", 0, "M_ERR_DB_WRITE", EXIT_FAIL_DB))
          /\ tfd' = [tfd EXCEPT ![p] = Closed]
          /\ UNCHANGED <<db, tmp, fd>>
          /\ Store(content)
    /\ UNCHANGED <<cmd, tally, crashes>>

Compressed == Say("x", 0, "M_DB_COMPRESSED_OK", EXIT_OK)

\* Mistake: link instead of rename, so both names stay on the new inode.
LinkTmp == db' = tmp /\ UNCHANGED tmp

RenameTmp == db' = tmp /\ tmp' = NoInode

\* Both files are closed, then .tmp_student.db takes the name student.db.  The
\* name is gone when another run has renamed it first.  After the rename only a
\* failing call can keep the command from its answer.
Rename(p) ==
    /\ pc[p] = "rename"
    /\ fd' = [fd EXCEPT ![p] = Closed]
    /\ tfd' = [tfd EXCEPT ![p] = Closed]
    /\ \/ /\ Works
          /\ tmp # NoInode
          /\ RenameTmp
          /\ Goto(p, "reopen") /\ out' = Compressed /\ UNCHANGED reply
       \/ /\ Fails \/ (Works /\ tmp = NoInode)
          /\ Answer(p, Say("x", 0, "M_ERR_DB_CREATE", EXIT_FAIL_DB))
          /\ UNCHANGED <<db, tmp>>
    /\ UNCHANGED <<cmd, student, tally, crashes>>
    /\ Store(content)

\* open(DB_FILE, O_RDWR) to hand the new descriptor back to main.
Reopen(p) ==
    /\ pc[p] = "reopen"
    /\ \/ /\ Works
          /\ fd' = [fd EXCEPT ![p] = [ino |-> db, off |-> 0]]
          /\ Answer(p, Compressed)
       \/ /\ Fails
          /\ Answer(p, Say("x", 0, "M_ERR_DB_OPEN", EXIT_FAIL_DB))
          /\ UNCHANGED fd
    /\ UNCHANGED <<kernel, cmd, tfd, student, tally, crashes>>

\* -z: close(fd), then open_db(DB_FILE, true).
Truncate(p) ==
    /\ pc[p] = "truncate"
    /\ UNCHANGED <<db, tmp, cmd, tfd, student, tally, crashes>>
    /\ \/ /\ Works
          /\ fd' = [fd EXCEPT ![p] = [ino |-> db, off |-> 0]]
          /\ Answer(p, Say("z", 0, "M_DB_ZERO_OK", EXIT_OK))
          /\ Store([content EXCEPT ![db] = EmptyFile])
       \/ /\ Fails
          /\ fd' = [fd EXCEPT ![p] = Closed]
          /\ Answer(p, Say("z", 0, "M_ERR_DB_OPEN", EXIT_FAIL_DB))
          /\ Store(content)

----------------------------------------------------------------------------
Step(p) ==
    \/ OpenDb(p) \/ Scan(p) \/ WriteSlot(p) \/ ReadRecord(p)
    \/ OpenTmp(p) \/ CopyRead(p) \/ CopyWrite(p) \/ Rename(p) \/ Reopen(p)
    \/ Truncate(p) \/ Exit(p)

Next == \E p \in Procs : Start(p) \/ Step(p) \/ Crash(p)

Spec == Init /\ [][Next]_vars

\* A process that is running is scheduled again; users need not start one.
FairSpec == Spec /\ \A p \in Procs : WF_vars(Step(p))

----------------------------------------------------------------------------
\* What a program that opens student.db now would read.
DbFile == IF db = NoInode THEN EmptyFile ELSE content[db]

TypeOK ==
    /\ \A i \in Inodes : IsFile(content[i])
    /\ {db, tmp} \subseteq Inodes \cup {NoInode}
    /\ \A p \in Procs :
          /\ pc[p] \in Calls
          /\ cmd[p] \in Menu[p] \cup {NoCmd}
          /\ fd[p].ino \in Inodes \cup {NoInode} /\ fd[p].off \in 0..(MaxId + 1)
          /\ tfd[p].ino \in Inodes \cup {NoInode} /\ tfd[p].off \in 0..(MaxId + 1)
          /\ student[p] \in Slot
          /\ IsFile(tally[p])
    /\ faults \in 0..MaxFaults /\ crashes \in 0..MaxCrashes

Commands == UNION {Menu[p] : p \in Procs}

\* Without failing calls, and with only readers and compressions running at
\* once, the loops of get_student, count_db_records, print_db and compress_db
\* add up to the single steps of StudentDB: a reader that walks a file while a
\* compression replaces it answers as if it had been alone, and a run killed at
\* any call has done all of its command or nothing.
Atomic == INSTANCE StudentDB WITH
    file <- DbFile,
    ArgIds <- {c.id : c \in Commands}, ArgGpas <- {c.gpa : c \in Commands}

ImplementsAtomic == Atomic!Spec

\* A command that started ends, whatever the others do: no loop of the program
\* runs forever on a file that other processes extend, truncate or replace.
EveryCommandEnds == \A p \in Procs : pc[p] # "idle" ~> pc[p] = "idle"

\* compress_db reads one inode and writes another, even when several runs
\* share .tmp_student.db or find the one a killed run left.  On a single inode
\* the copy loop would feed on its own output.
NeverCopiesOntoItself ==
    \A p \in Procs : tfd[p].ino # NoInode => fd[p].ino # tfd[p].ino

\* Without -x a student sits in the slot of its id at every moment, in every
\* inode, however the other commands interleave and wherever they are killed.
AllAtHome == \A i \in Inodes : \A k \in Used(content[i]) : content[i][k].id = k
=============================================================================
