---------------------------- MODULE SyncTransfer ----------------------------
(***************************************************************************)
(* The sync: service: the client of file_sync_client.cpp copies files to a *)
(* device and back by talking to file_sync_service.c through a stream that *)
(* holds Cap messages in each direction and may break at any time.         *)
(*                                                                         *)
(* A file is a sequence of chunks with a modification time, a directory is *)
(* a list of files, and a message is sent and received as a whole.  A      *)
(* session is one command of the client and the service thread on the      *)
(* device that answers it.  The client never closes the stream of a        *)
(* command that fails, so its thread waits for more until the connection   *)
(* breaks.                                                                 *)
(***************************************************************************)
EXTENDS Naturals, Sequences, SequencesExt, FiniteSets, Lists

CONSTANTS
    FileList,      \* the files, in the order of local_build_list
    Local,         \* the contents of the client's files
    Readable,      \* how many chunks of each can be read
    Old,           \* the contents of the files that may be on the device before
    Locked,        \* files of the device that can be written but not unlinked
    Commands,      \* the commands the user may give
    MaxSessions,   \* bound: commands
    Overlap,       \* whether a command may start while the device is still busy
                   \* with the one before
    Cap,           \* bound: messages in the stream, each way
    MaxFaults,     \* bound: broken connections and crashes of the device
    None

Files == ToSet(FileList)
Sessions == 1..MaxSessions
Dir == "dir"

\* What files are made of.
Chunks == UNION {ToSet(Local[f]) \cup ToSet(Old[f]) : f \in Files}

\* Modification times: before, that of the client's files, and after.
OldTime == 0
LocalTime == 1
Now == 2
Times == {None, OldTime, LocalTime, Now}

ASSUME SyncAssumption ==
    /\ FileList \in Seq(Files) /\ FileList # << >> /\ Dir \notin Files
    /\ Local \in [Files -> Seq(Chunks)] /\ Old \in [Files -> Seq(Chunks)]
    /\ \A f \in Files : Readable[f] \in 0..Len(Local[f])
    /\ Locked \subseteq Files /\ Commands \subseteq {"push", "one", "sync", "would", "pull", "ls"}
    /\ MaxSessions \in Nat /\ MaxFaults \in Nat /\ Overlap \in BOOLEAN
    /\ Cap \in Nat /\ Len(FileList) <= 2 * Cap
    /\ None \notin {OldTime, LocalTime, Now}
    /\ None \notin {"push", "one", "sync", "would", "pull", "ls"}

\* The messages of the client and of the service.
Requests == {"STAT"} \X (Files \cup {Dir}) \cup {"SEND", "RECV"} \X Files
            \cup {"LIST"} \X {Dir} \cup {"DATA"} \X Chunks
            \cup {"DONE"} \X {LocalTime} \cup {"QUIT"} \X {None}
Answers == {"STAT"} \X (Nat \X Times) \cup {"DENT"} \X Files \cup {"DONE"} \X {0}
           \cup {"DATA"} \X Chunks \cup {"OKAY", "FAIL"} \X {None}

VARIABLES
    cmd, cpc, sess,     \* the command, where the client is, its session
    flist, at, k,       \* its list of files, the one it is at, chunks of it
    flags,              \* files with ci->flag, which are skipped
    result,             \* what the last command returned
    got,                \* what pull has written on the client's side
    c2s, s2c,           \* the stream of each session
    cut,                \* sessions whose connection is broken
    spc, sfile, sk,     \* the service thread: where it is, its file, chunks of it
    sopen,              \* threads that have the file open
    names,              \* what is left of the directory it lists
    remote,             \* the files of the device, and the thread that made each
    faults, deaths      \* broken connections and crashes so far, crashes of the device

client  == <<cmd, cpc, sess, flist, at, k, flags, result, got>>
stream  == <<c2s, s2c, cut>>
service == <<spc, sfile, sk, sopen, names>>
vars == <<client, stream, service, remote, faults, deaths>>

Absent == [by |-> 0, data |-> << >>, time |-> None]

TypeOK ==
    /\ cmd \in Commands \cup {None} /\ sess \in 0..MaxSessions
    /\ cpc \in {"idle", "ask", "stats", "list", "dents", "next", "data", "status",
                "first", "more", "quit"}
    /\ flist \in Seq(Files \cup {Dir}) /\ at \in 1..(Len(flist) + 1) /\ k \in Nat /\ flags \subseteq Files
    /\ result \in {"none", "okay", "error"}
    /\ c2s \in [Sessions -> Seq(Requests)] /\ s2c \in [Sessions -> Seq(Answers)]
    /\ \A s \in Sessions : Len(c2s[s]) <= Cap /\ Len(s2c[s]) <= Cap
    /\ cut \subseteq Sessions /\ sopen \subseteq Sessions
    /\ spc \in [Sessions -> {"none", "cmd", "dir", "file", "read", "closed"}]
    /\ sfile \in [Sessions -> Files \cup {None}] /\ sk \in [Sessions -> Nat]
    /\ names \in [Sessions -> Seq(Files)]
    /\ remote \in [Files -> [by : 0..MaxSessions, data : Seq(Chunks), time : Times]]
    /\ DOMAIN got = Files
    /\ faults \in 0..MaxFaults /\ deaths \in 0..faults

Before(f) == [by |-> 0, data |-> Old[f], time |-> OldTime]

Init ==
    /\ cmd = None /\ cpc = "idle" /\ sess = 0 /\ flist = << >> /\ at = 1 /\ k = 0
    /\ flags = {} /\ result = "none" /\ got = [f \in Files |-> None]
    /\ c2s = [s \in Sessions |-> << >>] /\ s2c = c2s /\ cut = {}
    /\ spc = [s \in Sessions |-> "none"] /\ sfile = [s \in Sessions |-> None]
    /\ sk = [s \in Sessions |-> 0] /\ sopen = {} /\ names = c2s
    /\ \E there \in SUBSET Files :
         remote = [f \in Files |-> IF f \in there THEN Before(f) ELSE Absent]
    /\ faults = 0 /\ deaths = 0

-----------------------------------------------------------------------------
(* The stream: readx and writex at its two ends *)

Connected(s) == s \in 1..sess /\ s \notin cut /\ spc[s] # "closed"

\* The client writes a message.  What it writes to a broken connection is lost.
Tell(m) ==
    /\ IF Connected(sess)
         THEN Len(c2s[sess]) < Cap /\ c2s' = [c2s EXCEPT ![sess] = Append(@, m)]
         ELSE UNCHANGED c2s
    /\ UNCHANGED <<s2c, cut>>

\* The client reads a message.
Hear == Head(s2c[sess])
Heard(kinds) ==
    /\ s2c[sess] # << >> /\ Hear[1] \in kinds
    /\ s2c' = [s2c EXCEPT ![sess] = Tail(@)] /\ UNCHANGED <<c2s, cut>>

\* The service reads a message.
Asked(s, kind) ==
    /\ c2s[s] # << >> /\ Head(c2s[s])[1] = kind
    /\ c2s' = [c2s EXCEPT ![s] = Tail(@)] /\ UNCHANGED cut
Arg(s) == Head(c2s[s])[2]

\* The service writes a message and goes on, or ends when it notices that it cannot.
Say(s, m, next) ==
    IF Connected(s)
      THEN /\ Len(s2c[s]) < Cap /\ s2c' = [s2c EXCEPT ![s] = Append(@, m)]
           /\ spc' = [spc EXCEPT ![s] = next]
      ELSE /\ UNCHANGED s2c
           /\ \E pc \in {next, "closed"} : spc' = [spc EXCEPT ![s] = pc]

\* The connection breaks; messages on their way arrive or not, the last ones first.
Break(s) ==
    /\ Connected(s) /\ faults < MaxFaults
    /\ \E i \in 0..Len(c2s[s]), j \in 0..Len(s2c[s]) :
         /\ c2s' = [c2s EXCEPT ![s] = SubSeq(@, 1, i)]
         /\ s2c' = [s2c EXCEPT ![s] = SubSeq(@, 1, j)]
    /\ cut' = cut \cup {s} /\ faults' = faults + 1
    /\ UNCHANGED <<client, service, remote, deaths>>

\* The device loses power: its threads are gone, its files stay as they are.
PowerLoss ==
    /\ faults < MaxFaults /\ \E s \in Sessions : spc[s] \notin {"none", "closed"}
    /\ faults' = faults + 1 /\ deaths' = deaths + 1
    /\ cut' = cut \cup {s \in Sessions : spc[s] # "none"}
    /\ spc' = [s \in Sessions |-> IF spc[s] = "none" THEN "none" ELSE "closed"]
    /\ c2s' = [s \in Sessions |-> << >>] /\ sopen' = {}
    /\ UNCHANGED <<client, s2c, sfile, sk, names, remote>>

-----------------------------------------------------------------------------
(* The client *)

ClientOnly == UNCHANGED <<service, remote, faults, deaths>>

\* The thread of an earlier command has more to do than to wait for a request, or to send
\* a file that nobody receives.
Busy(r) == spc[r] \notin {"closed", "read"} /\ (spc[r] = "cmd" => c2s[r] # << >>)

\* do_sync_push, do_sync_sync, do_sync_pull, do_sync_ls: adb_connect("sync:") starts the
\* service; push of one file and pull ask for the mode of the file on the device first.
Start(c) ==
    LET s == sess + 1
    IN  /\ cpc = "idle" /\ sess < MaxSessions
        /\ Overlap \/ \A r \in 1..sess : ~Busy(r)
        /\ sess' = s /\ cmd' = c /\ at' = 1 /\ k' = 0 /\ flags' = {} /\ result' = "none"
        /\ flist' = CASE c = "pull" -> <<Dir>> [] c = "ls" -> << >>
                      [] c = "one" -> <<Head(FileList)>> [] OTHER -> FileList
        /\ cpc' = CASE c = "push" -> "next" [] c = "ls" -> "list" [] OTHER -> "ask"
        /\ spc' = [spc EXCEPT ![s] = "cmd"]
        /\ UNCHANGED <<got, stream, sfile, sk, sopen, names, remote, faults, deaths>>

\* The end of a command, which leaves its descriptor open.
Return(r) ==
    /\ cpc' = "idle" /\ result' = r /\ k' = 0
    /\ UNCHANGED <<cmd, sess, flist, at, flags, got>>

Goto(pc) == cpc' = pc /\ UNCHANGED <<cmd, sess, flist, at, k, flags, result, got>>

\* A mutant of ConnectionLost: the loop of sync_ls reads again after a failed read.
ConnectionLost_Again ==
    /\ ~Connected(sess)
    /\ \/ cpc \in {"stats", "status", "first", "more"} /\ s2c[sess] = << >>
       \/ cpc \in {"ask", "list", "data"}
       \/ cpc = "next" /\ at <= Len(flist)
    /\ Return("error") /\ UNCHANGED stream /\ ClientOnly
\* Any read but the ones of sync_quit fails the command when the service is gone, and so
\* may a write.
ConnectionLost ==
    /\ ~Connected(sess)
    /\ \/ cpc \in {"stats", "dents", "status", "first", "more"} /\ s2c[sess] = << >>
       \/ cpc \in {"ask", "list", "data"}
       \/ cpc = "next" /\ at <= Len(flist)
    /\ Return("error") /\ UNCHANGED stream /\ ClientOnly

\* sync_start_readtime for every file, or sync_readmode.
AskStat ==
    /\ cpc = "ask" /\ Tell(<<"STAT", flist[at]>>)
    /\ at' = IF at = Len(flist) THEN 1 ELSE at + 1
    /\ cpc' = IF at = Len(flist) THEN "stats" ELSE "ask"
    /\ UNCHANGED <<cmd, sess, flist, k, flags, result, got>> /\ ClientOnly

\* A mutant of Current: the time alone is compared.
Current_Time(f, attr) == attr[2] = LocalTime
\* Size and time are those of the client's file.
Current(f, attr) == attr = <<Len(Local[f]), LocalTime>>

\* sync_finish_readtime for every file; only sync looks at what it says.
ReadStat ==
    /\ cpc = "stats" /\ Heard({"STAT"})
    /\ flags' = IF cmd \in {"sync", "would"} /\ Current(flist[at], Hear[2])
                  THEN flags \cup {flist[at]} ELSE flags
    /\ at' = IF at = Len(flist) THEN 1 ELSE at + 1
    /\ cpc' = IF at < Len(flist) THEN "stats" ELSE IF cmd = "pull" THEN "list" ELSE "next"
    /\ UNCHANGED <<cmd, sess, flist, k, result, got>> /\ ClientOnly

\* sync_ls, whose callback puts each file in front of the list.
AskList ==
    /\ cpc = "list" /\ Tell(<<"LIST", Dir>>)
    /\ cpc' = "dents" /\ flist' = << >>
    /\ UNCHANGED <<cmd, sess, at, k, flags, result, got>> /\ ClientOnly

ReadDent ==
    /\ cpc = "dents" /\ Heard({"DENT"})
    /\ flist' = <<Hear[2]>> \o flist
    /\ UNCHANGED <<cmd, cpc, sess, at, k, flags, result, got>> /\ ClientOnly

ReadDents ==
    /\ cpc = "dents" /\ Heard({"DONE"})
    /\ Goto(IF cmd = "ls" THEN "quit" ELSE "next") /\ ClientOnly

\* copy_local_dir_remote and copy_remote_dir_local, one file after the other.
Skip ==
    /\ cpc = "next" /\ at <= Len(flist) /\ (flist[at] \in flags \/ cmd = "would")
    /\ at' = at + 1
    /\ UNCHANGED <<cmd, cpc, sess, flist, k, flags, result, got, stream>> /\ ClientOnly

Todo == cpc = "next" /\ at <= Len(flist) /\ flist[at] \notin flags /\ cmd # "would"

\* sync_send.
AskSend ==
    /\ Todo /\ cmd # "pull" /\ Tell(<<"SEND", flist[at]>>)
    /\ cpc' = "data" /\ k' = 0
    /\ UNCHANGED <<cmd, sess, flist, at, flags, result, got>> /\ ClientOnly

\* write_data_file: a chunk that cannot be read ends the file, and so does an open that
\* fails; sync_send does not look at its result.
SendChunk ==
    /\ cpc = "data" /\ k < Readable[flist[at]]
    /\ Tell(<<"DATA", Local[flist[at]][k + 1]>>)
    /\ k' = k + 1
    /\ UNCHANGED <<cmd, cpc, sess, flist, at, flags, result, got>> /\ ClientOnly

SendDone ==
    /\ cpc = "data" /\ k = Readable[flist[at]]
    /\ Tell(<<"DONE", LocalTime>>) /\ Goto("status") /\ ClientOnly

ReadStatus ==
    /\ cpc = "status" /\ Heard({"OKAY", "FAIL"})
    /\ IF Hear[1] = "OKAY"
         THEN /\ cpc' = "next" /\ at' = at + 1
              /\ UNCHANGED <<cmd, sess, flist, k, flags, result, got>>
         ELSE Return("error")
    /\ ClientOnly

\* sync_recv.
AskRecv ==
    /\ Todo /\ cmd = "pull" /\ Tell(<<"RECV", flist[at]>>) /\ Goto("first") /\ ClientOnly

\* The first message of a file replaces the client's, which is unlinked; the new one may
\* fail to be created.
CreatFails ==
    /\ cpc = "first" /\ Heard({"DATA", "DONE"})
    /\ got' = [got EXCEPT ![flist[at]] = None] /\ cpc' = "idle" /\ result' = "error"
    /\ UNCHANGED <<cmd, sess, flist, at, k, flags>> /\ ClientOnly

\* The next chunk of a file, or the first of a new one; it may fail to be written,
\* which leaves part of the file.
ReadChunk ==
    /\ cpc \in {"first", "more"} /\ Heard({"DATA"})
    /\ LET had == IF cpc = "first" THEN << >> ELSE got[flist[at]]
       IN  \/ /\ got' = [got EXCEPT ![flist[at]] = Append(had, Hear[2])] /\ cpc' = "more"
              /\ UNCHANGED result
           \/ got' = [got EXCEPT ![flist[at]] = had] /\ cpc' = "idle" /\ result' = "error"
    /\ UNCHANGED <<cmd, sess, flist, at, k, flags>> /\ ClientOnly

\* A mutant of ReadEnd: what was read before an error is kept.
ReadEnd_KeepPart ==
    /\ cpc \in {"first", "more"} /\ Heard({"DONE", "FAIL"})
    /\ got' = IF cpc = "first" THEN [got EXCEPT ![flist[at]] = << >>] ELSE got
    /\ cpc' = "next" /\ at' = at + 1
    /\ UNCHANGED <<cmd, sess, flist, k, flags, result>> /\ ClientOnly
\* The end of a file; after an error the client's file is unlinked and the next one is
\* asked for, as sync_recv returns 0.
ReadEnd ==
    /\ cpc \in {"first", "more"} /\ Heard({"DONE", "FAIL"})
    /\ got' = IF Hear[1] = "FAIL" THEN [got EXCEPT ![flist[at]] = None]
              ELSE IF cpc = "first" THEN [got EXCEPT ![flist[at]] = << >>] ELSE got
    /\ cpc' = "next" /\ at' = at + 1
    /\ UNCHANGED <<cmd, sess, flist, k, flags, result>> /\ ClientOnly

\* sync_quit, whose write may fail unseen.
Quit ==
    /\ cpc = "quit" \/ (cpc = "next" /\ at > Len(flist))
    /\ Tell(<<"QUIT", None>>) /\ Return("okay") /\ ClientOnly

Client ==
    \/ ConnectionLost \/ AskStat \/ ReadStat \/ AskList \/ ReadDent \/ ReadDents \/ Skip
    \/ AskSend \/ SendChunk \/ SendDone \/ ReadStatus \/ AskRecv \/ CreatFails \/ ReadChunk
    \/ ReadEnd \/ Quit

-----------------------------------------------------------------------------
(* The service: file_sync_service *)

Frame == UNCHANGED <<client, faults, deaths>>

\* adb_unlink.
Unlinked(f) == IF f \in Locked THEN remote ELSE [remote EXCEPT ![f] = Absent]

Ends(s) == spc' = [spc EXCEPT ![s] = "closed"] /\ sopen' = sopen \ {s}

\* do_stat.
DoStat(s) ==
    LET f == Arg(s)
    IN  /\ spc[s] = "cmd" /\ Asked(s, "STAT")
        /\ Say(s, <<"STAT", IF f = Dir THEN <<0, Now>>
                            ELSE <<Len(remote[f].data), remote[f].time>> >>, "cmd")
        /\ UNCHANGED <<sfile, sk, sopen, names, remote>> /\ Frame

\* do_list.
DoList(s) ==
    /\ spc[s] = "cmd" /\ Asked(s, "LIST")
    /\ names' = [names EXCEPT ![s] = Keep(FileList, {f \in Files : remote[f] # Absent})]
    /\ spc' = [spc EXCEPT ![s] = "dir"]
    /\ UNCHANGED <<s2c, sfile, sk, sopen, remote>> /\ Frame

SayName(s) ==
    /\ spc[s] = "dir"
    /\ IF names[s] = << >>
         THEN Say(s, <<"DONE", 0>>, "cmd") /\ UNCHANGED names
         ELSE /\ names' = [names EXCEPT ![s] = Tail(@)]
              /\ IF remote[Head(names[s])] = Absent THEN UNCHANGED <<s2c, spc>>
                 ELSE Say(s, <<"DENT", Head(names[s])>>, "dir")
    /\ UNCHANGED <<c2s, cut, sfile, sk, sopen, remote>> /\ Frame

\* do_send and the beginning of handle_send_file: unlink, and open for writing.  A file
\* that could not be unlinked is opened as it is.
DoSend(s) ==
    LET f == Arg(s)
    IN  /\ spc[s] = "cmd" /\ Asked(s, "SEND")
        /\ sfile' = [sfile EXCEPT ![s] = f] /\ sk' = [sk EXCEPT ![s] = 0]
        /\ \/ /\ f \in Locked => remote[f] # Absent
              /\ remote' = [remote EXCEPT ![f] =
                              IF f \in Locked THEN [@ EXCEPT !.by = s]
                              ELSE [by |-> s, data |-> << >>, time |-> Now]]
              /\ sopen' = sopen \cup {s} /\ spc' = [spc EXCEPT ![s] = "file"]
              /\ UNCHANGED s2c
           \/ /\ remote' = Unlinked(f) /\ UNCHANGED sopen
              /\ Say(s, <<"FAIL", None>>, "file")
        /\ UNCHANGED names /\ Frame

\* What the thread writes goes to the file it opened, which may have no name any more.
Mine(s) == remote[sfile[s]].by = s
WriteAt(d, i, chunk) == IF i <= Len(d) THEN [d EXCEPT ![i] = chunk] ELSE Append(d, chunk)

\* handle_send_file: DATA, which is read and dropped once something has failed.
TakeChunk(s) ==
    LET f == sfile[s]
        chunk == Arg(s)
    IN  /\ spc[s] = "file" /\ Asked(s, "DATA")
        /\ \/ /\ s \notin sopen /\ UNCHANGED <<remote, s2c, spc, sopen, sk>>
           \/ /\ s \in sopen /\ sk' = [sk EXCEPT ![s] = @ + 1]
              /\ remote' = IF Mine(s)
                   THEN [remote EXCEPT ![f] = [by |-> s, time |-> Now,
                                               data |-> WriteAt(@.data, sk[s] + 1, chunk)]]
                   ELSE remote
              /\ UNCHANGED <<s2c, spc, sopen>>
           \/ /\ s \in sopen /\ sopen' = sopen \ {s} /\ remote' = Unlinked(f)
              /\ Say(s, <<"FAIL", None>>, "file") /\ UNCHANGED sk
        /\ UNCHANGED <<sfile, names>> /\ Frame

\* DONE: the time is set, and OKAY is sent if no failure was.
TakeDone(s) ==
    /\ spc[s] = "file" /\ Asked(s, "DONE")
    /\ IF s \in sopen
         THEN /\ remote' = IF Mine(s) THEN [remote EXCEPT ![sfile[s]].time = Arg(s)] ELSE remote
              /\ Say(s, <<"OKAY", None>>, "cmd")
         ELSE spc' = [spc EXCEPT ![s] = "cmd"] /\ UNCHANGED <<remote, s2c>>
    /\ sopen' = sopen \ {s}
    /\ UNCHANGED <<sfile, sk, names>> /\ Frame

\* A mutant of FileLost: the part of the file that was written stays.
FileLost_KeepPart(s) ==
    /\ spc[s] = "file" /\ c2s[s] = << >> /\ ~Connected(s)
    /\ Ends(s)
    /\ UNCHANGED <<stream, sfile, sk, names, remote>> /\ Frame
\* The connection is gone in the middle of a file, which is unlinked.
FileLost(s) ==
    /\ spc[s] = "file" /\ c2s[s] = << >> /\ ~Connected(s)
    /\ remote' = Unlinked(sfile[s]) /\ Ends(s)
    /\ UNCHANGED <<stream, sfile, sk, names>> /\ Frame

\* do_recv; the file may fail to be opened, and to be read at any point.
DoRecv(s) ==
    /\ spc[s] = "cmd" /\ Asked(s, "RECV")
    /\ \/ /\ remote[Arg(s)] # Absent
          /\ sfile' = [sfile EXCEPT ![s] = Arg(s)] /\ sk' = [sk EXCEPT ![s] = 0]
          /\ spc' = [spc EXCEPT ![s] = "read"] /\ UNCHANGED s2c
       \/ Say(s, <<"FAIL", None>>, "cmd") /\ UNCHANGED <<sfile, sk>>
    /\ UNCHANGED <<sopen, names, remote>> /\ Frame

\* A mutant of SayChunk: the file ends with DONE after an error too.
SayChunk_DoneToo(s) ==
    /\ spc[s] = "read"
    /\ \/ /\ sk[s] < Len(remote[sfile[s]].data) /\ sk' = [sk EXCEPT ![s] = @ + 1]
          /\ Say(s, <<"DATA", remote[sfile[s]].data[sk[s] + 1]>>, "read")
       \/ /\ sk[s] = Len(remote[sfile[s]].data) /\ UNCHANGED sk /\ Say(s, <<"DONE", 0>>, "cmd")
       \/ /\ sk' = [sk EXCEPT ![s] = Len(remote[sfile[s]].data)]
          /\ Say(s, <<"FAIL", None>>, "read")
    /\ UNCHANGED <<c2s, cut, sfile, sopen, names, remote>> /\ Frame
\* The loop of do_recv: the next chunk, the end of the file, or a read that fails.
SayChunk(s) ==
    /\ spc[s] = "read"
    /\ \/ /\ sk[s] < Len(remote[sfile[s]].data) /\ sk' = [sk EXCEPT ![s] = @ + 1]
          /\ Say(s, <<"DATA", remote[sfile[s]].data[sk[s] + 1]>>, "read")
       \/ /\ sk[s] = Len(remote[sfile[s]].data) /\ UNCHANGED sk /\ Say(s, <<"DONE", 0>>, "cmd")
       \/ UNCHANGED sk /\ Say(s, <<"FAIL", None>>, "cmd")
    /\ UNCHANGED <<c2s, cut, sfile, sopen, names, remote>> /\ Frame

\* QUIT, or no more commands to read.
Leave(s) ==
    /\ spc[s] = "cmd"
    /\ \/ Asked(s, "QUIT")
       \/ c2s[s] = << >> /\ ~Connected(s) /\ UNCHANGED <<c2s, cut>>
    /\ Ends(s) /\ UNCHANGED <<s2c, sfile, sk, names, remote>> /\ Frame

Service(s) ==
    \/ DoStat(s) \/ DoList(s) \/ SayName(s) \/ DoSend(s) \/ TakeChunk(s) \/ TakeDone(s)
    \/ FileLost(s) \/ DoRecv(s) \/ SayChunk(s) \/ Leave(s)

-----------------------------------------------------------------------------
Next ==
    \/ \E c \in Commands : Start(c)
    \/ Client \/ PowerLoss
    \/ \E s \in Sessions : Service(s) \/ Break(s)

\* The client and the threads of the device run; nobody has to give a command.
Fairness == WF_vars(Client) /\ \A s \in Sessions : WF_vars(Service(s))
Spec == Init /\ [][Next]_vars /\ Fairness

-----------------------------------------------------------------------------
(* Properties *)

\* Request and answer stay together: when the client is about to ask for the next file,
\* nothing is left of the one before, whatever failed in it (one status for each file).
StreamInSync ==
    cpc = "next" /\ Connected(sess) =>
        c2s[sess] = << >> /\ s2c[sess] = << >> /\ spc[sess] = "cmd"

\* sync skips a file only when the device has all of it, also after transfers that broke
\* off, were cut short by a read error, or died with the device.
SkipOnlyCurrent ==
    \A f \in flags \ Locked : cpc # "idle" => remote[f].data = Local[f]

\* What pull leaves after success is the file or no file, never a part of one.
PulledIsWhole ==
    cmd = "pull" /\ cpc = "idle" /\ result = "okay" =>
        \A f \in ToSet(flist) : got[f] \in {None, remote[f].data}

\* What FileTransfer sees of the device: the files that can be unlinked there and read to
\* the end here; one that is being written is taken for absent.
Promised == {f \in Files \ Locked : Readable[f] = Len(Local[f])}
Whole(f) == [data |-> Local[f], time |-> LocalTime]
Writing(f) == \E s \in sopen : sfile[s] = f /\ remote[f].by = s
NoFile == [data |-> << >>, time |-> None]
Parts(f) == {SubSeq(Local[f], 1, n) : n \in 0..Len(Local[f])}
MayBe(f) == {NoFile, [data |-> Old[f], time |-> OldTime], Whole(f)}
            \cup {[data |-> d, time |-> Now] : d \in Parts(f)}
Transfer == INSTANCE FileTransfer WITH
    Files <- Promised,
    Contents <- [f \in Promised |-> MayBe(f)], Stored <- [f \in Promised |-> Whole(f)],
    Absent <- NoFile,
    dst <- [f \in Promised |-> IF Writing(f) THEN NoFile
                           ELSE [data |-> remote[f].data, time |-> remote[f].time]],
    want <- IF cmd \in {"push", "one", "sync"} THEN ToSet(flist) \cap Promised ELSE {},
    answer <- result

\* Push and sync implement FileTransfer for the files that the client can read to the end
\* and the device can unlink: such a file is what it was, absent or whole, and a command
\* that succeeds has stored all of them (handle_send_file unlinks a file it could not
\* finish).  Of a file that cannot be read to its end the command stores a part, with the
\* time of the whole, and succeeds: sync_send does not look at what write_data_file says.
TransferSpec == Transfer!TransferSpec

\* Every command returns, although the client writes all its STAT requests before it
\* reads an answer, and although the connection may break or the device die.
CommandReturns == (cpc # "idle") ~> (cpc = "idle")

\* The thread of the service ends after every command that succeeds, and after any other
\* when its connection breaks, which nobody sees to.
ServiceEnds ==
    \A s \in Sessions :
        (s \in cut \/ (s = sess /\ result = "okay")) ~> (spc[s] = "closed")

\* Client and service agree on where they are in the exchange (sync_send,
\* handle_send_file, do_recv).
SyncInv == TypeOK /\ StreamInSync

\* The client does not wait for ever, nor the service of a command that succeeds.
SessionsEnd == CommandReturns /\ ServiceEnds
=============================================================================
