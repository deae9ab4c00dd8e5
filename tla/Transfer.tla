------------------------------ MODULE Transfer ------------------------------
(***************************************************************************)
(* The transfer of packages into the cache: packages_fetch (pkgfetch.c)    *)
(* over vf_fetch (vfetch.c), its requests (vfreq.c), the pool of           *)
(* connections (vfffmod.c), the HTTP and FTP clients (vfff/) and external  *)
(* clients (fetch.c).                                                      *)
(*                                                                         *)
(* Several processes fetch the same files into one directory.  The lock of *)
(* the directory is taken for what DirLock says it is when nothing         *)
(* overlaps: one holder at a time.  The checks before and after a transfer *)
(* do not take it.  A file is the sequence of its parts, a part is the     *)
(* version of the file it belongs to and its place there, and versions     *)
(* stand for modification times, 0 for any time that is not the server's.  *)
(***************************************************************************)
EXTENDS Naturals, Sequences, FiniteSets, SequencesExt

CONSTANTS Proc, Files,
          Wanted,       \* the packages a process asks for
          Protocols,    \* what the site of a file may speak
          Size,         \* the number of parts of each version of a file
          Quiet,        \* who runs with -q
          Interruptible, Mortal,        \* who may be interrupted, who may die
          Attempts,     \* of a process: vfile_conf.nretries, 1 without STUBBORN_RETR
          MaxRedirects, \* 32 in do_vfn
          NoProc, NoFile

Versions == DOMAIN Size
Page == 0               \* the "version" of a page that says a file is not there

ASSUME FilesAssumption == Files # {}
ASSUME WantedAssumption == Wanted \in [Proc -> Seq(Files)]
ASSUME ProtocolAssumption == Protocols \subseteq {"http", "ftp", "rsync"}
ASSUME QuietAssumption == Quiet \subseteq Proc
ASSUME SizeAssumption == Size \in Seq(Nat \ {0}) /\ Size # <<>>
ASSUME BoundsAssumption == Attempts \in [Proc -> Nat \ {0}] /\ MaxRedirects \in Nat
ASSUME NoneAssumption == NoProc \notin Proc

VARIABLES site,         \* the protocol of a file's site
          server,       \* the version a site has of a file, 0 for none
          dir,          \* the directory of the cache: its files' parts and mtime
          lock,         \* who has locked it
          conn,         \* the connections in the pool of a process, one a site
          req,          \* the struct vf_request of a process, and the descriptor in it
          task,         \* how far the process is with its packages
          disturbed     \* packages it had verified and another process changed

vars == <<site, server, dir, lock, conn, req, task, disturbed>>

Part == (Versions \union {Page}) \X Nat
Data == Seq(Part)
File == [data: Data, mtime: Nat]
ASSUME NoFileAssumption == NoFile \notin File
Whole(d) == \E v \in Versions : d = [i \in 1..Size[v] |-> <<v, i>>]

(* pm_verify_signature(path, PKGVERIFY_MD): a package carries the digest   *)
(* of itself.                                                              *)
Verified(f) == dir[f] # NoFile /\ Whole(dir[f].data)

(* A connection in the pool: none that is alive, one that has not been     *)
(* used, one that was alive within VCN_ALIVE_TTL, and one of those that is *)
(* closed at the other end or has something else to come than the answer   *)
(* to what is asked next.                                                  *)
Connection == {"none", "fresh", "used", "astray"}

At == {"check", "discard", "next", "open", "stat", "attempt", "ask", "answer", "body",
       "close", "failed", "client", "verify", "done", "dead"}

Request == [file: Files, proto: {"http", "ftp", "rsync"},
            data: Data, linked: BOOLEAN, tries: Nat,
            redirects: Nat, foreign: BOOLEAN,
            total: Nat, mtime: Nat, ver: Versions \union {Page}, pos: Nat]

Task == [at: At, look: Seq(Files),
         urls: [Protocols -> Seq(Files)],   \* urls_h: what is to be fetched from a site
         fetched: Seq(Files),               \* what was, of the site at work
         verified: SUBSET Files, errors: BOOLEAN, interrupted: BOOLEAN]

TypeOK ==
    /\ site \in [Files -> Protocols]
    /\ server \in [Files -> Versions \union {0}]
    /\ dir \in [Files -> File \union {NoFile}]
    /\ lock \in Proc \union {NoProc}
    /\ conn \in [Proc -> [{"http", "ftp"} -> Connection]]
    /\ req \in [Proc -> Request]
    /\ task \in [Proc -> Task]
    /\ disturbed \in [Proc -> SUBSET Files]

-----------------------------------------------------------------------------
(* Shared steps.                                                           *)

At_(p, a) == task[p].at = a
Becomes(p, t) == task' = [task EXCEPT ![p] = t]
Goto(p, a) == task' = [task EXCEPT ![p].at = a]
Interrupted(p) == task[p].interrupted
File_(p) == req[p].file

(* Another process than p changes a file that p has verified.              *)
Disturbs(p) ==
    disturbed' = [q \in Proc |-> disturbed[q] \union
                     {f \in task[q].verified : q # p /\ dir'[f] # dir[f]}]

(* vf_unlink goes by name: whoever has the file open keeps its inode.      *)
Orphaned(f) == [q \in Proc |-> IF req[q].file = f THEN [req[q] EXCEPT !.linked = FALSE]
                               ELSE req[q]]

Site(p) == conn[p][req[p].proto]
Pool(p, c) == conn' = [conn EXCEPT ![p][req[p].proto] = c]
NoConnections == [s \in {"http", "ftp"} |-> "none"]

NoUrls == [s \in Protocols |-> <<>>]

NoRequest == [file |-> CHOOSE f \in Files : TRUE, proto |-> "http", data |-> <<>>,
              linked |-> FALSE, tries |-> 0, redirects |-> 0, foreign |-> FALSE,
              total |-> 0, mtime |-> 0, ver |-> 0, pos |-> 0]

(* vf_request_free and vf_lock_release.                                    *)
Released(p) == req' = [req EXCEPT ![p] = NoRequest] /\ lock' = NoProc

(* The end of a process; the lock of its file goes with it.                *)
Ends(p) ==
    /\ task' = [task EXCEPT ![p] = [@ EXCEPT !.at = "dead", !.look = <<>>, !.urls = NoUrls,
                                             !.fetched = <<>>, !.interrupted = FALSE]]
    /\ req' = [req EXCEPT ![p] = NoRequest]
    /\ conn' = [conn EXCEPT ![p] = NoConnections]
    /\ lock' = IF lock = p THEN NoProc ELSE lock
    /\ UNCHANGED <<site, server, dir, disturbed>>

(* The descriptor is opened with O_APPEND.                                 *)
Append_(p, part) ==
    LET data == Append(req[p].data, part)
    IN  /\ req' = [req EXCEPT ![p].data = data, ![p].pos = @ + 1]
        /\ dir' = IF req[p].linked
                  THEN [dir EXCEPT ![File_(p)] = [data |-> data, mtime |-> 0]]
                  ELSE dir
        /\ Disturbs(p)

-----------------------------------------------------------------------------
(* packages_fetch, first loop: what is there already?  A file that does    *)
(* not verify is removed, after the time its verification takes, without   *)
(* the lock.                                                               *)

Checked(t) == IF Tail(t.look) = <<>> THEN "next" ELSE "check"

CheckCached(p) ==
    /\ At_(p, "check")
    /\ LET f == Head(task[p].look)
           t == task[p]
       IN  Becomes(p,
             CASE Interrupted(p) -> [t EXCEPT !.urls = NoUrls, !.at = "next"]
               [] Verified(f)    -> [t EXCEPT !.look = Tail(@), !.verified = @ \union {f},
                                              !.at = Checked(t)]
               [] dir[f] = NoFile -> [t EXCEPT !.look = Tail(@), !.urls[site[f]] = Append(@, f),
                                               !.at = Checked(t)]
               [] OTHER          -> [t EXCEPT !.at = "discard"])
    /\ UNCHANGED <<site, server, dir, lock, conn, req, disturbed>>

Discard(p) ==
    /\ At_(p, "discard")
    /\ LET f == Head(task[p].look)
       IN  /\ dir' = [dir EXCEPT ![f] = NoFile]
           /\ req' = Orphaned(f)
           /\ Becomes(p, [task[p] EXCEPT !.look = Tail(@), !.urls[site[f]] = Append(@, f),
                                          !.at = Checked(task[p])])
    /\ Disturbs(p)
    /\ UNCHANGED <<site, server, lock, conn>>

(* Second loop and vf_fetcha: the packages of a site one after another,    *)
(* the sites in some order.                                                *)
StopsHere(p) == Interrupted(p) /\ task[p].fetched = <<>>

NextFile(p) ==
    /\ At_(p, "next") /\ ~StopsHere(p)
    /\ \E s \in Protocols :
          /\ task[p].urls[s] # <<>>
          /\ task[p].fetched # <<>> => s = site[Head(task[p].fetched)]
          /\ req' = [req EXCEPT ![p] = [@ EXCEPT !.file = Head(task[p].urls[s]), !.proto = s,
                                                 !.redirects = 0, !.foreign = FALSE]]
    /\ Goto(p, "open")
    /\ UNCHANGED <<site, server, dir, lock, conn, disturbed>>

NoMoreFiles(p) ==
    /\ At_(p, "next") /\ (task[p].urls = NoUrls \/ StopsHere(p))
    /\ task' = [task EXCEPT ![p].at = "done", ![p].errors = @ \/ Interrupted(p)]
    /\ conn' = [conn EXCEPT ![p] = NoConnections]
    /\ UNCHANGED <<site, server, dir, lock, req, disturbed>>

(* The site at work; a redirect to another one does not change it.         *)
SiteOf(p) == site[File_(p)]

(* A fetch that fails ends its site; the files of the site fetched before  *)
(* it are not verified.                                                    *)
SiteFails(p) ==
    Becomes(p, [task[p] EXCEPT !.urls[SiteOf(p)] = <<>>, !.fetched = <<>>,
                               !.errors = TRUE, !.at = "next"])

Fetched(p) ==
    LET urls == task[p].urls[SiteOf(p)]
    IN  Becomes(p, [task[p] EXCEPT !.urls[SiteOf(p)] = Tail(@),
                                   !.fetched = Append(@, Head(urls)),
                                   !.at = IF Tail(urls) = <<>> THEN "verify" ELSE "next"])

(* Mutant: what was fetched is not verified.                               *)
VerifyNothing(p) ==
    /\ At_(p, "verify")
    /\ Becomes(p, [task[p] EXCEPT
             !.fetched = Tail(@), !.verified = @ \union {Head(task[p].fetched)},
             !.at = IF Tail(task[p].fetched) = <<>> THEN "next" ELSE "verify"])
    /\ UNCHANGED <<site, server, dir, lock, conn, req, disturbed>>

(* pkgfetch.c:254: the packages of the site are verified where they should *)
(* have come to; one that does not verify stays.                           *)
Verify(p) ==
    /\ At_(p, "verify")
    /\ LET f == Head(task[p].fetched)
       IN  Becomes(p, [task[p] EXCEPT
             !.fetched = Tail(@),
             !.verified = IF Verified(f) THEN @ \union {f} ELSE @,
             !.errors = @ \/ ~Verified(f),
             !.at = IF Tail(task[p].fetched) = <<>> THEN "next" ELSE "verify"])
    /\ UNCHANGED <<site, server, dir, lock, conn, req, disturbed>>

-----------------------------------------------------------------------------
(* vfile__vf_fetch: lock the directory, open or create the file, compare a *)
(* file that is not empty with the server's, transfer.                     *)

Opened(p) ==
    LET f == File_(p)
        data == IF dir[f] = NoFile THEN <<>> ELSE dir[f].data
    IN  /\ dir' = IF dir[f] = NoFile THEN [dir EXCEPT ![f] = [data |-> <<>>, mtime |-> 0]]
                  ELSE dir
        /\ req' = [req EXCEPT ![p] = [@ EXCEPT !.data = data, !.linked = TRUE,
                                               !.tries = Attempts[p]]]
        /\ Goto(p, IF data = <<>> THEN "attempt" ELSE "stat")

Open(p) ==
    /\ At_(p, "open") /\ lock \in {NoProc, p}
    /\ lock' = p
    /\ IF req[p].proto = "rsync" THEN Goto(p, "client") /\ UNCHANGED <<dir, req>> ELSE Opened(p)
    /\ UNCHANGED <<site, server, conn, disturbed>>

(* vf_stat: the file is left alone when size and time are known and equal. *)
UpToDate(p) ==
    /\ At_(p, "stat") /\ ~Interrupted(p) /\ server[File_(p)] # 0
    /\ LET f == File_(p)
           v == server[f]
       IN  /\ dir[f] # NoFile
           /\ Len(dir[f].data) = Size[v] /\ dir[f].mtime = v
           /\ Fetched(p)
    /\ Pool(p, "used") /\ Released(p)
    /\ UNCHANGED <<site, server, dir, disturbed>>

(* Any other answer, or none, removes it: by name, then it is made anew.   *)
StartAfresh(p) ==
    /\ At_(p, "stat")
    /\ LET f == File_(p)
       IN  /\ dir' = [dir EXCEPT ![f] = [data |-> <<>>, mtime |-> 0]]
           /\ req' = [Orphaned(f) EXCEPT ![p] = [@ EXCEPT !.data = <<>>, !.linked = TRUE]]
    /\ \E c \in {"used", "none", "astray"} : Pool(p, c)
    /\ Goto(p, "attempt") /\ Disturbs(p)
    /\ UNCHANGED <<site, server, lock>>

(* vfetch.c:411: the request is freed and then asked for its url when the  *)
(* status is redirected to another protocol.  The process dies.            *)
StatRedirected(p) ==
    /\ At_(p, "stat") /\ req[p].proto = "http" /\ ~Interrupted(p)
    /\ Ends(p)

-----------------------------------------------------------------------------
(* do_vfile_req: the attempts at a transfer.  ENOENT, EINTR and ENOSPC end *)
(* them; after any other error the next one goes on where the file ends.   *)

GivesUp == {"ENOENT", "EINTR", "ENOSPC"}

AttemptFails(p, r, errno) ==
    LET over == errno \in GivesUp \/ r.foreign \/ r.tries = 1
    IN  /\ req' = [req EXCEPT ![p] = IF over THEN r
                                     ELSE [r EXCEPT !.tries = @ - 1, !.redirects = 0]]
        /\ Goto(p, IF over THEN "failed" ELSE "attempt")

Stopped(p) ==
    /\ At_(p, "attempt") /\ Interrupted(p)
    /\ Goto(p, "failed")
    /\ UNCHANGED <<site, server, dir, lock, conn, req, disturbed>>

Asks(p) == Goto(p, IF req[p].proto = "ftp" THEN "ask" ELSE "answer")

(* vcn_pool_do_connect: a connection is used again when it was alive a     *)
(* moment ago, without asking, or when it still answers.  The other end    *)
(* may have closed it, and time passes, in between.                        *)
Reuse(p) ==
    /\ At_(p, "attempt") /\ ~Interrupted(p) /\ Site(p) # "none"
    /\ \/ Site(p) # "astray" /\ Pool(p, "used")
       \/ Site(p) # "fresh" /\ Pool(p, "astray")
    /\ Asks(p)
    /\ UNCHANGED <<site, server, dir, lock, req, disturbed>>

Connect(p) ==
    /\ At_(p, "attempt") /\ ~Interrupted(p)
    /\ \/ Pool(p, "fresh") /\ Asks(p) /\ UNCHANGED req
       \/ Pool(p, "none") /\ AttemptFails(p, req[p], "ECONNREFUSED")
    /\ UNCHANGED <<site, server, dir, lock, disturbed>>

(* vhttp_vcn_retr: what came wrong on the connection closes it.            *)
Fails(p, errno) == Pool(p, "none") /\ AttemptFails(p, req[p], errno)

Promised(r, v, total, pos) ==
    [r EXCEPT !.ver = v, !.total = total, !.pos = pos, !.mtime = v]

(* Mutant: an answer from the beginning is taken for the rest of the file. *)
HttpBodyAnyway(p) ==
    /\ At_(p, "answer") /\ req[p].proto = "http" /\ Site(p) # "astray"
    /\ LET v == server[File_(p)]
       IN  /\ v # 0
           /\ \E first \in {1, Len(req[p].data) + 1} :
                 req' = [req EXCEPT ![p] = Promised(@, v, Size[v], first)]
    /\ Goto(p, "body")
    /\ UNCHANGED <<site, server, dir, lock, conn, disturbed>>

(* The answer to GET, asked with a Range when the file is not empty.       *)
HttpBody(p) ==
    /\ At_(p, "answer") /\ req[p].proto = "http" /\ Site(p) # "astray"
    /\ LET v == server[File_(p)]
           off == Len(req[p].data)
       IN  \/ /\ v # 0 /\ off < Size[v]
              /\ req' = [req EXCEPT ![p] = Promised(@, v, Size[v], off + 1)]
           \/ /\ v = 0 /\ p \in Quiet /\ off = 0       \* status_code_ok, verbose = 0
              /\ req' = [req EXCEPT ![p] = Promised(@, Page, 1, 1)]
    /\ Goto(p, "body")
    /\ UNCHANGED <<site, server, dir, lock, conn, disturbed>>

(* 416: the file is complete if it has the size the server names, and is   *)
(* emptied if not.                                                         *)
RangeRefused(p) ==
    /\ At_(p, "answer") /\ req[p].proto = "http" /\ Site(p) # "astray"
    /\ LET v == server[File_(p)]
           off == Len(req[p].data)
           emptied == [data |-> <<>>, mtime |-> 0]
       IN  /\ v # 0 /\ off > 0 /\ off >= Size[v]
           /\ \/ /\ off = Size[v]
                 /\ req' = [req EXCEPT ![p].mtime = v]
                 /\ Goto(p, "close")
                 /\ Pool(p, "astray") /\ UNCHANGED <<dir, disturbed>>
              \/ /\ off # Size[v]
                 /\ dir' = IF req[p].linked THEN [dir EXCEPT ![File_(p)] = emptied] ELSE dir
                 /\ Disturbs(p)
                 /\ Pool(p, "none")
                 /\ AttemptFails(p, [req[p] EXCEPT !.data = <<>>], "EIO")
    /\ UNCHANGED <<site, server, lock>>

(* Answers that are errors: 404 and unimplemented encodings are for good,  *)
(* others, a Range that was ignored among them, are not.  What is left of  *)
(* an earlier answer, or a closed connection, does not parse.              *)
HttpError(p) ==
    /\ At_(p, "answer") /\ req[p].proto = "http"
    /\ \/ Fails(p, IF Interrupted(p) THEN "EINTR" ELSE "EIO")
       \/ /\ Site(p) # "astray" /\ (server[File_(p)] = 0 => p \notin Quiet)
          /\ Fails(p, "ENOENT")
    /\ UNCHANGED <<site, server, dir, lock, disturbed>>

(* Mutant: redirects are not counted.                                      *)
RedirectedUncounted(p) ==
    /\ At_(p, "answer") /\ req[p].proto = "http" /\ Site(p) # "astray"
    /\ \E c \in {"used", "astray", "none"} : Pool(p, c)
    /\ Goto(p, "attempt")
    /\ UNCHANGED <<site, server, dir, lock, req, disturbed>>

(* do_vfn: a redirect is followed, to the same kind of server here.  The   *)
(* page that comes with it is left on the connection.                      *)
Redirected(p) ==
    /\ At_(p, "answer") /\ req[p].proto = "http" /\ Site(p) # "astray"
    /\ \E c \in {"used", "astray", "none"} : Pool(p, c)
    /\ IF req[p].redirects <= MaxRedirects
       THEN req' = [req EXCEPT ![p].redirects = @ + 1] /\ Goto(p, "attempt")
       ELSE AttemptFails(p, req[p], "EINVAL")
    /\ UNCHANGED <<site, server, dir, lock, disturbed>>

(* A redirect to a site that speaks FTP is left to vf_fetch.               *)
RedirectedAway(p) ==
    /\ At_(p, "answer") /\ req[p].proto = "http" /\ Site(p) # "astray"
    /\ \E c \in {"astray", "none"} : Pool(p, c)
    /\ AttemptFails(p, [req[p] EXCEPT !.foreign = TRUE], "EIO")
    /\ UNCHANGED <<site, server, dir, lock, disturbed>>

-----------------------------------------------------------------------------
(* vftpcn_retr.  What goes wrong leaves the connection in the pool, with   *)
(* answers that are still to come.                                         *)

FtpFails(p, errno) ==
    /\ \E c \in {"astray", "none"} : Pool(p, c)
    /\ AttemptFails(p, req[p], errno)

(* SIZE and MDTM, which the server may not know.                           *)
FtpAsk(p) ==
    /\ At_(p, "ask") /\ Site(p) # "astray" /\ ~Interrupted(p)
    /\ \E v \in {server[File_(p)], 0} :
          req' = [req EXCEPT ![p].total = IF v = 0 THEN 0 ELSE Size[v], ![p].mtime = v]
    /\ Goto(p, "answer")
    /\ UNCHANGED <<site, server, dir, lock, conn, disturbed>>

(* REST and RETR.  The answer to REST is not looked at: a server that does *)
(* not know it sends the whole file.  Its greeting may tell the size.      *)
FtpAnswer(p) ==
    /\ At_(p, "answer") /\ req[p].proto = "ftp" /\ ~Interrupted(p)
    /\ LET v == server[File_(p)]
       IN  /\ v # 0
           /\ \E first \in {Len(req[p].data) + 1, 1}, told \in {0, Size[v]} :
                 req' = [req EXCEPT ![p].ver = v, ![p].pos = first,
                                    ![p].total = IF @ = 0 THEN told ELSE @]
           /\ Goto(p, "body")
    /\ UNCHANGED <<site, server, dir, lock, conn, disturbed>>

FtpError(p) ==
    /\ task[p].at \in {"ask", "answer"} /\ req[p].proto = "ftp"
    /\ \/ FtpFails(p, IF Interrupted(p) THEN "EINTR" ELSE "EIO")
       \/ /\ At_(p, "answer") /\ server[File_(p)] = 0
          /\ Pool(p, "fresh") /\ AttemptFails(p, req[p], "ENOENT")
    /\ UNCHANGED <<site, server, dir, lock, disturbed>>

-----------------------------------------------------------------------------
(* vfff_transfer_file.                                                     *)

HasAll(r) == r.total > 0 /\ Len(r.data) = r.total
Sent(r) == r.pos > IF r.ver = Page THEN 1 ELSE Size[r.ver]

Receive(p) ==
    /\ At_(p, "body") /\ ~HasAll(req[p]) /\ ~Sent(req[p]) /\ ~Interrupted(p)
    /\ Append_(p, <<req[p].ver, req[p].pos>>)
    /\ UNCHANGED <<site, server, lock, conn, task>>

(* The end of what comes is a success, whatever was promised.  An FTP      *)
(* server is asked how it went: a file it could not send to its end is an  *)
(* error, unless that end was already on its way.                          *)
EndOfBody(p) ==
    /\ At_(p, "body")
    /\ LET r == req[p]
           shut == ~HasAll(r) /\ ~Sent(r)
       IN  \/ /\ r.proto = "http"
              /\ \E c \in (IF shut THEN {"astray", "none"} ELSE {"used", "none"}) : Pool(p, c)
              /\ Goto(p, "close") /\ UNCHANGED req
           \/ /\ r.proto = "ftp" /\ ~shut
              /\ Pool(p, "used") /\ Goto(p, "close") /\ UNCHANGED req
           \/ /\ r.proto = "ftp" /\ ~Sent(r)
              /\ FtpFails(p, "EIO")
    /\ UNCHANGED <<site, server, dir, lock, disturbed>>

BreaksOff(p) ==
    /\ At_(p, "body") /\ ~HasAll(req[p])
    /\ \E errno \in IF Interrupted(p) THEN {"EINTR"} ELSE {"ETIMEDOUT", "ENOSPC"} :
          IF req[p].proto = "http" THEN Fails(p, errno) ELSE FtpFails(p, errno)
    /\ UNCHANGED <<site, server, dir, lock, disturbed>>

-----------------------------------------------------------------------------
(* The end of vf_fetch.                                                    *)

(* vf_request_close_destpath gives the file the server's time, by name.    *)
Close(p) ==
    /\ At_(p, "close")
    /\ dir' = IF dir[File_(p)] # NoFile /\ req[p].mtime > 0
              THEN [dir EXCEPT ![File_(p)].mtime = req[p].mtime] ELSE dir
    /\ Released(p) /\ Fetched(p)
    /\ UNCHANGED <<site, server, conn, disturbed>>

(* The file is removed; vf_fetch calls itself for the site it was sent to, *)
(* with the lock of the directory held.                                    *)
GiveUp(p) ==
    /\ At_(p, "failed")
    /\ dir' = [dir EXCEPT ![File_(p)] = NoFile] /\ Disturbs(p)
    /\ LET r == Orphaned(File_(p))
       IN  \/ /\ req[p].foreign
              /\ req' = [r EXCEPT ![p] = [NoRequest EXCEPT !.file = File_(p), !.proto = "ftp"]]
              /\ Goto(p, "open") /\ UNCHANGED lock
           \/ /\ ~req[p].foreign
              /\ req' = [r EXCEPT ![p] = NoRequest]
              /\ lock' = NoProc /\ SiteFails(p)
    /\ UNCHANGED <<site, server, conn>>

(* ffetch_file: one run of a client that fetches all files of the site.    *)
(* What it makes of them is its own affair; when poldek is interrupted as  *)
(* it waits, its exit code reads as zero (p_waitpid, p_close).             *)
Client(p) ==
    /\ At_(p, "client")
    /\ LET fs == task[p].urls[SiteOf(p)]
           outcome(f) == {dir[f]} \union
                         (IF server[f] = 0 THEN {} ELSE
                            {[data |-> [i \in 1..n |-> <<server[f], i>>], mtime |-> 0] :
                                n \in {1, Size[server[f]]}})
       IN  /\ \E new \in [ToSet(fs) -> UNION {outcome(f) : f \in ToSet(fs)}] :
                 /\ \A f \in ToSet(fs) : new[f] \in outcome(f)
                 /\ dir' = [f \in Files |-> IF f \in ToSet(fs) THEN new[f] ELSE dir[f]]
                 /\ Disturbs(p)
           /\ \/ ~Interrupted(p) /\ SiteFails(p)
              \/ Becomes(p, [task[p] EXCEPT !.urls[SiteOf(p)] = <<>>,
                                             !.fetched = @ \o fs, !.at = "verify"])
    /\ Released(p)
    /\ UNCHANGED <<site, server, conn>>

-----------------------------------------------------------------------------
(* What the world does.                                                    *)

(* A site changes a file, or withdraws it, once in an instance.            *)
Publish(f) ==
    /\ server[f] = 1
    /\ \E v \in ({0} \union Versions) \ {1} : server' = [server EXCEPT ![f] = v]
    /\ UNCHANGED <<site, dir, lock, conn, req, task, disturbed>>

Interrupt(p) ==
    /\ p \in Interruptible
    /\ task[p].at \notin {"done", "dead"} /\ ~Interrupted(p)
    /\ task' = [task EXCEPT ![p].interrupted = TRUE]
    /\ UNCHANGED <<site, server, dir, lock, conn, req, disturbed>>

Die(p) ==
    /\ p \in Mortal /\ task[p].at \notin {"done", "dead"}
    /\ Ends(p)

Request_(p) == CheckCached(p) \/ Discard(p) \/ NextFile(p) \/ NoMoreFiles(p) \/ Verify(p)
Fetch(p) == Open(p) \/ UpToDate(p) \/ StartAfresh(p) \/ StatRedirected(p) \/ Close(p)
            \/ GiveUp(p) \/ Client(p)
Attempt(p) == Stopped(p) \/ Reuse(p) \/ Connect(p)
Http(p) == HttpBody(p) \/ RangeRefused(p) \/ HttpError(p) \/ Redirected(p) \/ RedirectedAway(p)
Ftp(p) == FtpAsk(p) \/ FtpAnswer(p) \/ FtpError(p)
Transfer(p) == Receive(p) \/ EndOfBody(p) \/ BreaksOff(p)

Step(p) == Request_(p) \/ Fetch(p) \/ Attempt(p) \/ Http(p) \/ Ftp(p) \/ Transfer(p)

(* A cache as earlier runs may have left it: no file, a whole one of some  *)
(* version, or the beginning of one.                                       *)
Earlier == {NoFile} \union
           {[data |-> [i \in 1..n |-> <<1, i>>], mtime |-> 1] : n \in {1, Size[1]}}

Init ==
    /\ site \in [Files -> Protocols]
    /\ server = [f \in Files |-> 1]
    /\ dir \in [Files -> Earlier]
    /\ lock = NoProc
    /\ conn = [p \in Proc |-> NoConnections]
    /\ req = [p \in Proc |-> NoRequest]
    /\ task = [p \in Proc |->
                 [at |-> IF Wanted[p] = <<>> THEN "next" ELSE "check", look |-> Wanted[p],
                  urls |-> NoUrls, fetched |-> <<>>, verified |-> {},
                  errors |-> FALSE, interrupted |-> FALSE]]
    /\ disturbed = [p \in Proc |-> {}]

Done == \A p \in Proc : task[p].at \in {"done", "dead"}
Finished == Done /\ UNCHANGED vars

Next == \/ \E p \in Proc : Step(p) \/ Interrupt(p) \/ Die(p)
        \/ \E f \in Files : Publish(f)
        \/ Finished

(* Every wait of a process ends: for the network by a timeout, for the     *)
(* lock when its holder, which waits for the network only, is done.        *)
Fairness == \A p \in Proc : WF_vars(Step(p))

Spec == Init /\ [][Next]_vars /\ Fairness

-----------------------------------------------------------------------------
(* When packages_fetch reports success every package it was asked for is   *)
(* in the cache, whole, unless another process unlinked it, or ran its     *)
(* client on it, after it had been verified.  Files with parts of two      *)
(* versions, cut short, or with a page in place of them never count as     *)
(* fetched.                                                                *)
FetchedAreThere ==
    \A p \in Proc : task[p].at = "done" /\ ~task[p].errors =>
        \A f \in ToSet(Wanted[p]) : Verified(f) \/ f \in disturbed[p]

(* What vhttp_vcn_retr writes stands where it belongs: an answer is        *)
(* appended only when it continues the file, also if the file changed on   *)
(* the server, and an attempt adds parts of one version only.              *)
PartsInPlace ==
    \A p \in Proc : LET r == req[p] IN
        r.proto = "http" /\ task[p].at \in {"attempt", "answer", "body", "close"} =>
          /\ \A i \in 1..Len(r.data) : r.data[i][2] = i
          /\ Cardinality({r.data[i][1] : i \in 1..Len(r.data)}) <= 1 + Attempts[p] - r.tries

(* A process that fetches comes to an end.                                 *)
FetchesEnd == \A p \in Proc : <>(task[p].at \in {"done", "dead"})
=============================================================================
