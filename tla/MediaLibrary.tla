---------------------------- MODULE MediaLibrary ----------------------------
(***************************************************************************)
(* Local media: roots and playback sessions                                *)
(* (src/src/media-library-service.ts), the outputs of transforms with      *)
(* their rows and files (src/src/media-transform-service.ts), and the      *)
(* worker requests and routes of src/src/app.ts that use and revoke them.  *)
(*                                                                         *)
(* Everything but the run of the tool is done without an await.  Each root *)
(* has one file, whose identifier changes with its size and date.  A root  *)
(* of an organization is one of its only organization.                     *)
(***************************************************************************)
EXTENDS Nothing, Naturals, FiniteSets

CONSTANTS
  Roots, Playbacks, Outputs, Members, Homes,
  Editions,      \* sizes and dates that the file of a root may have
  Size,          \* Size[e]: the size of an edition
  Window         \* what one request may read, 262144 in the code

ASSUME MediaAssumption ==
  /\ None \notin Members \cup Homes \cup Roots
  /\ Size \in [Editions -> Nat] /\ Window \in Nat \ {0}

VARIABLES
  root,          \* root[r]: [status, of] of the row; of: its installation
  edition,       \* edition[r]: what the file of the root is now
  playback,      \* playback[p]: [status, user, of, item, got, completed]; got:
                 \* what its client has read, from the start on (history)
  member,        \* members that are not revoked
  home,          \* home[i]: the status of installation i
  output,        \* output[o]: the row [status, kind, user, of]; "pending": not yet
  file,          \* outputs whose file or directory is on the disk
  job,           \* job[o]: the handler that makes o: "none", "running", "aborted"
  orphaned       \* history: outputs whose handler ended with Core, or could not remove them

media == <<root, edition, playback, member, home, output, file, job, orphaned>>
library == <<root, edition, playback>>
transforms == <<output, file, job, orphaned>>
people == <<member, home>>

NoMediaRoot == [status |-> "none", of |-> None]
NoPlayback == [status |-> "none", user |-> None, of |-> None, item |-> None, got |-> 0, completed |-> FALSE]
NoOutput == [status |-> "none", kind |-> "file", user |-> None, of |-> None]

MediaInit ==
  /\ root = [r \in Roots |-> NoMediaRoot]
  /\ edition \in [Roots -> Editions]
  /\ playback = [p \in Playbacks |-> NoPlayback]
  /\ member = Members
  /\ home = [i \in Homes |-> "installed"]
  /\ output = [o \in Outputs |-> NoOutput]
  /\ file = {} /\ orphaned = {}
  /\ job = [o \in Outputs |-> "none"]

(* Requests reach Core over a connection that revocation cuts, and need    *)
(* the media capability, which only an installed plugin has.               *)
Serves(u, i) == u \in member /\ home[i] = "installed"

Item(r) == <<r, edition[r]>>
ItemsOf(i) == {Item(r) : r \in {q \in Roots : root[q] = [status |-> "live", of |-> i]}}

(* addRoot() takes any installation, also one that is not there any more.  *)
AddRoot(r, i) ==
  /\ root[r] = NoMediaRoot
  /\ root' = [root EXCEPT ![r] = [status |-> "live", of |-> i]]
  /\ UNCHANGED <<edition, playback, people, transforms>>

RevokeRoot(r) ==
  /\ root[r].status = "live"
  /\ root' = [root EXCEPT ![r].status = "revoked"]
  /\ UNCHANGED <<edition, playback, people, transforms>>

FileChanges(r, e) ==
  /\ edition' = [edition EXCEPT ![r] = e]
  /\ UNCHANGED <<root, playback, people, transforms>>

CreatePlayback(p, u, i) ==
  /\ playback[p] = NoPlayback
  /\ \E found \in ItemsOf(i) :
        playback' = [playback EXCEPT ![p] = [NoPlayback EXCEPT
                       !.status = "live", !.user = u, !.of = i, !.item = found]]
  /\ UNCHANGED <<root, edition, people, transforms>>

Count(start, end, size) == IF end < size - 1 THEN end - start + 1 ELSE size - start

(* read(): the identifier is looked up again among the files that are      *)
(* there now.  A client that plays goes on where it is, with any range.    *)
ReadItem(p, u, i, end) ==
  LET start == playback[p].got
      size  == Size[playback[p].item[2]]
  IN  /\ playback[p].status = "live" /\ playback[p].user = u /\ playback[p].of = i
      /\ playback[p].item \in ItemsOf(i)
      /\ end >= start /\ end - start < Window /\ start < size
      /\ playback' = [playback EXCEPT ![p].got = start + Count(start, end, size),
                                      ![p].completed = start + Count(start, end, size) >= size]
      /\ UNCHANGED <<root, edition, people, transforms>>

(* onWorkerRequest, as far as media is concerned; what it enqueues is in   *)
(* PluginJobs.                                                             *)
MediaRequest(u, i) ==
  /\ Serves(u, i)
  /\ \/ \E p \in Playbacks : CreatePlayback(p, u, i)
     \/ \E p \in Playbacks, end \in 0 .. 2 * Window : ReadItem(p, u, i, end)

PlaybackExpires(p) ==
  /\ playback[p].status = "live"
  /\ playback' = [playback EXCEPT ![p].status = "overdue"]
  /\ UNCHANGED <<root, edition, people, transforms>>

(***************************************************************************)
(* Transforms.  The handler finds the source, lets the tool write the file *)
(* or the directory, and inserts the row when the tool has succeeded; a    *)
(* tool that was told to end is a failure, whatever it wrote.  A queued    *)
(* job of a scope that is revoked is closed (PluginJobs), so that a        *)
(* handler begins in a scope that is served.                               *)
(***************************************************************************)
StartTransform(o, kind, u, i) ==
  /\ job[o] = "none" /\ output[o] = NoOutput /\ o \notin file
  /\ Serves(u, i) /\ ItemsOf(i) # {}
  /\ job' = [job EXCEPT ![o] = "running"]
  /\ output' = [output EXCEPT ![o] = [status |-> "pending", kind |-> kind, user |-> u, of |-> i]]
  /\ file' = IF kind = "hls" THEN file \cup {o} ELSE file
  /\ UNCHANGED <<library, people, orphaned>>

ToolWrites(o) ==
  /\ job[o] # "none"
  /\ file' = file \cup {o}
  /\ UNCHANGED <<library, people, output, job, orphaned>>

FaultySucceed(o) ==
  /\ job[o] # "none" /\ o \in file
  /\ output' = [output EXCEPT ![o].status = "live"]
  /\ job' = [job EXCEPT ![o] = "none"]
  /\ UNCHANGED <<library, people, file, orphaned>>

Succeed(o) ==
  /\ job[o] = "running" /\ o \in file
  /\ output' = [output EXCEPT ![o].status = "live"]
  /\ job' = [job EXCEPT ![o] = "none"]
  /\ UNCHANGED <<library, people, file, orphaned>>

(* What was written is removed, if it can be. *)
FailTransform(o) ==
  /\ job[o] # "none"
  /\ output' = [output EXCEPT ![o] = NoOutput]
  /\ \/ file' = file \ {o} /\ UNCHANGED orphaned
     \/ orphaned' = orphaned \cup {o} /\ UNCHANGED file
  /\ job' = [job EXCEPT ![o] = "none"]
  /\ UNCHANGED <<library, people>>

(* readTransformOutput() and, for the route, readTransformOutputForUser(), *)
(* which takes the installation from the row; readHlsAsset().              *)
OutputRow(o, u, i) ==
  output[o].status = "live" /\ output[o].kind = "file" /\ output[o].user = u /\ output[o].of = i

OutputRowForUser(o, u) == \E i \in Homes : OutputRow(o, u, i)

HlsRow(o, u, i) ==
  output[o].status = "live" /\ output[o].kind = "hls" /\ output[o].user = u /\ output[o].of = i

OutputExpires(o) ==
  /\ output[o].status = "live"
  /\ output' = [output EXCEPT ![o].status = "overdue"]
  /\ UNCHANGED <<library, people, file, job, orphaned>>

(***************************************************************************)
(* Logout, revocation of a user, disabling and uninstalling.  The rows of  *)
(* HLS sessions are revoked, those of files are not; logging out leaves    *)
(* the jobs of the user alone.                                             *)
(***************************************************************************)
Withdrawn(table, xs) ==
  [x \in DOMAIN table |-> IF x \in xs /\ table[x].status \in {"live", "overdue"}
                          THEN [table[x] EXCEPT !.status = "revoked"] ELSE table[x]]

Belonging(table, users, homes) == {x \in DOMAIN table : table[x].user \in users /\ table[x].of \in homes}

WithdrawPlayback(users, homes) ==
  /\ playback' = Withdrawn(playback, Belonging(playback, users, homes))
  /\ output' = Withdrawn(output, {o \in Belonging(output, users, homes) : output[o].kind = "hls"})

AbortJobs(users, homes) ==
  job' = [o \in Outputs |-> IF job[o] = "running" /\ o \in Belonging(output, users, homes)
                            THEN "aborted" ELSE job[o]]

LogoutMember(u) ==
  /\ WithdrawPlayback({u}, Homes)
  /\ UNCHANGED <<root, edition, people, file, job, orphaned>>

RevokeMember(u) ==
  /\ u \in member
  /\ member' = member \ {u}
  /\ WithdrawPlayback({u}, Homes) /\ AbortJobs({u}, Homes)
  /\ UNCHANGED <<root, edition, home, file, orphaned>>

DisableHome(i) ==
  /\ home[i] = "installed"
  /\ home' = [home EXCEPT ![i] = "disabled"]
  /\ WithdrawPlayback(Members, {i}) /\ AbortJobs(Members, {i})
  /\ UNCHANGED <<root, edition, member, file, orphaned>>

EnableHome(i) ==
  /\ home[i] = "disabled"
  /\ home' = [home EXCEPT ![i] = "installed"]
  /\ UNCHANGED <<library, member, transforms>>

UninstallHome(i) ==
  /\ home[i] = "disabled"
  /\ home' = [home EXCEPT ![i] = "uninstalled"]
  /\ WithdrawPlayback(Members, {i}) /\ AbortJobs(Members, {i})
  /\ root' = Withdrawn(root, {r \in Roots : root[r].of = i})
  /\ UNCHANGED <<edition, member, file, orphaned>>

(***************************************************************************)
(* Core ends, and removes the outputs that are overdue or revoked when it  *)
(* starts again: the file first, then the row, one after the other.        *)
(***************************************************************************)
MediaCrash ==
  /\ orphaned' = orphaned \cup {o \in Outputs : job[o] # "none"}
  /\ output' = [o \in Outputs |-> IF output[o].status = "pending" THEN NoOutput ELSE output[o]]
  /\ job' = [o \in Outputs |-> "none"]
  /\ UNCHANGED <<library, people, file>>

Removable(o) == output[o].status \in {"overdue", "revoked"}

Cleanup(o) ==
  /\ \A q \in Outputs : job[q] = "none"          \* before requests are served
  /\ Removable(o)
  /\ file' = file \ {o}
  /\ output' = [output EXCEPT ![o] = NoOutput]
     \/ UNCHANGED output                         \* Core ends between the two
  /\ UNCHANGED <<library, people, job, orphaned>>

MediaNext ==
  \/ \E r \in Roots, i \in Homes : AddRoot(r, i)
  \/ \E r \in Roots : RevokeRoot(r)
  \/ \E r \in Roots, e \in Editions : FileChanges(r, e)
  \/ \E u \in Members, i \in Homes : MediaRequest(u, i)
  \/ \E p \in Playbacks : PlaybackExpires(p)
  \/ \E o \in Outputs, kind \in {"file", "hls"}, u \in Members, i \in Homes : StartTransform(o, kind, u, i)
  \/ \E o \in Outputs : ToolWrites(o)
  \/ \E o \in Outputs : Succeed(o)
  \/ \E o \in Outputs : FailTransform(o)
  \/ \E o \in Outputs : OutputExpires(o)
  \/ \E u \in Members : LogoutMember(u)
  \/ \E u \in Members : RevokeMember(u)
  \/ \E i \in Homes : DisableHome(i)
  \/ \E i \in Homes : EnableHome(i)
  \/ \E i \in Homes : UninstallHome(i)
  \/ MediaCrash
  \/ \E o \in Outputs : Cleanup(o)

MediaSpec == MediaInit /\ [][MediaNext]_media

Unrevoked == {"live", "overdue"}

MediaTypeOK ==
  /\ root \in [Roots -> [status : {"none", "live", "revoked"}, of : Homes \cup {None}]]
  /\ edition \in [Roots -> Editions]
  /\ playback \in [Playbacks -> [status : {"none", "revoked"} \cup Unrevoked, user : Members \cup {None},
                                 of : Homes \cup {None}, item : (Roots \X Editions) \cup {None},
                                 got : Nat, completed : BOOLEAN]]
  /\ member \subseteq Members /\ file \subseteq Outputs /\ orphaned \subseteq Outputs
  /\ home \in [Homes -> {"installed", "disabled", "uninstalled"}]
  /\ output \in [Outputs -> [status : {"none", "pending", "revoked"} \cup Unrevoked, kind : {"file", "hls"},
                             user : Members \cup {None}, of : Homes \cup {None}]]
  /\ job \in [Outputs -> {"none", "running", "aborted"}]

(***************************************************************************)
(* A playback session or an HLS session that was not withdrawn belongs to  *)
(* a user and an installation that are still there, through any disabling  *)
(* and enabling, although a tool may end at any time around it.            *)
(***************************************************************************)
PlaybackWithdrawn ==
  /\ \A p \in Playbacks : playback[p].status \in Unrevoked => Serves(playback[p].user, playback[p].of)
  /\ \A o \in Outputs : output[o].kind = "hls" /\ output[o].status \in Unrevoked => Serves(output[o].user, output[o].of)

(***************************************************************************)
(* Who reads a playback session to its end has the whole of one edition of *)
(* the file, nothing beyond it and nothing twice, whatever ranges it asks  *)
(* for and however the file changes in between (read).                     *)
(***************************************************************************)
ReadsWhole ==
  \A p \in Playbacks : playback[p] # NoPlayback =>
     /\ playback[p].got <= Size[playback[p].item[2]]
     /\ playback[p].completed <=> playback[p].got > 0 /\ playback[p].got = Size[playback[p].item[2]]

(***************************************************************************)
(* A row that can be read has its file, and a file without a row is being  *)
(* written, or was left by the end of Core or by a removal that failed     *)
(* (nothing removes those later): the handler's order, its cleanup on      *)
(* failure, and the cleanup at start.                                      *)
(***************************************************************************)
OutputsAccountedFor ==
  \A o \in Outputs :
     /\ \A u \in Members, i \in Homes : OutputRowForUser(o, u) \/ HlsRow(o, u, i) => o \in file
     /\ o \in file /\ output[o].status \in {"none", "pending"} => job[o] # "none" \/ o \in orphaned

(***************************************************************************)
(* The media library as a whole: withdrawn playback, whole reads, outputs  *)
(* that are accounted for (media-library-service.ts, media-transform...).  *)
(***************************************************************************)
MediaSound == MediaTypeOK /\ PlaybackWithdrawn /\ ReadsWhole /\ OutputsAccountedFor
=============================================================================
