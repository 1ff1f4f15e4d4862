------------------------------- MODULE ClipUpload -------------------------------
(***************************************************************************)
(* A finished recording on its way to S3: save_task puts video_clipped     *)
(* into scanner_output_queue, fetch_scanner_output_queue starts a thread   *)
(* per clip, and the threads share one S3Uploader (s3_uploader.py), whose  *)
(* credentials they test, renew and read under no lock. The provider of    *)
(* the credentials and S3 may fail at any request, or never answer it.     *)
(*                                                                         *)
(* Credentials are a number, one per answer of the provider; 0 is None.    *)
(* They grow old (under 60 s left) and then expire, renewed or not. Names  *)
(* that Recording has as well are here those of the upload.                *)
(***************************************************************************)
EXTENDS Naturals, FiniteSets

CONSTANTS Clips,      (* recordings                                          *)
          QueueMax,   (* maxsize of scanner_output_queue                     *)
          MaxCred     (* bound: credentials the provider gives               *)

ASSUME UploadAssumption == QueueMax \in Nat \ {0} /\ MaxCred \in Nat \ {0}

Creds == 0..MaxCred
NoCred == 0

VARIABLES
  uploader_app,      (* S3Uploader, or None when its construction failed     *)
  credentials,       (* self.credentials                                     *)
  given,             (* the last credentials the provider gave               *)
  old, expired,      (* credentials with less than 60 s left; with none left *)
  scanner_output_queue,
  pc,                (* by clip: its save_task, then its upload thread       *)
  signed,            (* the credentials that all the fields read by
                        generate_presigned_url are of; 0 if of several, and
                        after the request, when its URL is gone              *)
  files,             (* clips whose file is on the disk                      *)
  stored,            (* clips in S3                                          *)
  published,         (* clips announced on video_clipped: [clip, sized]      *)
  failed,            (* history: clips for which the provider, S3 or the disk
                        failed, or the last credentials were used up         *)
  kept,              (* history: clips in S3 whose answer was lost or whose
                        file could not be removed                            *)
  silent,            (* history: clips whose announcement raised             *)
  dropped,           (* history: clips that met a full queue                 *)
  raced              (* history: uploads whose credentials were replaced or
                        taken away between their test and their last use     *)

provider == <<uploader_app, credentials, given, old, expired>>
result == <<files, stored, published>>
upload_history == <<failed, kept, silent, dropped, raced>>
upload_vars == <<provider, scanner_output_queue, pc, signed, result, upload_history>>

\* init_uploader_app at start-up: S3Uploader() gets its first credentials, or raises,
\* and nobody tries again.
UploadInit ==
  /\ \/ uploader_app = TRUE /\ credentials = 1 /\ given = 1
     \/ uploader_app = FALSE /\ credentials = NoCred /\ given = 0
  /\ old = {} /\ expired = {}
  /\ scanner_output_queue = {}
  /\ pc = [c \in Clips |-> "save"]
  /\ signed = [c \in Clips |-> NoCred]
  /\ files = {} /\ stored = {} /\ published = {}
  /\ failed = {} /\ kept = {} /\ silent = {} /\ dropped = {} /\ raced = {}

UploadGoto(c, l) == pc' = [pc EXCEPT ![c] = l]

\* The uploads that have seen the credentials and not used them for the last time.
Using == {c \in Clips : pc[c] \in {"expiration", "renew", "key", "secret", "token"}}

--------------------------------------------------------------------------------
(* Time, and the queue. *)

GrowOld ==
  /\ old' = old \union {given}
  /\ given \notin old \union {NoCred}
  /\ UNCHANGED <<uploader_app, credentials, given, expired, scanner_output_queue, pc,
                 signed, result, upload_history>>

Expire ==
  \E k \in old \ expired :
    /\ expired' = expired \union {k}
    /\ UNCHANGED <<uploader_app, credentials, given, old, scanner_output_queue, pc,
                   signed, result, upload_history>>

\* save_task has written the file; with the queue full the clip is not announced,
\* and its file stays.
SaveTask(c) ==
  /\ pc[c] = "save"
  /\ files' = files \union {c}
  /\ \/ /\ Cardinality(scanner_output_queue) < QueueMax
        /\ scanner_output_queue' = scanner_output_queue \union {c}
        /\ UploadGoto(c, "queued")
        /\ UNCHANGED dropped
     \/ /\ Cardinality(scanner_output_queue) = QueueMax
        /\ dropped' = dropped \union {c}
        /\ UploadGoto(c, "done")
        /\ UNCHANGED scanner_output_queue
  /\ UNCHANGED <<provider, signed, stored, published, failed, kept, silent, raced>>

\* fetch_scanner_output_queue starts upload_video_clip, which does nothing without
\* an uploader_app.
TakeClip(c) ==
  /\ pc[c] = "queued"
  /\ scanner_output_queue' = scanner_output_queue \ {c}
  /\ UploadGoto(c, IF uploader_app THEN "test" ELSE "done")
  /\ UNCHANGED <<provider, signed, result, upload_history>>

--------------------------------------------------------------------------------
(* put_object, in the clip's thread. *)

\* Mutant: an exception of put_object ends the clip's thread.
EndThread(c) == UploadGoto(c, "done")

\* An exception, or an answer of S3 other than 200: put_object returns None.
Fail(c) == UploadGoto(c, "unsized")

\* get_temporary_credentials: are there any?
TestCredentials(c) ==
  /\ pc[c] = "test"
  /\ UploadGoto(c, IF credentials = NoCred THEN "fetch" ELSE "expiration")
  /\ UNCHANGED <<provider, scanner_output_queue, signed, result, upload_history>>

\* self.credentials['expiration'] is a second look: a TypeError if they are gone.
ReadExpiration(c) ==
  /\ pc[c] = "expiration"
  /\ IF credentials = NoCred THEN Fail(c)
     ELSE UploadGoto(c, IF credentials \in old THEN "renew" ELSE "key")
  /\ UNCHANGED <<provider, scanner_output_queue, signed, result, upload_history>>

\* Mutant: get_temporary_credentials does not call itself again.
DropOnly(c) ==
  /\ pc[c] = "renew"
  /\ credentials' = NoCred
  /\ raced' = raced \union (Using \ {c})
  /\ UploadGoto(c, "key")
  /\ UNCHANGED <<uploader_app, given, old, expired, scanner_output_queue, signed, result,
                 failed, kept, silent, dropped>>

\* self.credentials = None, whatever they are by now, and from the start.
DropCredentials(c) ==
  /\ pc[c] = "renew"
  /\ credentials' = NoCred
  /\ raced' = raced \union (Using \ {c})
  /\ UploadGoto(c, "test")
  /\ UNCHANGED <<uploader_app, given, old, expired, scanner_output_queue, signed, result,
                 failed, kept, silent, dropped>>

\* The provider gives new ones, or fails.
FetchCredentials(c) ==
  /\ pc[c] = "fetch"
  /\ \/ /\ given < MaxCred
        /\ given' = given + 1 /\ credentials' = given + 1
        /\ raced' = raced \union (Using \ {c})
        /\ UploadGoto(c, "key")
        /\ UNCHANGED failed
     \/ /\ failed' = failed \union {c}
        /\ Fail(c)
        /\ UNCHANGED <<given, credentials, raced>>
  /\ UNCHANGED <<uploader_app, old, expired, scanner_output_queue, signed, result, kept,
                 silent, dropped>>

\* The file's size, and the first of the three fields that generate_presigned_url
\* reads; without a file, or without credentials, it raises.
ReadAccessKey(c) ==
  /\ pc[c] = "key"
  /\ \/ /\ signed' = [signed EXCEPT ![c] = credentials]
        /\ IF credentials = NoCred THEN Fail(c) ELSE UploadGoto(c, "secret")
        /\ UNCHANGED failed
     \/ /\ failed' = failed \union {c}
        /\ Fail(c)
        /\ UNCHANGED signed
  /\ UNCHANGED <<provider, scanner_output_queue, result, kept, silent, dropped, raced>>

\* The other two. A URL with fields of several credentials is of none.
ReadField(c, here, next) ==
  /\ pc[c] = here
  /\ signed' = [signed EXCEPT ![c] = IF @ = credentials THEN @ ELSE NoCred]
  /\ IF credentials = NoCred THEN Fail(c) ELSE UploadGoto(c, next)
  /\ UNCHANGED <<provider, scanner_output_queue, result, upload_history>>

ReadSecretKey(c) == ReadField(c, "secret", "token")
ReadToken(c) == ReadField(c, "token", "put")

\* S3 takes a URL signed with one set of credentials that has not expired.
Usable(c) == signed[c] # NoCred /\ signed[c] \notin expired

\* Mutant: the file is deleted whatever S3 answers.
RequestAndRemove(c) ==
  /\ pc[c] = "put"
  /\ \/ /\ Usable(c)
        /\ stored' = stored \union {c}
        /\ UploadGoto(c, "answer")
        /\ UNCHANGED <<failed, files>>
     \/ /\ failed' = failed \union {c}
        /\ files' = files \ {c}
        /\ Fail(c)
        /\ UNCHANGED stored
  /\ signed' = [signed EXCEPT ![c] = NoCred]
  /\ UNCHANGED <<provider, scanner_output_queue, published, kept, silent, dropped,
                 raced>>

\* open and the request: S3 stores the file; or it refuses it, or open or the network
\* fails before.
Request(c) ==
  /\ pc[c] = "put"
  /\ \/ /\ Usable(c)
        /\ stored' = stored \union {c}
        /\ UploadGoto(c, "answer")
        /\ UNCHANGED failed
     \/ /\ failed' = failed \union (IF signed[c] = NoCred THEN {} ELSE {c})
        /\ Fail(c)
        /\ UNCHANGED stored
  /\ signed' = [signed EXCEPT ![c] = NoCred]
  /\ UNCHANGED <<provider, scanner_output_queue, files, published, kept, silent,
                 dropped, raced>>

\* Something fails after S3 has stored the file: it stays on the disk.
FailStored(c) ==
  /\ failed' = failed \union {c}
  /\ kept' = kept \union {c}
  /\ Fail(c)

\* The answer 200 arrives, or never does.
Answer(c) ==
  /\ pc[c] = "answer"
  /\ \/ UploadGoto(c, "remove") /\ UNCHANGED <<failed, kept>>
     \/ FailStored(c)
  /\ UNCHANGED <<provider, scanner_output_queue, signed, result, silent, dropped, raced>>

\* os.remove, and file_size returned; or it raises.
Remove(c) ==
  /\ pc[c] = "remove"
  /\ \/ files' = files \ {c} /\ UploadGoto(c, "sized") /\ UNCHANGED <<failed, kept>>
     \/ FailStored(c) /\ UNCHANGED files
  /\ UNCHANGED <<provider, scanner_output_queue, signed, stored, published, silent, dropped,
                 raced>>

\* video_clipped is published with the size of the file, or None; an exception of
\* publish ends the clip's thread.
Publish(c) ==
  /\ pc[c] \in {"sized", "unsized"}
  /\ \/ /\ published' = published \union {[clip |-> c, sized |-> pc[c] = "sized"]}
        /\ UNCHANGED silent
     \/ /\ silent' = silent \union {c}
        /\ UNCHANGED published
  /\ UploadGoto(c, "done")
  /\ UNCHANGED <<provider, scanner_output_queue, signed, files, stored, failed, kept, dropped,
                 raced>>

--------------------------------------------------------------------------------
put_object(c) ==
  \/ TestCredentials(c) \/ ReadExpiration(c) \/ DropCredentials(c) \/ FetchCredentials(c)
  \/ ReadAccessKey(c) \/ ReadSecretKey(c) \/ ReadToken(c)
  \/ Request(c) \/ Answer(c) \/ Remove(c)

upload_video_clip(c) == TakeClip(c) \/ put_object(c) \/ Publish(c)

UploadNext == GrowOld \/ Expire \/ \E c \in Clips : SaveTask(c) \/ upload_video_clip(c)

UploadSpec == UploadInit /\ [][UploadNext]_upload_vars

\* The requests, which have no timeout and may never return.
Requesting(c) == pc[c] \in {"fetch", "put", "answer"}

\* The output queue loop and the clips' threads get on, except in a request.
UploadFairSpec ==
  UploadSpec /\ \A c \in Clips : WF_upload_vars(~Requesting(c) /\ upload_video_clip(c))

--------------------------------------------------------------------------------
(* Properties. *)

Positions == {"save", "queued", "test", "expiration", "renew", "fetch", "key", "secret",
              "token", "put", "answer", "remove", "sized", "unsized", "done"}

\* Every field keeps its type, and the queue its maxsize, whoever puts into it.
UploadTypeOK ==
  /\ uploader_app \in BOOLEAN /\ credentials \in Creds /\ given \in Creds
  /\ credentials <= given
  /\ expired \subseteq old /\ old \subseteq 1..given
  /\ scanner_output_queue \subseteq Clips /\ Cardinality(scanner_output_queue) <= QueueMax
  /\ pc \in [Clips -> Positions]
  /\ signed \in [Clips -> Creds]
  /\ files \subseteq Clips /\ stored \subseteq Clips
  /\ published \subseteq [clip : Clips, sized : BOOLEAN]
  /\ failed \subseteq Clips /\ kept \subseteq Clips /\ silent \subseteq Clips
  /\ dropped \subseteq Clips /\ raced \subseteq Clips

\* An upload on its own fails only where the provider, S3 or the disk failed: what
\* get_temporary_credentials lets through, generate_presigned_url finds there and
\* S3 takes. Only another upload, renewing the credentials between the two, can make
\* it fail besides.
FailsOfRace == \A c \in Clips : pc[c] = "unsized" => c \in failed \union raced

\* No clip is lost: its file leaves the disk only when S3 has it. It is in both places
\* only until put_object has the answer and has removed the file, or where that failed
\* after S3 had stored it (kept). What is announced with a size is in S3 alone; what is
\* announced without is on the disk, like the clips that met a full queue or no uploader.
ClipKept ==
  /\ \A c \in Clips : pc[c] # "save" =>
       /\ c \in files \union stored
       /\ c \in files /\ c \in stored => pc[c] \in {"answer", "remove"} \/ c \in kept
  /\ \A p \in published : /\ p.sized => p.clip \in stored \ files
                          /\ ~p.sized => p.clip \in files

\* Every clip put into the queue is announced in the end, uploaded or not, however
\* the uploads run into each other; unless there was no uploader_app at the start, or
\* publish raised, or a request of the upload never returns.
ClipAnnounced ==
  \A c \in Clips :
    (uploader_app /\ c \in scanner_output_queue)
      ~> \/ (\E p \in published : p.clip = c) \/ c \in silent
         \/ []Requesting(c)

================================================================================
