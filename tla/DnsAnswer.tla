------------------------------ MODULE DnsAnswer ------------------------------
(***************************************************************************)
(* What one DNS lookup tells the audit: the rows of the answer section and *)
(* the metadata of resolver.py's side channel (response code, error bit).  *)
(* Row contents are opaque; the code decides on the response code.         *)
(***************************************************************************)
CONSTANTS
  Rows,       (* the answer sections a lookup may return                   *)
  Empty,      (* the one without rows: Python's []                         *)
  Statuses,   (* response codes, with NoStatus for "no code seen"          *)
  Unread      (* no observation yet                                        *)

NoStatus == "none"

(* Only these response codes establish presence or absence.                *)
Authoritative == {"NOERROR", "NXDOMAIN"}

Metadata == [status : Statuses, error : BOOLEAN]

NormalizedMeta(status, error) ==
  [status |-> status, error |-> error \/ status \notin Authoritative]

(* meta() of a name the resolver recorded nothing for: an empty dict.      *)
NoMeta == [status |-> NoStatus, error |-> FALSE]

Answers == [rows : Rows, meta : Metadata]

(* What dig() keeps when the backend raises.                               *)
LookupError ==
  [rows |-> Empty, meta |-> [status |-> NoStatus, error |-> TRUE]]

(* _dns_failure_reason: the reason exists, its wording is left out.        *)
Failed(answer) ==
  \/ answer.meta.status = NoStatus
  \/ answer.meta.error
  \/ answer.meta.status \notin Authoritative

ASSUME AnswerAssumption ==
  /\ Empty \in Rows
  /\ NoStatus \in Statuses
  /\ Unread \notin Answers
  /\ Unread \notin Rows
=============================================================================
