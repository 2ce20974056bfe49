--------------------------- MODULE ConformanceCheck --------------------------
(***************************************************************************)
(* authmd check (packages/cli): runCli (cli.ts) around runConformanceCheck *)
(* (check.ts), which fetches auth.md, the protected resource metadata and  *)
(* the authorization server metadata over fetchDocument (fetcher.ts), with *)
(* several candidates for the latter two, and reports what the validators  *)
(* of module Metadata find. The hosts answer whatever they like.           *)
(***************************************************************************)
EXTENDS Metadata

CONSTANTS
  MaxRedirects,       \* maxRedirects
  MaxCandidates,      \* bound: URLs tried for one metadata document
  AuthMdDocs,         \* the documents that hosts serve
  ResourceDocs,
  ServerDocs,
  NoDocument          \* a document that was not had

ASSUME CheckAssumption ==
  /\ MaxRedirects \in Nat /\ MaxCandidates \in Nat \ {0}
  /\ AuthMdDocs \subseteq AuthMd
  /\ ResourceDocs \subseteq ResourceMetadata
  /\ ServerDocs \subseteq ServerMetadata
  /\ NoDocument \notin AuthMdDocs \union ResourceDocs \union ServerDocs

VARIABLES
  step,        \* "args", "config", the document being fetched, "report", "exited" or "helped"
  failOn,      \* the threshold
  remoteSubject,  \* the subject is a URL
  candidates,  \* URLs left to try, the current one included
  hops,        \* redirects followed for the current one
  findings,    \* errors and warnings
  documents,   \* the documents the check went by
  exit         \* the exit code

checkVars == <<step, failOn, remoteSubject, candidates, hops, findings, documents, exit>>

Success == 0
Findings == 1
Usage == 2
Internal == 3
Running == 4  \* no exit code yet

NotFound == [authMd |-> NoDocument, resource |-> NoDocument, server |-> NoDocument]

CheckInit ==
  /\ step = "args"
  /\ failOn = "error"
  /\ remoteSubject = TRUE
  /\ candidates = 0 /\ hops = 0
  /\ findings = [errors |-> {}, warnings |-> {}]
  /\ documents = NotFound
  /\ exit = Running

Exit(code) == step' = "exited" /\ exit' = code

(***************************************************************************)
(* The command                                                             *)
(***************************************************************************)

\* Unknown flags, values or arguments; help and version come before the command is looked at.
ParseArgs ==
  /\ step = "args"
  /\ \/ Exit(Usage)
     \/ step' = "helped" /\ exit' = Success
     \/ step' = "config" /\ UNCHANGED exit
  /\ UNCHANGED <<failOn, remoteSubject, candidates, hops, findings, documents>>

\* The threshold: --fail-on, or else the file's, or else "error".
MergedFailOn(flag, file) ==
  CASE flag # Absent -> flag
    [] file # Absent -> file
    [] OTHER -> "error"

LoadConfig ==
  /\ step = "config"
  /\ \/ Exit(Usage) /\ UNCHANGED <<failOn, remoteSubject, candidates>>  \* no file, bad JSON, bad subject
     \/ /\ \E flag, file \in {Absent, "error", "warning", "never"} : failOn' = MergedFailOn(flag, file)
        /\ remoteSubject' \in BOOLEAN
        /\ step' = "authMd"
        /\ candidates' = 1
        /\ UNCHANGED exit
  /\ UNCHANGED <<hops, findings, documents>>

(***************************************************************************)
(* fetchDocument                                                           *)
(***************************************************************************)

\* "none": the transport failed (DNS, TLS, timeout, network, or a body that is too long).
Answer == [status: {"none", "redirect", "success", "other"},
           location: {Absent, "https", "http", Malformed},
           fits: BOOLEAN, typed: BOOLEAN]

Follows(a) == a.status = "redirect" /\ a.location = "https" /\ hops < MaxRedirects
Accepts(a) == a.status = "success" /\ a.fits /\ a.typed

Fetching == step \in {"authMd", "resource", "server"} /\ remoteSubject

FollowRedirect(a) ==
  /\ Fetching
  /\ Follows(a)
  /\ hops' = hops + 1
  /\ UNCHANGED <<step, failOn, remoteSubject, candidates, findings, documents, exit>>

\* The next document, with its candidates; every one starts with its first URL.
Proceed(next) ==
  /\ step' = next
  /\ hops' = 0
  /\ candidates' \in IF next = "report" THEN {0} ELSE 1..MaxCandidates

AddErrors(rules) == findings' = [findings EXCEPT !.errors = @ \union rules]

ReportedNothing(rule) == {}  \* fault: a document that cannot be had is not reported
Reported(rule) == {rule}     \* of several candidates, only the last one's failure

\* A candidate that cannot be fetched, or, of the metadata, is no JSON object: the next one is
\* tried. Without auth.md the check ends.
CandidateFails(rule) ==
  /\ IF candidates > 1
     THEN /\ candidates' = candidates - 1
          /\ hops' = 0
          /\ UNCHANGED <<step, findings>>
     ELSE AddErrors(Reported(rule)) /\ Proceed("report")
  /\ UNCHANGED <<failOn, remoteSubject, documents, exit>>

FetchFails(a) ==
  /\ Fetching
  /\ ~Follows(a) /\ ~Accepts(a)
  /\ CandidateFails("FETCH")

(***************************************************************************)
(* runConformanceCheck                                                     *)
(***************************************************************************)

Validated(d) ==
  findings' = [errors |-> findings.errors \union ValidateAuthMd(d),
               warnings |-> findings.warnings \union AuthMdWarnings(d)]

\* An accepted answer, or the file, brings the document. Of a local file, nothing else is
\* checked.
ReadAuthMd ==
  /\ step = "authMd"
  /\ \E d \in AuthMdDocs :
       /\ Validated(d)
       /\ documents' = [documents EXCEPT !.authMd = d]
  /\ Proceed(IF remoteSubject THEN "resource" ELSE "report")
  /\ UNCHANGED <<failOn, remoteSubject, exit>>

ReadFails ==
  /\ step = "authMd" /\ ~remoteSubject
  /\ Exit(Usage)
  /\ UNCHANGED <<failOn, remoteSubject, candidates, hops, findings, documents>>

NotAnObject ==
  /\ step \in {"resource", "server"}
  /\ CandidateFails("METADATA_JSON")

\* Without any valid authorization server there is no server metadata to look for.
ReadResource ==
  /\ step = "resource"
  /\ \E r \in ResourceDocs :
       /\ AddErrors(ValidateResource(r))
       /\ documents' = [documents EXCEPT !.resource = r]
       /\ Proceed(IF DeclaredServer(r) = Absent THEN "report" ELSE "server")
  /\ UNCHANGED <<failOn, remoteSubject, exit>>

ReadServer ==
  /\ step = "server"
  /\ \E m \in ServerDocs :
       /\ AddErrors(ValidateServer(m, documents.resource, documents.authMd))
       /\ documents' = [documents EXCEPT !.server = m]
  /\ Proceed("report")
  /\ UNCHANGED <<failOn, remoteSubject, exit>>

ExitCode ==
  IF failOn # "never" /\ (findings.errors # {} \/ (failOn = "warning" /\ findings.warnings # {}))
  THEN Findings ELSE Success

\* The report is printed; then its copy may fail to be written.
Report ==
  /\ step = "report"
  /\ Exit(ExitCode) \/ Exit(Internal)
  /\ UNCHANGED <<failOn, remoteSubject, candidates, hops, findings, documents>>

CheckNext ==
  \/ ParseArgs
  \/ LoadConfig
  \/ \E a \in Answer : FollowRedirect(a) \/ FetchFails(a)
  \/ ReadAuthMd
  \/ ReadFails
  \/ NotAnObject
  \/ ReadResource
  \/ ReadServer
  \/ Report

\* Exit code 0 of a check that may fail is earned: all three documents were had, within the
\* limit of redirects, and they agree to the point that an agent can go by them. (A local file
\* is checked by itself, and help and version check nothing.)
CleanReportIsEarned ==
  /\ hops <= MaxRedirects
  /\ step = "exited" /\ exit = Success /\ failOn # "never" =>
       /\ findings.errors = {}
       /\ remoteSubject => NoDocument \notin {documents.resource, documents.server}
                    /\ AgentCanFollow(documents.authMd, documents.resource, documents.server)
=============================================================================
