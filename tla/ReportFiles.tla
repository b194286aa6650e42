----------------------------- MODULE ReportFiles -----------------------------
(* What is kept of voluntary reports, and what their senders were told: the *)
(* collectors' log of the day and the web service's files.  Reports has the *)
(* requests that write them.                                               *)

CONSTANT Names  \* report_id of Windows clients

VARIABLES
  today, older, \* the log: whole records of reports, other records, a torn tail
  doc,          \* connect: the files, None or "half" or a content
  told,         \* the sender was told the report is accepted
  kept,         \* history: removed by age after it was on file
  spoiled       \* history: written behind a torn tail

\* A report whose sender was told that it is accepted is on file, whole and as it
\* was sent, until its age removes it: over retries by another way, limits, full
\* disks and restarts.  Except behind a line that a full disk or a crash tore.
AcceptedIsKept ==
  \A r \in told : \/ r \in today.whole \cup older \cup kept \cup spoiled
                  \/ \E n \in Names : r = <<n, doc[n]>>
==============================================================================
