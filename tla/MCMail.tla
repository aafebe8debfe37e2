------------------------------- MODULE MCMail -------------------------------
(* MailSync on a small mailbox. *)
EXTENDS MailSync

\* Two old messages, on the day before the install.
ArchiveDays == <<1, 1>>
CyclesOfBackoff == <<1, 3>>
\* The newest message that can arrive may be one that is never fetched.
PoisonChoices == {{}, {4}}

\* One of the old messages is never fetched.
PoisonArchive == {{2}}
=============================================================================
