------------------------------- MODULE Texts -------------------------------
(***************************************************************************)
(* The parts of stmp2log that compute and keep nothing, put to the         *)
(* question: one question is asked, and each property is about the answer  *)
(* to one kind of question.                                                *)
(***************************************************************************)
EXTENDS Questions

CONSTANTS
    Kilo, Word, Host, MaxPiece, LineLetters, MaxSize, MaxDepth, MaxAttachments,
    Changes,     \* config files with changes of the settings
    Notes,       \* mails that stmp2log writes
    Trees,       \* mails that devices write
    Attachments  \* bodies of attachments in base64

File  == INSTANCE ConfigFile
Mime  == INSTANCE MailText

ASSUME TextsAssumption ==
    /\ File!FileAssumption
    /\ Mime!MailTextAssumption

Next ==
    \/ AskAny
    \/ Ask(Changes)
    \/ Ask(Notes)
    \/ Ask(Trees)
    \/ Ask(Attachments)

Spec == Init /\ [][Next]_asked

-----------------------------------------------------------------------------
(* Settings that were changed at run time are the same after a restart     *)
(* (config.rs: apply, update, parse), and nothing else in the file has     *)
(* changed its meaning.                                                    *)
SettingsSurvive ==
    asked.about = "change" =>
        /\ File!ComesBack(asked.file, asked.patches)
        /\ File!RestIsKept(asked.file, asked.patches)
        /\ File!OrderIsFree(asked.file)

(* What is written into a mail is what is read from it: the notifications  *)
(* that stmp2log sends (smtp.rs, compose), and the parts of a device's mail*)
(* (parse.rs), with the size that their attachments have.                  *)
MailReadsBack ==
    /\ asked.about = "note" => Mime!ReadsBack(asked.title, asked.body)
    /\ asked.about = "tree" => Mime!PartsAreFound(asked.tree)
    /\ asked.about = "attachment" => Mime!SizeIsRight(asked.letters)
=============================================================================
