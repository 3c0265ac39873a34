----------------------------- MODULE SubmissionForm -----------------------------
(* What a submission must look like before anything is spent on it: the fields  *)
(* of the form, the resume's bytes and the values of the domain model, against  *)
(* what the leads table will store.                                             *)
EXTENDS Problems

CONSTANTS
    NameMax,            \* NAME_MAX_LENGTH
    EmailMax,           \* EMAIL_MAX_LENGTH
    CommentsMax,        \* COMMENTS_MAX_LENGTH
    FilenameMax,        \* length a stored file name is cut to
    MaxResume           \* MAX_RESUME_BYTES, in units of the model

ASSUME FormAssumption ==
    {NameMax, EmailMax, CommentsMax, FilenameMax, MaxResume} \subseteq Nat \ {0}

\* A text as it arrives: its length without surrounding white space, whether the
\* compatibility normalisation makes it longer, and the controls inside it.
Texts(max) ==
    [length : 0 .. max + 1, expands : BOOLEAN, controls : {"none", "line", "other"}]

\* The length after unicodedata.normalize("NFKC").
Normalized(t) == IF t.expands THEN 2 * t.length ELSE t.length

\* A form: the names of its fields, and what they hold. "several" stands for a
\* repeated or unknown name, "text" for a resume that is no file, "file" for a
\* text field that is one, "broken" for a body the parser gives up on.
Good ==
    LET plain == [length |-> 1, expands |-> FALSE, controls |-> "none"] IN
    [shape |-> "complete", first |-> plain, last |-> plain,
     email |-> [text |-> plain, address |-> TRUE],
     comments |-> [given |-> FALSE, text |-> plain],
     acknowledged |-> "true",
     resume |-> [size |-> 1, looks |-> "pdf", archive |-> "sound"],
     filename |-> 1]

\* Every form that departs from a good one in one respect.
Forms ==
    {[Good EXCEPT !.shape = x] :
        x \in {"complete", "missing", "several", "text", "file", "broken"}} \cup
    {[Good EXCEPT !.first = x] : x \in Texts(NameMax)} \cup
    {[Good EXCEPT !.last = x] : x \in Texts(NameMax)} \cup
    {[Good EXCEPT !.email = x] : x \in [text : Texts(EmailMax), address : BOOLEAN]} \cup
    {[Good EXCEPT !.comments = x] : x \in [given : BOOLEAN, text : Texts(CommentsMax)]} \cup
    {[Good EXCEPT !.acknowledged = x] : x \in {"true", "false", "junk"}} \cup
    {[Good EXCEPT !.resume = x] :
        x \in [size : 0 .. MaxResume + 1, looks : {"pdf", "doc", "docx", "other"},
               archive : {"sound", "unsafe", "incomplete", "corrupt"}]} \cup
    {[Good EXCEPT !.filename = x] : x \in 0 .. FilenameMax + 1}

--------------------------------------------------------------------------------
Refusal(bad, class, code) == IF bad THEN {Exception(class, code)} ELSE {}

\* Mutant of NameRefused: the length is checked before the normalisation.
NameRefusedLate(t) ==
    Normalized(t) = 0 \/ t.length > NameMax \/ t.controls # "none"

NameRefused(t) ==
    Normalized(t) = 0 \/ Normalized(t) > NameMax \/ t.controls # "none"

EmailRefused(e) == Normalized(e.text) > EmailMax \/ ~e.address

\* Blank comments count as none; line breaks are allowed in others.
Commented(f) == f.comments.given /\ Normalized(f.comments.text) > 0

CommentsRefused(f) ==
    Commented(f) /\ (Normalized(f.comments.text) > CommentsMax
                     \/ f.comments.text.controls = "other")

\* The signature decides, not the name; a word archive is measured before it is
\* unpacked.
ResumeRefused(r) ==
    \/ r.size = 0
    \/ r.looks = "other"
    \/ r.looks = "docx" /\ r.archive # "sound"

\* The exceptions a form can end in: the code raises the first of them.
Refusals(f) ==
    Refusal(f.shape = "broken", "DomainError", "invalid_multipart") \cup
    Refusal(f.shape \in {"missing", "several", "file"}, "DomainError",
            "invalid_multipart_fields") \cup
    Refusal(f.shape = "text" \/ ResumeRefused(f.resume), "DomainError", "invalid_resume") \cup
    Refusal(f.resume.size > MaxResume, "DomainError", "resume_too_large") \cup
    Refusal(f.acknowledged = "junk", "DomainError", "invalid_acknowledgement") \cup
    Refusal(f.acknowledged = "false", "ApplicationError", "application_error") \cup
    Refusal(NameRefused(f.first) \/ NameRefused(f.last), "DomainError", "invalid_name") \cup
    Refusal(EmailRefused(f.email), "DomainError", "invalid_email") \cup
    Refusal(CommentsRefused(f), "DomainError", "invalid_comments")

FormRefusals == UNION {Refusals(f) : f \in Forms}

\* The row the creation function is asked to insert.
Row(f) ==
    [first |-> [length |-> Normalized(f.first), controls |-> f.first.controls],
     last |-> [length |-> Normalized(f.last), controls |-> f.last.controls],
     email |-> Normalized(f.email.text),
     comments |-> IF Commented(f)
                  THEN [length |-> Normalized(f.comments.text),
                        controls |-> f.comments.text.controls]
                  ELSE [length |-> 0, controls |-> "none"],
     filename |-> IF f.filename = 0 THEN 1
                  ELSE IF f.filename > FilenameMax THEN FilenameMax ELSE f.filename,
     bytes |-> f.resume.size]

AcceptedRows == {Row(f) : f \in {g \in Forms : Refusals(g) = {}}}

\* The constraints of the leads table. (Comments of length 0 are null.)
Storable(row) ==
    /\ \A name \in {row.first, row.last} : name.length \in 1 .. NameMax /\ name.controls = "none"
    /\ row.email <= EmailMax
    /\ row.comments.length <= CommentsMax /\ row.comments.controls # "other"
    /\ row.filename \in 1 .. FilenameMax
    /\ row.bytes \in 1 .. MaxResume

================================================================================
