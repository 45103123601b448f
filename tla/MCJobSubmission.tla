-------------------------- MODULE MCJobSubmission ---------------------------
(***************************************************************************)
(* Small instances of JobSubmission for TLC.                               *)
(***************************************************************************)
EXTENDS JobSubmission, TLC

CONSTANTS i1, i2, f1, r1, r2

Typed(command, start, limit, deps) ==
    [command |-> command, start_time |-> start, limit |-> limit, depends_on |-> deps]

\* The form, one edit after the other: good contents, due at once or later, and
\* each kind of bad ones, with dependencies on a job, twice on it, on no id.
FormContents ==
    {Typed("text", 1, "fine", <<>>), Typed("text", 2, "fine", <<>>),
     Typed("", 2, "fine", <<>>), Typed("text", 2, "fraction", <<>>),
     Typed("", 2, "fraction", <<>>),
     Typed("text", 2, "fine", <<i1>>), Typed("text", 2, "fine", <<i1, i1>>),
     Typed("text", 2, "fine", <<Malformed>>)}

\* Other clients: a good request, and one for each check the form makes first.
OtherPosts ==
    {Typed("text", 2, "fine", <<>>), Typed("text", 2, "fine", <<i2>>),
     Typed("", NULL, "nonpositive", <<>>), Typed("spaces", 2, "fine", <<>>),
     Typed("text", 2, "toolarge", <<i1>>)}

\* Requests are told apart by nothing.
RequestSymmetry == Permutations(Requests)
=============================================================================
