------------------------------- MODULE DllLookup -------------------------------
(***************************************************************************)
(* findOrPromptForDllPath (external/utils.cpp): the module is looked for in *)
(* the injector's own folder, then in Downloads, and then the player is     *)
(* asked for its path until one will do.  The files come and go under it,   *)
(* and folders may have names that the code page cannot spell.  A path      *)
(* stands here for the place it names.                                      *)
(***************************************************************************)

CONSTANTS
    Typed,     \* the places the player may name
    DotDll,    \* those of them whose name ends in ".dll"
    Folders,   \* those that are folders
    Relative   \* those named relative to the current directory

ASSUME TypedAssumption ==
    /\ DotDll \subseteq Typed
    /\ Folders \subseteq Typed
    /\ Relative \subseteq Typed
    /\ Typed \intersect {"exeDir", "downloads", "none"} = {}

Defaults == {"exeDir", "downloads"}
Places == Defaults \union Typed

(* The name of a folder: ASCII, or also other characters of the ANSI code   *)
(* page, or also characters that are not in it.                             *)
Spellings == {"ascii", "ansi", "unicode"}

VARIABLES
    files,      \* of the places that matter, those where there is something:
                \* the default ones, and in the end the one returned
    exeDir,     \* how the injector's folder is spelt
    downloads,  \* how Downloads is spelt; "unknown" when Windows does not tell
    looking,    \* where findOrPromptForDllPath is
    dllPath,    \* the path it returned, "none" before
    input,      \* the standard input: "open" or "ended"
    kept,       \* history: the default places that held a file all the time,
                \* from the start to the end of the lookup
    removed     \* history: the file at dllPath was removed after the lookup

places == <<files, exeDir, downloads, kept, removed>>
lookupVars == <<places, looking, dllPath, input>>

LookupTypeOK ==
    /\ files \subseteq Places
    /\ exeDir \in Spellings
    /\ downloads \in Spellings \union {"unknown"}
    /\ looking \in {"exeDir", "downloads", "prompt", "found", "aborted"}
    /\ dllPath \in Places \union {"none"}
    /\ looking = "found" <=> dllPath # "none"
    /\ input \in {"open", "ended"}
    /\ kept \subseteq Defaults
    /\ removed \in BOOLEAN

LookupInit ==
    /\ files \in SUBSET Defaults
    /\ exeDir \in Spellings
    /\ downloads \in Spellings \union {"unknown"}
    /\ looking = "exeDir"
    /\ dllPath = "none"
    /\ input = "open"
    /\ kept = files
    /\ removed = FALSE

-----------------------------------------------------------------------------
(* Somebody adds or removes the file at a default place, or at the one that *)
(* was returned.                                                            *)
FileChanges(p) ==
    /\ IF looking = "found" THEN p = dllPath ELSE p \in Defaults
    /\ files' = IF p \in files THEN files \ {p} ELSE files \union {p}
    /\ kept' = IF looking = "found" THEN kept ELSE kept \ {p}
    /\ removed' = (removed \/ (p = dllPath /\ p \in files))
    /\ UNCHANGED <<exeDir, downloads, looking, dllPath, input>>

(* The lookup returns p, where there is something or not. *)
Returns(p, exists) ==
    /\ looking' = "found"
    /\ dllPath' = p
    /\ files' = IF exists THEN {p} ELSE {}
    /\ UNCHANGED <<exeDir, downloads, input, kept, removed>>

GoesTo(place) ==
    /\ looking' = place
    /\ UNCHANGED <<places, dllPath, input>>

(* A file system error, or a name that cannot be converted: an exception    *)
(* that nothing catches ends the injector.                                  *)
Throws == GoesTo("aborted")

(* The path of the executable is wide and exact; string() converts it to    *)
(* the ANSI code page once the file is found, and throws when it cannot.    *)
LookInExeDir ==
    /\ looking = "exeDir"
    /\ \/ "exeDir" \in files /\ exeDir # "unicode" /\ Returns("exeDir", TRUE)
       \/ "exeDir" \in files /\ exeDir = "unicode" /\ Throws
       \/ "exeDir" \notin files /\ GoesTo("downloads")
       \/ Throws

(* Mutant of NamesDownloads: a path that was converted wrongly is searched  *)
(* in the place of an unknown one.                                          *)
NamesDownloadsNever(spelling) == spelling = "unknown"

(* getDownloadsPath converts the path to UTF-8 and fs::path takes the bytes *)
(* for ANSI: only an ASCII path still names the folder.                     *)
NamesDownloads(spelling) == spelling = "ascii"

LookInDownloads ==
    /\ looking = "downloads"
    /\ \/ "downloads" \in files /\ NamesDownloads(downloads) /\ Returns("downloads", TRUE)
       \/ "downloads" \notin files /\ GoesTo("prompt")
       \/ ~ NamesDownloads(downloads) /\ GoesTo("prompt")
       \/ downloads # "unknown" /\ Throws

-----------------------------------------------------------------------------
(* A line of input: a path with or without a quote at either end.           *)
Lines == [path: Typed, front: BOOLEAN, back: BOOLEAN]

(* Quotes are removed when there is one at both ends. *)
Unquoted(line) ==
    IF line.front /\ line.back
    THEN [line EXCEPT !.front = FALSE, !.back = FALSE]
    ELSE line

(* Mutant of Accepts: any name that ends in .dll will do. *)
AcceptsDotDll(line, exists) == line.path \in DotDll

(* fs::exists, of a file or of a folder, and ends_with(".dll"). *)
Accepts(line, exists) == exists /\ line.path \in DotDll

(* What is at a typed path by the time it is typed is anybody's choice, but *)
(* a path that has kept a quote names nothing.  A refused line asks again,  *)
(* without a look at the two folders.                                       *)
Prompt(line, there) ==
    LET exists == there /\ ~ Unquoted(line).front /\ ~ Unquoted(line).back
    IN  /\ looking = "prompt"
        /\ input = "open"
        /\ IF Accepts(line, exists)
           THEN Returns(line.path, exists)
           ELSE UNCHANGED lookupVars

PromptThrows == looking = "prompt" /\ input = "open" /\ Throws

(* getline fails from now on and leaves the line empty: the loop asks for   *)
(* ever and no state follows.                                               *)
InputEnds ==
    /\ looking = "prompt"
    /\ input = "open"
    /\ input' = "ended"
    /\ UNCHANGED <<places, looking, dllPath>>

-----------------------------------------------------------------------------
Lookup ==
    \/ LookInExeDir \/ LookInDownloads \/ PromptThrows
    \/ \E line \in Lines, there \in BOOLEAN : Prompt(line, there)

LookupEnvironment == InputEnds \/ \E p \in Places : FileChanges(p)

-----------------------------------------------------------------------------
(* A copy of the module that stays where it is decides: the one beside the  *)
(* injector is always taken, and with one there, or in a Downloads folder   *)
(* with an ASCII name, the player is never asked.  Nothing is returned that *)
(* did not exist when it was looked at (utils.cpp:41-70).                   *)
NearestCopyWins ==
    /\ "exeDir" \in kept => looking \in {"exeDir", "aborted"} \/ dllPath = "exeDir"
    /\ "downloads" \in kept /\ downloads = "ascii" =>
            looking # "prompt" /\ dllPath \notin Typed
===============================================================================
