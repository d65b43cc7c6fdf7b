------------------------ MODULE ReflectionDatabase ------------------------
(***************************************************************************)
(* grpc::ProtoReflectionDescriptorDatabase (protos/thirdparty_src/         *)
(* proto_reflection_descriptor_database.cc): the descriptors of a server's *)
(* services, fetched through its reflection service and kept.              *)
(*                                                                         *)
(* A DescriptorPool asks for one thing at a time: the file with a name, the *)
(* file that declares a symbol or an extension, the extension numbers of a *)
(* type, the list of services.  What is not in a cache is one request and  *)
(* one response on a stream that the first request opens.  The stream may  *)
(* break at any time.  The server answers as reflection.proto says: with   *)
(* the file and any others, except that files it has sent on this stream   *)
(* may be left out; with NOT_FOUND; or with another error, or a response   *)
(* of another type, of which this client makes the same.                   *)
(*                                                                         *)
(* A name stands for the thing asked for, and also for the function asked. *)
(***************************************************************************)
EXTENDS FiniteSets

CONSTANTS
    FileNames,   \* arguments of FindFileByName
    Symbols,     \* of FindFileContainingSymbol
    Extensions,  \* of FindFileContainingExtension: a type and a number
    Types,       \* of FindAllExtensionNumbers
    Served,      \* the files of the server
    Declares     \* the symbols and extensions that each of them declares

Names == FileNames \cup Symbols \cup Extensions

\* GetServices has no argument.
Calls == Names \cup Types \cup {"services"}

\* The four kinds of names are apart, and no two files declare the same.
ASSUME DatabaseAssumption ==
    /\ Served \subseteq FileNames
    /\ Declares \in [Served -> SUBSET (Symbols \cup Extensions)]
    /\ \A f, g \in Served : f # g => Declares[f] \cap Declares[g] = {}
    /\ FileNames \cap (Symbols \cup Extensions) = {} /\ Symbols \cap Extensions = {}
    /\ Types \cap Names = {}
    /\ {"services", "none"} \cap (Names \cup Types) = {}

VARIABLES
    cached_db,                 \* cached_db_: the files in it
    known_files,               \* known_files_
    missing_symbols,           \* missing_symbols_
    missing_extensions,        \* missing_extensions_, as pairs
    cached_extension_numbers,  \* the types in cached_extension_numbers_
    stream,                    \* stream_, "none" if it is null
    sent,                      \* what the server has sent on it
    call,                      \* the current call, or the last one
    at,                        \* where it is
    outcome                    \* "found" if it returned true; if it returned false,
                               \* "failed" when its own request got no answer to the
                               \* question, "not_found" otherwise

caches == <<cached_db, known_files, missing_symbols, missing_extensions,
            cached_extension_numbers>>
vars == <<caches, stream, sent, call, at, outcome>>

\* The files of the server that answer a question.
Holders(q) ==
    IF q \in FileNames THEN {q} \cap Served ELSE {f \in Served : q \in Declares[f]}

\* cached_db_.FindFileByName, FindFileContainingSymbol, FindFileContainingExtension.
InDb(q) == Holders(q) \cap cached_db # {}

Init ==
    /\ cached_db = {} /\ known_files = {}
    /\ missing_symbols = {} /\ missing_extensions = {}
    /\ cached_extension_numbers = {}
    /\ stream = "none" /\ sent = {}
    /\ call = "none" /\ at = "idle" /\ outcome = "none"

Return(result) == at' = "idle" /\ outcome' = result /\ UNCHANGED call

-----------------------------------------------------------------------------
(* Faulty variants of the definitions below, one plausible slip each.  They  *)
(* are part of no specification: a property earns its place by failing on    *)
(* one.                                                                      *)

\* any error is remembered as NOT_FOUND
Refused_Remembered ==
    /\ at = "read"
    /\ missing_symbols' = missing_symbols \cup (Symbols \cap {call})
    /\ Return("failed")
    /\ UNCHANGED <<cached_db, known_files, missing_extensions, cached_extension_numbers,
                   stream, sent>>

\* only the file that was asked for is kept of a response with several
Add_OnlyAsked(files) ==
    /\ known_files' = known_files \cup files
    /\ cached_db' = cached_db \cup (files \cap Holders(call))

-----------------------------------------------------------------------------
(* A call, up to its request *)

\* The descriptor pool, or AutoGui, calls one of the functions.
Call(q) ==
    /\ at = "idle" /\ stream # "finished"
    /\ call' = q
    /\ at' = "lookup"
    /\ outcome' = "none"
    /\ UNCHANGED <<caches, stream, sent>>

\* What has arrived is returned, and what is known to be missing not asked for;
\* of files, those that have arrived are not asked for again.
Lookup ==
    /\ at = "lookup"
    /\ IF InDb(call) \/ call \in cached_extension_numbers THEN Return("found")
       ELSE IF call \in known_files \cup missing_symbols \cup missing_extensions
            THEN Return("not_found")
            ELSE at' = "write" /\ UNCHANGED <<call, outcome>>
    /\ UNCHANGED <<caches, stream, sent>>

\* DoOneRequest: the stream is opened when there is none, and never again.
Write ==
    /\ at = "write"
    /\ \/ /\ stream # "broken"
          /\ stream' = "open"
          /\ at' = "read"
          /\ UNCHANGED <<call, outcome>>
       \/ stream' = "broken" /\ Return("failed")
    /\ UNCHANGED <<caches, sent>>

-----------------------------------------------------------------------------
(* The response *)

\* AddFileFromResponse: files that are new to this client are added.
Add(files) ==
    /\ known_files' = known_files \cup files
    /\ cached_db' = cached_db \cup (files \ known_files)

\* Files in answer to a question for one.
FilesArrive(files) ==
    /\ at = "read" /\ call \in Names
    /\ Holders(call) \cap (files \cup sent) # {}
    /\ sent' = sent \cup files
    /\ Add(files)
    /\ Return(IF Holders(call) \cap cached_db' # {} THEN "found" ELSE "not_found")
    /\ UNCHANGED <<missing_symbols, missing_extensions, cached_extension_numbers, stream>>

\* NOT_FOUND is remembered for symbols and extensions only.
NotFound ==
    /\ at = "read" /\ call \in Names \cup Types
    /\ Holders(call) = {}
    /\ missing_symbols' = missing_symbols \cup (Symbols \cap {call})
    /\ missing_extensions' = missing_extensions \cup (Extensions \cap {call})
    /\ Return("not_found")
    /\ UNCHANGED <<cached_db, known_files, cached_extension_numbers, stream, sent>>

\* The numbers of the extensions of a type.
NumbersArrive ==
    /\ at = "read" /\ call \in Types
    /\ cached_extension_numbers' = cached_extension_numbers \cup {call}
    /\ Return("found")
    /\ UNCHANGED <<cached_db, known_files, missing_symbols, missing_extensions, stream, sent>>

\* The list of services is not kept.
ServicesArrive ==
    /\ at = "read" /\ call = "services"
    /\ Return("found")
    /\ UNCHANGED <<caches, stream, sent>>

\* Another error code, or a response of an unexpected type.
Refused ==
    /\ at = "read"
    /\ Return("failed")
    /\ UNCHANGED <<caches, stream, sent>>

\* Read returns false.
Lost ==
    /\ at = "read"
    /\ stream' = "broken"
    /\ Return("failed")
    /\ UNCHANGED <<caches, sent>>

\* The destructor ends the stream, if there is one.
Destroy ==
    /\ at = "idle" /\ stream # "finished"
    /\ stream' = "finished"
    /\ UNCHANGED <<caches, sent, call, at, outcome>>

-----------------------------------------------------------------------------
DoOneRequest == Write \/ Lost

\* FindFileByName, FindFileContainingSymbol and FindFileContainingExtension
FindFile ==
    call \in Names /\ ((\E files \in SUBSET Served : FilesArrive(files)) \/ NotFound \/ Refused)
FindAllExtensionNumbers == call \in Types /\ (NumbersArrive \/ NotFound \/ Refused)
GetServices == call = "services" /\ (ServicesArrive \/ Refused)

Next ==
    \/ \E q \in Calls : Call(q)
    \/ Lookup \/ DoOneRequest
    \/ FindFile \/ FindAllExtensionNumbers \/ GetServices
    \/ Destroy

Spec == Init /\ [][Next]_vars

-----------------------------------------------------------------------------
(* Properties *)

\* Every variable has its type.
TypeOK ==
    /\ cached_db \subseteq Served /\ known_files \subseteq Served /\ sent \subseteq Served
    /\ missing_symbols \subseteq Symbols /\ missing_extensions \subseteq Extensions
    /\ cached_extension_numbers \subseteq Types
    /\ stream \in {"none", "open", "broken", "finished"}
    /\ call \in Calls \cup {"none"}
    /\ at \in {"idle", "lookup", "write", "read"}
    /\ outcome \in {"none", "found", "not_found", "failed"}

\* Whatever the server left out of an answer because it had sent it before is
\* here, and what is not asked for again because it is known can be returned:
\* the caches that decide not to ask never hide what the server has.
NothingHidden ==
    /\ sent \subseteq cached_db /\ known_files \subseteq cached_db
    /\ \A q \in missing_symbols \cup missing_extensions : Holders(q) = {}

\* To its caller the database is a catalogue: false answers tell of what the
\* server has not, or of a request that failed, and nothing found is ever lost.
C == INSTANCE Catalog WITH
        None <- "none",
        Served <- {q \in Names : Holders(q) # {}},
        asked <- IF call \in Names THEN call ELSE "none",
        answer <- IF call \in Names THEN outcome ELSE "none",
        known <- {q \in Names : InDb(q)}
ImplementsCatalog == C!Spec
=============================================================================
