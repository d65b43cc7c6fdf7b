----------------------- MODULE ReflectionDatabaseProofs -----------------------
(***************************************************************************)
(* Theorems about ReflectionDatabase, for any server: its caches hide      *)
(* nothing, and it implements the Catalog.                                 *)
(***************************************************************************)
EXTENDS ReflectionDatabase, TLAPS

\* How far the current call is.
Progress ==
    /\ at = "idle" => call = "none" \/ outcome # "none"
    /\ at # "idle" => call \in Calls /\ outcome = "none"
    /\ at \in {"write", "read"} /\ call \in Names => ~InDb(call)

IInv == TypeOK /\ NothingHidden /\ Progress

USE DatabaseAssumption

\* Some facts about names, which the steps below need again and again.
LEMMA NamesAreApart ==
    /\ "none" \notin Calls /\ "services" \notin Names
    /\ \A t \in Types : t \notin Names
    /\ Symbols \subseteq Names /\ Extensions \subseteq Names /\ Served \subseteq Names
    /\ \A q \in Served : q \notin Symbols \cup Extensions /\ Holders(q) = {q}
    /\ \A q : Holders(q) \subseteq Served
BY DEF Calls, Names, Holders

\* After a lookup that returns false nothing is known of what was asked, and it
\* does not exist.
LEMMA LookupIsRight ==
    ASSUME IInv, call \in Names, ~InDb(call),
           call \in known_files \cup missing_symbols \cup missing_extensions
    PROVE  Holders(call) = {}
<1>1. CASE call \in known_files
  <2>1. call \in Served /\ call \in cached_db
    BY <1>1 DEF IInv, TypeOK, NothingHidden
  <2> QED BY <2>1, NamesAreApart DEF InDb
<1>2. CASE call \in missing_symbols \cup missing_extensions
  BY <1>2 DEF IInv, NothingHidden
<1> QED BY <1>1, <1>2

\* AddFileFromResponse keeps all of a response: what was known is there already.
LEMMA AddKeepsAll ==
    ASSUME IInv, NEW files \in SUBSET Served, Add(files)
    PROVE  /\ cached_db' = cached_db \cup files
           /\ known_files' = known_files \cup files
BY DEF IInv, NothingHidden, Add

\* A response that the protocol allows makes the answer known.
LEMMA AnswerArrives ==
    ASSUME IInv, NEW files \in SUBSET Served, FilesArrive(files)
    PROVE  /\ Holders(call) \cap cached_db' # {}
           /\ outcome' = "found" /\ at' = "idle" /\ call' = call
           /\ cached_db' = cached_db \cup files /\ known_files' = known_files \cup files
<1>1. cached_db' = cached_db \cup files /\ known_files' = known_files \cup files
  BY AddKeepsAll DEF FilesArrive
<1>2. Holders(call) \cap (files \cup sent) # {} /\ sent \subseteq cached_db
  BY DEF FilesArrive, IInv, NothingHidden
<1>3. Holders(call) \cap cached_db' # {}
  BY <1>1, <1>2
<1> QED BY <1>1, <1>3 DEF FilesArrive, Return

-----------------------------------------------------------------------------
(* The invariant *)

LEMMA InitIInv == Init => IInv
BY NamesAreApart DEF Init, IInv, TypeOK, NothingHidden, Progress

\* Steps that leave what is cached as it was.
LEMMA NextIInvQuiet ==
    ASSUME IInv,
           \/ \E q \in Calls : Call(q)
           \/ Lookup \/ Write \/ ServicesArrive \/ Refused \/ Lost \/ Destroy
           \/ UNCHANGED vars
    PROVE  IInv'
<1> USE DEF IInv, TypeOK, NothingHidden, Progress, caches, Return, InDb, Holders
<1>1. ASSUME NEW q \in Calls, Call(q) PROVE IInv'
  BY <1>1, NamesAreApart DEF Call
<1>2. CASE Lookup
  BY <1>2 DEF Lookup
<1>3. CASE Write
  BY <1>3 DEF Write
<1>4. CASE ServicesArrive \/ Refused \/ Lost \/ Destroy
  BY <1>4 DEF ServicesArrive, Refused, Lost, Destroy
<1>5. CASE UNCHANGED vars
  BY <1>5 DEF vars
<1> QED BY <1>1, <1>2, <1>3, <1>4, <1>5

LEMMA NextIInv == IInv /\ [Next]_vars => IInv'
<1> SUFFICES ASSUME IInv, [Next]_vars PROVE IInv'
  OBVIOUS
<1>1. ASSUME NEW files \in SUBSET Served, FilesArrive(files) PROVE IInv'
  <2>1. /\ cached_db' = cached_db \cup files /\ known_files' = known_files \cup files
        /\ sent' = sent \cup files /\ outcome' = "found" /\ at' = "idle" /\ call' = call
        /\ UNCHANGED <<missing_symbols, missing_extensions, cached_extension_numbers, stream>>
    BY <1>1, AnswerArrives DEF FilesArrive
  <2>2. TypeOK'
    BY <2>1 DEF IInv, TypeOK
  <2>3. NothingHidden'
    BY <2>1 DEF IInv, NothingHidden, Holders
  <2>4. Progress'
    BY <2>1 DEF Progress
  <2> QED BY <2>2, <2>3, <2>4 DEF IInv
<1>2. CASE NotFound
  BY <1>2 DEF NotFound, Return, IInv, TypeOK, NothingHidden, Progress, Holders
<1>3. CASE NumbersArrive
  BY <1>3 DEF NumbersArrive, Return, IInv, TypeOK, NothingHidden, Progress, Holders
<1> QED BY <1>1, <1>2, <1>3, NextIInvQuiet
     DEF Next, DoOneRequest, FindFile, FindAllExtensionNumbers, GetServices

\* Every variable keeps its type.
THEOREM TypeCorrect == Spec => []TypeOK
BY InitIInv, NextIInv, PTL DEF Spec, IInv

\* For any server: what it leaves out of a response is here, and whatever is not
\* asked for again is here or does not exist
\* (proto_reflection_descriptor_database.cc:59-214, 290-308).
THEOREM NothingIsHidden == Spec => []NothingHidden
BY InitIInv, NextIInv, PTL DEF Spec, IInv

-----------------------------------------------------------------------------
(* The refinement *)

\* The state of the catalogue.
Asked == IF call \in Names THEN call ELSE "none"
Answer == IF call \in Names THEN outcome ELSE "none"
Known == {q \in Names : InDb(q)}
OnServer == {q \in Names : Holders(q) # {}}

LEMMA KnownIsServed == Known \subseteq OnServer
BY DEF Known, OnServer, InDb

LEMMA InitCatalog == Init => C!Init
BY NamesAreApart DEF Init, C!Init, InDb

\* A step that ends a call of one of the three lookups is an answer.
LEMMA ReturnAnswers ==
    ASSUME IInv, at # "idle", call \in Names, call' = call,
           Known \subseteq Known', Known' \subseteq OnServer,
           \/ outcome' = "found" /\ call \in Known'
           \/ outcome' = "not_found" /\ call \notin OnServer /\ Known' = Known
           \/ outcome' = "failed" /\ call \notin Known /\ Known' = Known
    PROVE  C!Answer
<1>1. outcome = "none" /\ call # "none"
  BY NamesAreApart DEF IInv, Progress, Calls
<1>2. C!Answer <=>
        /\ Asked # "none" /\ Answer = "none"
        /\ Known \subseteq Known' /\ Known' \subseteq OnServer
        /\ \/ Answer' = "found" /\ Asked \in Known'
           \/ Answer' = "not_found" /\ Asked \notin OnServer /\ Known' = Known
           \/ Answer' = "failed" /\ Asked \notin Known /\ Known' = Known
        /\ Asked' = Asked
  BY DEF C!Answer, Asked, Answer, Known, OnServer
<1> QED BY <1>1, <1>2 DEF Asked, Answer

LEMMA NextCatalog == IInv /\ IInv' /\ [Next]_vars => [C!Next]_(C!cvars)
<1> SUFFICES ASSUME IInv, IInv', [Next]_vars PROVE C!Next \/ UNCHANGED C!cvars
  OBVIOUS
<1>1. UNCHANGED <<Asked, Answer, Known>> => UNCHANGED C!cvars
  BY DEF C!cvars, Asked, Answer, Known
<1>2. cached_db' = cached_db => Known' = Known
  BY DEF Known, InDb, Holders
<1>3. C!Answer => C!Next
  BY DEF C!Next
<1>4. ASSUME NEW q \in Calls, Call(q) PROVE C!Next \/ UNCHANGED C!cvars
  <2>1. at = "idle" /\ call' = q /\ outcome' = "none" /\ Known' = Known
    BY <1>2, <1>4 DEF Call, caches
  <2>2. call \in Names => outcome # "none"
    BY <2>1, NamesAreApart DEF IInv, Progress, Calls
  <2>3. CASE q \in Names
    <3>1. C!Ask(q) <=> /\ Asked = "none" \/ Answer # "none"
                       /\ Asked' = q /\ Answer' = "none" /\ Known' = Known
      BY DEF C!Ask, Asked, Answer, Known
    <3>2. C!Ask(q)
      BY <2>1, <2>2, <2>3, <3>1 DEF Asked, Answer
    <3> QED BY <2>3, <3>2 DEF C!Next
  <2>4. CASE q \notin Names /\ call \in Names
    <3>1. C!Leave <=> /\ Answer # "none"
                      /\ Asked' = "none" /\ Answer' = "none" /\ Known' = Known
      BY DEF C!Leave, Asked, Answer, Known
    <3>2. C!Leave
      BY <2>1, <2>2, <2>4, <3>1 DEF Asked, Answer
    <3> QED BY <3>2 DEF C!Next
  <2>5. CASE q \notin Names /\ call \notin Names
    BY <1>1, <2>1, <2>5 DEF Asked, Answer
  <2> QED BY <2>3, <2>4, <2>5
<1>5. ASSUME call' = call, Known' = Known, call \notin Names \/ outcome' = outcome
      PROVE  UNCHANGED C!cvars
  BY <1>1, <1>5 DEF Asked, Answer
<1>6. ASSUME NEW files \in SUBSET Served, FilesArrive(files) PROVE C!Next
  <2>1. /\ call' = call /\ outcome' = "found" /\ cached_db \subseteq cached_db'
        /\ Holders(call) \cap cached_db' # {} /\ at # "idle" /\ call \in Names
    BY <1>6, AnswerArrives DEF FilesArrive
  <2>2. Known \subseteq Known' /\ Known' \subseteq OnServer /\ call \in Known'
    BY <2>1 DEF Known, OnServer, InDb, Holders
  <2> QED BY <1>3, <2>1, <2>2, ReturnAnswers
<1>7. CASE Lookup
  <2>1. Known' = Known /\ call' = call /\ at # "idle"
    BY <1>2, <1>7 DEF Lookup, caches, Return
  <2>2. CASE call \notin Names \/ outcome' = outcome
    BY <1>5, <2>1, <2>2
  <2>3. CASE call \in Names /\ outcome' # outcome
    <3>1. call \notin cached_extension_numbers
      BY <2>3, NamesAreApart DEF IInv, TypeOK
    <3>2. \/ outcome' = "found" /\ InDb(call)
          \/ /\ outcome' = "not_found" /\ ~InDb(call)
             /\ call \in known_files \cup missing_symbols \cup missing_extensions
      BY <1>7, <2>3, <3>1 DEF Lookup, Return
    <3>3. \/ outcome' = "found" /\ call \in Known'
          \/ outcome' = "not_found" /\ call \notin OnServer
      BY <2>1, <2>3, <3>2, LookupIsRight DEF Known, OnServer
    <3> QED BY <1>3, <2>1, <2>3, <3>3, KnownIsServed, ReturnAnswers
  <2> QED BY <2>2, <2>3
<1>8. CASE Write \/ Refused \/ Lost
  <2>1. /\ Known' = Known /\ call' = call /\ at \in {"write", "read"}
        /\ outcome' = outcome \/ outcome' = "failed"
    BY <1>2, <1>8 DEF Write, Refused, Lost, caches, Return
  <2>2. call \in Names => call \notin Known
    BY <2>1 DEF IInv, Progress, Known
  <2> QED BY <1>3, <1>5, <2>1, <2>2, KnownIsServed, ReturnAnswers
<1>9. CASE NotFound
  <2>1. /\ Known' = Known /\ call' = call /\ at # "idle"
        /\ outcome' = "not_found" /\ Holders(call) = {}
    BY <1>2, <1>9 DEF NotFound, Return
  <2> QED BY <1>3, <1>5, <2>1, KnownIsServed, ReturnAnswers DEF OnServer
<1>10. CASE NumbersArrive \/ ServicesArrive \/ Destroy
  <2>1. /\ Known' = Known /\ call' = call
        /\ call \in Types \cup {"services"} \/ outcome' = outcome
    BY <1>2, <1>10 DEF NumbersArrive, ServicesArrive, Destroy, Return, caches
  <2> QED BY <1>5, <2>1, NamesAreApart
<1>11. CASE UNCHANGED vars
  BY <1>2, <1>5, <1>11 DEF vars, caches
<1> QED BY <1>4, <1>6, <1>7, <1>8, <1>9, <1>10, <1>11
     DEF Next, DoOneRequest, FindFile, FindAllExtensionNumbers, GetServices

\* For any server the database is a catalogue of it: a false answer is one that
\* the server gave or a failed request, and what was found stays found, through
\* broken streams and files left out of responses.
THEOREM Refinement == Spec => ImplementsCatalog
BY InitIInv, NextIInv, InitCatalog, NextCatalog, PTL DEF Spec, ImplementsCatalog, C!Spec
=============================================================================
