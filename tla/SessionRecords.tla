---------------------------- MODULE SessionRecords ----------------------------
(***************************************************************************)
(* What the tables of SessionManager are: documents of a TinyDB file.  A   *)
(* runtime session is an object whose context sessions are a dict with     *)
(* ints for keys, and LastSession is one of several classes of globals.    *)
(***************************************************************************)
EXTENDS SessionManager

CONSTANTS
  Text(_),   \* str() of a number
  MaxDepth   \* bound: how deep documents nest

ASSUME SessionRecordsAssumption ==
  /\ \A n \in 0..MaxRuntimes + MaxContexts : Text(n) \in STRING
  /\ \A m, n \in 0..MaxContexts : Text(m) = Text(n) => m = n
  /\ MaxDepth \in Nat /\ MaxDepth >= 4

\* The texts in this module are strings.
ASSUME StringsAssumption ==
  {"", "null", "true", "false", "1", "17", "17.5", "host", "APP", "STEP:a@0", "__type_id__",
   "globals_manager.Global", "globals_manager.LastSession",
   "sid", "metadata", "context_sessions", "runtime", "hostname", "pid", "mode",
   "active_facet_names", "started_on", "session_no", "sanitized", "invoked_steps"} \subseteq STRING

Classes == {"Global", "LastSession", "RuntimeSession", "RuntimeSessionMetadata", "RuntimeRecord",
            "ContextSession"}

FieldHints ==
  [class \in Classes |->
     CASE class = "Global" -> [f \in {} |-> <<"none">>]
       [] class = "LastSession" -> [sid |-> <<"uuid">>]
       [] class = "RuntimeSession" ->
            [sid |-> <<"uuid">>, metadata |-> <<"class", "RuntimeSessionMetadata">>,
             context_sessions |-> <<"dict", <<"int">>, <<"class", "ContextSession">>>>]
       [] class = "RuntimeSessionMetadata" ->
            [runtime |-> <<"class", "RuntimeRecord">>, hostname |-> <<"str">>, pid |-> <<"int">>]
       [] class = "RuntimeRecord" ->
            [mode |-> <<"enum">>, active_facet_names |-> <<"list", <<"str">>>>, started_on |-> <<"datetime">>]
       [] class = "ContextSession" ->
            [session_no |-> <<"int">>, sanitized |-> <<"bool">>, started_on |-> <<"datetime">>,
             invoked_steps |-> <<"list", <<"TaskCoordinates">>>>]]

\* The classes of the table "globals"
GlobalTypes ==
  [class \in {"Global", "LastSession"} |->
     IF class = "Global" THEN "globals_manager.Global" ELSE "globals_manager.LastSession"]

\* The hints of fields, of members, and what the tables ask for
SessionHints ==
  (UNION {{FieldHints[class][f] : f \in DOMAIN FieldHints[class]} : class \in Classes})
    \union {<<"class", class>> : class \in Classes} \union {<<"str">>, <<"TaskCoordinates">>}

INSTANCE Serialization WITH Fields <- FieldHints, TypeIds <- GlobalTypes,
                            Textual <- {"enum", "TaskCoordinates"}, Hints <- SessionHints,
                            Numerals <- {Text(n) : n \in 0..MaxContexts}, Depth <- MaxDepth

-----------------------------------------------------------------------------
\* ContextSession: its number, from 0, and the STEPs it has invoked
ContextObject(n, c) ==
  Object("ContextSession",
    [session_no |-> <<"int", Text(n)>>, started_on |-> <<"datetime", "17.5">>,
     sanitized |-> <<"bool", IF c.sanitized THEN "true" ELSE "false">>,
     invoked_steps |-> <<"list", [i \in 1..c.invoked |-> <<"TaskCoordinates", "STEP:a@0">>]>>])

Metadata ==
  Object("RuntimeSessionMetadata",
    [hostname |-> <<"str", "host">>, pid |-> <<"int", "1">>,
     runtime |-> Object("RuntimeRecord",
       [mode |-> <<"enum", "APP">>, started_on |-> <<"datetime", "17">>,
        active_facet_names |-> <<"list", <<>>>>])])

RuntimeObject(s, contextSessions) ==
  Object("RuntimeSession",
    [sid |-> <<"uuid", Text(s)>>, metadata |-> Metadata,
     context_sessions |-> <<"dict",
       {<<<<"int", Text(i - 1)>>, ContextObject(i - 1, contextSessions[i])>> : i \in DOMAIN contextSessions}>>])

\* globals.find(LastSession) persists one without a sid if there is none.
LastSessionObject ==
  Object("LastSession", [sid |-> IF lastSid = NoSid THEN None ELSE <<"uuid", Text(lastSid)>>])

\* table.upsert(o) or insert(o), and table.get() of it afterwards
Document(o)   == Stored[Serialized[o]]
Got(d, class) == Deserialized[<<d, <<"class", class>>>>]

\* last_context_session() of what was read: the entry with the greatest key
LastContextSession(o) ==
  LET sessions == (CHOOSE f \in o[3] : f[1] = "context_sessions")[2][2]
      IsLast(n) == \E p \in sessions : p[1] = <<"int", Text(n)>>
      nos == {n \in 0..MaxContexts : IsLast(n)}
  IN  IF nos = {} THEN None
      ELSE (CHOOSE p \in sessions : p[1] = <<"int", Text(CHOOSE n \in nos : \A k \in nos : k <= n)>>)[2]

-----------------------------------------------------------------------------
\* Whatever a process persists of its sessions, the next one reads back as it was, and
\* finds its last context session: the int keys have become strings in the file.
SessionsReadBack ==
  \A s \in DOMAIN table :
    LET written == RuntimeObject(s, table[s])
        read    == Got(Document(written), "RuntimeSession")
    IN  /\ read = written
        /\ LastContextSession(read) =
             IF table[s] = <<>> THEN None ELSE ContextObject(Len(table[s]) - 1, Last(table[s]))

\* What is asked of the table of globals as a Global comes back as the LastSession it was.
LastSessionReadBack == Got(Document(LastSessionObject), "Global") = LastSessionObject

\* Both of the manager's tables give back what was put into them.
DocumentsReadBack == SessionsReadBack /\ LastSessionReadBack

=============================================================================
