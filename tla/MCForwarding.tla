---------------------------- MODULE MCForwarding ----------------------------
(* One thread makes any call of the library, with every form of its           *)
(* arguments; or two threads make calls of a few kinds at once, in one        *)
(* process (with different tags) or in two (with the same tag), of a server   *)
(* that may shut down meanwhile.                                              *)
EXTENDS Forwarding

CONSTANTS t1, t2, p1, p2

T(op, args) == [op |-> op, args |-> args]

ByPath == [parent_handle |-> NULL, component_name |-> NULL, full_path |-> GIVEN]
ByName == [parent_handle |-> GIVEN, component_name |-> GIVEN, full_path |-> NULL]
Both == [parent_handle |-> GIVEN, component_name |-> GIVEN, full_path |-> GIVEN]
HalfGiven == [parent_handle |-> GIVEN, component_name |-> NULL, full_path |-> NULL]

Good == {ByPath, ByName, Both}
G == GIVEN

Transfer(op, mem, file) ==
  T(op, [handle |-> G, mem_starts |-> [i \in DOMAIN mem |-> G], mem_sizes |-> mem,
         file_starts |-> G, file_sizes |-> file])

\* One chunk, chunks that end inside, at the end of and across segments, a last
\* chunk that is not full; PIPELINE_SIZE is 2.
Sizes == {<<1>>, <<2>>, <<3>>, <<1, 1>>, <<2, 3>>, <<1, 3>>, <<1, 1, 2>>}

AllCalls ==
  {T("null", <<>>), T("commit", [handle |-> G]), T("commit", [handle |-> NULL]),
   T("getattr", [handle |-> G, attr |-> G]), T("getattr", [handle |-> G, attr |-> NULL]),
   T("setattr", [handle |-> G, sattr |-> G, attr |-> G]),
   T("readlink", [handle |-> G, buffer |-> G, buffer_length |-> 2]),
   T("readlink", [handle |-> G, buffer |-> G, buffer_length |-> 9]),
   T("resize", [handle |-> G, size |-> G])}
  \cup {T("lookup", [spec |-> s]) : s \in Good \cup {HalfGiven}}
  \cup {T("create", [spec |-> s, handle |-> G, sattr |-> G, created |-> G]) : s \in Good \cup {HalfGiven}}
  \cup {T("remove", [spec |-> s, parent_hint |-> h]) : s \in Good, h \in {G, NULL}}
  \cup {T("mkdir", [spec |-> s, sattr |-> G]) : s \in Good}
  \cup {T(op, [from |-> s, to |-> d]) : op \in {"rename", "link"}, s \in Good, d \in Good \cup {HalfGiven}}
  \cup {T("symlink", [from |-> s, to |-> d, sattr |-> G]) : s \in Good, d \in Good}
  \cup {T("readdir", [handle |-> G, cookie |-> G, entry_count |-> n, entries |-> G, flags |-> G]) :
          n \in {0, 2}}
  \cup {Transfer(op, s, <<Total(s)>>) : op \in {"write", "read"}, s \in Sizes}
  \cup {Transfer("write", <<>>, <<1>>), Transfer("read", <<2, 1>>, <<1, 2>>)}

\* A message for the RPC connector, whose tags are above ours, and one too short
\* to be a request.
Foreign == [addr |-> "other", tag |-> ZOIDFS_BMI_MAXTAG + 1, id |-> <<"other", 1>>,
            fields |-> <<Field("ZFS_OP_ID_T", 1)>>]
Short == [addr |-> "other", tag |-> 1, id |-> <<"other", 2>>, fields |-> <<>>]

Lookup == T("lookup", [spec |-> ByName])
Write == Transfer("write", <<3>>, <<3>>)
Read == Transfer("read", <<2, 1>>, <<3>>)

MCScenarios ==
  [alone |-> [calls |-> t1 :> AllCalls @@ t2 :> {}, max |-> 1,
              proc |-> t1 :> p1 @@ t2 :> p1, stray |-> <<>>, stops |-> FALSE],
   again |-> [calls |-> t1 :> {Lookup, Write, Read} @@ t2 :> {}, max |-> MaxCalls,
              proc |-> t1 :> p1 @@ t2 :> p1, stray |-> <<Short>>, stops |-> FALSE],
   one_process |-> [calls |-> t1 :> {Write} @@ t2 :> {Lookup}, max |-> 1,
                    proc |-> t1 :> p1 @@ t2 :> p1, stray |-> <<>>, stops |-> FALSE],
   two_processes |-> [calls |-> t1 :> {Write} @@ t2 :> {Read}, max |-> 1,
                      proc |-> t1 :> p1 @@ t2 :> p2, stray |-> <<>>, stops |-> FALSE],
   stop |-> [calls |-> t1 :> {Lookup} @@ t2 :> {Lookup}, max |-> 1,
             proc |-> t1 :> p1 @@ t2 :> p2, stray |-> <<Foreign>>, stops |-> TRUE]]
=============================================================================
