----------------------------- MODULE ZoidfsWire -----------------------------
(***************************************************************************)
(* The wire formats of the forwarding protocol: what each zoidfs_* function *)
(* of the client library encodes and decodes (zoidfs/client), what each     *)
(* IOFWD*Request of the server's BMI front end decodes and replies          *)
(* (iofwd/frontend/bmi), and the call each task makes of the back end       *)
(* (iofwd/tasksm, iofwd/*Task.hh).  The two sides are written in two        *)
(* languages with no common description of the messages.                    *)
(*                                                                          *)
(* A message is a sequence of fields [t |-> type, v |-> value].  A value is *)
(* symbolic: it says which argument of which call it is.  The bytes of a    *)
(* type are its layout, the sequence of <<member, width>> pairs that its    *)
(* XDR routine visits; a reader takes a field only if its own layout of the *)
(* type it asks for is the layout the writer used.                          *)
(*                                                                          *)
(* The hint argument of every call is NULL (ZOIDFS_NO_OP_HINT).             *)
(***************************************************************************)
EXTENDS Naturals, Sequences, SequencesExt

CONSTANTS NULL,             \* a null pointer
          ZOIDFS_PATH_MAX   \* longest path

ASSUME PathMaxAssumption == ZOIDFS_PATH_MAX \in Nat \ {0}

ZFS_OK == "ZFS_OK"
ZFSERR_MISC == "ZFSERR_MISC"
ZFSERR_OTHER == "ZFSERR_OTHER"
ZFSERR_XDR == "ZFSERR_XDR"

Field(t, v) == [t |-> t, v |-> v]

AtMost(n, m) == IF n < m THEN n ELSE m

-----------------------------------------------------------------------------
(* Layouts of the client: the xdr_* routines of zoidfs_xdr.c.              *)

xdr_zoidfs_time_t(f) == << <<f, "seconds", 8>>, <<f, "nseconds", 4>> >>

xdr_zoidfs_attr_t ==
  << <<"type", 4>>, <<"mask", 4>>, <<"mode", 4>>, <<"nlink", 4>>, <<"uid", 4>>,
     <<"gid", 4>>, <<"size", 8>>, <<"blocksize", 4>>, <<"fsid", 4>>,
     <<"fileid", 8>> >>
  \o xdr_zoidfs_time_t("atime") \o xdr_zoidfs_time_t("mtime")
  \o xdr_zoidfs_time_t("ctime")

xdr_zoidfs_sattr_t ==
  << <<"mask", 4>>, <<"mode", 4>>, <<"uid", 4>>, <<"gid", 4>>, <<"size", 8>> >>
  \o xdr_zoidfs_time_t("atime") \o xdr_zoidfs_time_t("mtime")

xdr_zoidfs_cache_hint_t ==
  << <<"size", 8>> >> \o xdr_zoidfs_time_t("atime")
  \o xdr_zoidfs_time_t("mtime") \o xdr_zoidfs_time_t("ctime")

xdr_zoidfs_dirent_t ==
  << <<"name", "string">>, <<"handle", 32>> >> \o xdr_zoidfs_attr_t
  \o << <<"cookie", 8>> >>

\* zoidfs_xdr_processor: the routine that encodes or decodes each data type.
zoidfs_xdr_processor(t) ==
  CASE t \in {"ZFS_OP_ID_T", "ZFS_OP_STATUS_T", "ZFS_NULL_PARAM_T",
              "ZFS_UINT32_T", "ZFS_INT_T"}      -> << <<"value", 4>> >>
    [] t \in {"ZFS_DIRENT_COOKIE_T", "ZFS_SIZE_T", "ZFS_UINT64_T",
              "ZFS_FILE_OFS_T"}                 -> << <<"value", 8>> >>
    [] t = "ZFS_HANDLE_T"                       -> << <<"data", 32>> >>
    [] t = "ZFS_ATTR_T"                         -> xdr_zoidfs_attr_t
    [] t = "ZFS_SATTR_T"                        -> xdr_zoidfs_sattr_t
    [] t = "ZFS_CACHE_HINT_T"                   -> xdr_zoidfs_cache_hint_t
    [] t = "ZFS_DIRENT_TRANSFER_T"              -> << <<"count", 4>> >> \o xdr_zoidfs_dirent_t
    [] t \in {"ZFS_SIZE_T_ARRAY_T", "ZFS_FILE_OFS_ARRAY_T"}
                                                -> << <<"count", 4>>, <<"element", 8>> >>
    [] t \in {"ZFS_BUFFER_T", "ZFS_CSTRING_PATH_T", "ZFS_CSTRING_NAME_T"}
                                                -> << <<"value", "string">> >>
    [] OTHER                                    -> <<t>>

-----------------------------------------------------------------------------
(* Layouts of the server: the process() overloads of zoidfs-xdr.hh and the *)
(* integer types they come down to.                                        *)

process_time(f) == << <<f, "seconds", 8>>, <<f, "nseconds", 4>> >>

process_attr ==
  << <<"type", 4>>, <<"mask", 4>>, <<"mode", 4>>, <<"nlink", 4>>, <<"uid", 4>>,
     <<"gid", 4>>, <<"size", 8>>, <<"blocksize", 4>>, <<"fsid", 4>>,
     <<"fileid", 8>> >>
  \o process_time("atime") \o process_time("mtime") \o process_time("ctime")

process_sattr ==
  << <<"mask", 4>>, <<"mode", 4>>, <<"uid", 4>>, <<"gid", 4>>, <<"size", 8>> >>
  \o process_time("atime") \o process_time("mtime")

process_cache_hint ==
  << <<"size", 8>> >> \o process_time("atime") \o process_time("mtime")
  \o process_time("ctime")

process_dirent ==
  << <<"name", "string">>, <<"handle", 32>> >> \o process_attr
  \o << <<"cookie", 8>> >>

process(t) ==
  CASE t \in {"int32_t", "uint32_t", "zoidfs_null_param_t"} -> << <<"value", 4>> >>
    [] t \in {"uint64_t", "size_t", "zoidfs_file_ofs_t", "zoidfs_dirent_cookie_t"}
                                     -> << <<"value", 8>> >>
    [] t = "zoidfs_handle_t"         -> << <<"data", 32>> >>
    [] t = "zoidfs_attr_t"           -> process_attr
    [] t = "zoidfs_sattr_t"          -> process_sattr
    [] t = "zoidfs_cache_hint_t"     -> process_cache_hint
    [] t = "EncVarArray dirent"      -> << <<"count", 4>> >> \o process_dirent
    [] t = "EncVarArray uint64"      -> << <<"count", 4>>, <<"element", 8>> >>
    [] t = "EncString"               -> << <<"value", "string">> >>
    [] OTHER                         -> <<t>>

-----------------------------------------------------------------------------
(* Reading.  What a reader wants of a message is a sequence of <<type, name>>; *)
(* it gets the values by name, if every field has the layout it wants.  A file *)
(* spec and a hint travel as several fields, here one field with those inside. *)

Fits(fields, wants, Same(_, _)) ==
  Len(fields) >= Len(wants) /\ \A i \in DOMAIN wants : Same(fields[i], wants[i][1])

Values(fields, wants, Read(_)) ==
  [x \in {wants[i][2] : i \in DOMAIN wants} |->
     Read(fields[CHOOSE i \in DOMAIN wants : wants[i][2] = x])]

\* The server reads what the client wrote, and the client what the server wrote.
ServerReads(f, t) == zoidfs_xdr_processor(f.t) = process(t)
ClientReads(f, t) == process(f.t) = zoidfs_xdr_processor(t)
Plain(f) == f.v

\* FileSpecHelper, decoder: a flag, then the full path or handle and component.
\* decodeFileSpec has cleared all three, and every decodeParam passes on the path
\* if it is not empty, the handle and component otherwise.
FileSpecParts(haveFullPath) ==
  << <<"zoidfs_null_param_t", "haveFullPath">> >> \o
  IF haveFullPath = 1 THEN << <<"EncString", "full_path">> >>
  ELSE << <<"zoidfs_handle_t", "parent_handle">>, <<"EncString", "component_name">> >>

decodeFileSpec(f) ==
  LET got == Values(f.v, FileSpecParts(Head(f.v).v), Plain)
  IN [x \in {"parent_handle", "component_name", "full_path"} |->
        IF x \in DOMAIN got THEN got[x] ELSE NULL]

\* OpHintHelper, decoder: flag 0 is the empty hint list.
decodeOpHint(f) == Head(f.v).v

XDRReads(f, t) ==
  CASE t = "FileSpec" -> f.t = t /\ Fits(f.v, FileSpecParts(Head(f.v).v), ServerReads)
    [] t = "OpHint"   -> f.t = t /\ ServerReads(Head(f.v), "zoidfs_null_param_t")
                         /\ decodeOpHint(f) = 0
    [] OTHER          -> ServerReads(f, t)

XDRValue(f) ==
  CASE f.t = "FileSpec" -> decodeFileSpec(f) [] f.t = "OpHint" -> decodeOpHint(f)
    [] OTHER -> f.v

\* XDRReader over the fields of a request.
XDRReader(fields, wants) ==
  IF Fits(fields, wants, XDRReads) THEN [ok |-> TRUE, vals |-> Values(fields, wants, XDRValue)]
  ELSE [ok |-> FALSE, vals |-> <<>>]

\* The client's xdr decoding of a reply.
ReplyReader(fields, wants) ==
  IF Fits(fields, wants, ClientReads) THEN [ok |-> TRUE, vals |-> Values(fields, wants, Plain)]
  ELSE [ok |-> FALSE, vals |-> <<>>]

-----------------------------------------------------------------------------
(* The client's encoders shared by the calls.                              *)

FileSpecGiven(s) == (s.parent_handle # NULL /\ s.component_name # NULL) \/ s.full_path # NULL

EncodeFileSpec(s) ==
  << Field("FileSpec",
       IF s.full_path # NULL
       THEN << Field("ZFS_NULL_PARAM_T", 1), Field("ZFS_CSTRING_PATH_T", s.full_path) >>
       ELSE << Field("ZFS_NULL_PARAM_T", 0), Field("ZFS_HANDLE_T", s.parent_handle),
               Field("ZFS_CSTRING_NAME_T", s.component_name) >>) >>

zoidfs_xdr_encode_hint == << Field("OpHint", << Field("ZFS_NULL_PARAM_T", 0) >>) >>

OpId(id) == << Field("ZFS_OP_ID_T", id) >>

\* The validations, in order: the first that fails decides the error.
Missing(args) == IF \E i \in DOMAIN args : args[i] = NULL THEN ZFSERR_OTHER ELSE ZFS_OK
BadSpec(s) == IF FileSpecGiven(s) THEN ZFS_OK ELSE ZFSERR_MISC
First(e1, e2) == IF e1 # ZFS_OK THEN e1 ELSE e2
=============================================================================
