------------------------------ MODULE ZoidfsOps -----------------------------
(***************************************************************************)
(* The sixteen operations of the protocol, each as three views of the code: *)
(*   zoidfs_x(a)      the client function called with arguments a: the      *)
(*                    error its validation gives, the fields it sends, the  *)
(*                    <<type, name>> pairs it decodes from a good reply;    *)
(*   IOFWDXRequest    the server's request: the <<type, name>> pairs it     *)
(*                    decodes after the op id, and those a good reply       *)
(*                    carries after the status;                             *)
(*   XTaskSM(p)       the back-end call that the task machine, and the      *)
(*                    blocking task of TASK mode, makes with parameters p.  *)
(***************************************************************************)
EXTENDS ZoidfsWire, FiniteSetsExt

CONSTANTS PIPELINE_SIZE,      \* the client's chunk of a large transfer
          max_buffer_size     \* the largest buffer the server's BMI can handle

ASSUME PipelineSizeAssumption ==
  PIPELINE_SIZE \in Nat \ {0} /\ max_buffer_size \in Nat \ {0}

Client(error, send, recv) == [error |-> error, send |-> send, recv |-> recv]
Request(params, reply) ==
  [params |-> params \o << <<"OpHint", "op_hint">> >>, reply |-> reply]
Call(op, args) == [op |-> op, args |-> args]

-----------------------------------------------------------------------------
zoidfs_null(a) == Client(ZFS_OK, OpId(0), <<>>)
\* Nothing is decoded, not even a hint.
IOFWDNullRequest == [params |-> <<>>, reply |-> <<>>]
NullTaskSM(p) == Call("null", <<>>)

zoidfs_getattr(a) ==
  Client(Missing(<<a.handle, a.attr>>),
         OpId(1) \o << Field("ZFS_HANDLE_T", a.handle), Field("ZFS_ATTR_T", a.attr) >>
                 \o zoidfs_xdr_encode_hint,
         << <<"ZFS_ATTR_T", "attr">> >>)
IOFWDGetAttrRequest ==
  Request(<< <<"zoidfs_handle_t", "handle">>, <<"zoidfs_attr_t", "attr">> >>,
          << <<"zoidfs_attr_t", "attr">> >>)
GetAttrTaskSM(p) == Call("getattr", [handle |-> p.handle, attr |-> p.attr])

zoidfs_setattr(a) ==
  Client(Missing(<<a.handle, a.attr, a.sattr>>),
         OpId(2) \o << Field("ZFS_HANDLE_T", a.handle), Field("ZFS_SATTR_T", a.sattr),
                       Field("ZFS_ATTR_T", a.attr) >> \o zoidfs_xdr_encode_hint,
         << <<"ZFS_ATTR_T", "attr">> >>)
IOFWDSetAttrRequest ==
  Request(<< <<"zoidfs_handle_t", "handle">>, <<"zoidfs_sattr_t", "sattr">>,
             <<"zoidfs_attr_t", "attr">> >>,
          << <<"zoidfs_attr_t", "attr">> >>)
SetAttrTaskSM(p) ==
  Call("setattr", [handle |-> p.handle, sattr |-> p.sattr, attr |-> p.attr])

zoidfs_lookup(a) ==
  Client(BadSpec(a.spec),
         OpId(3) \o EncodeFileSpec(a.spec) \o zoidfs_xdr_encode_hint,
         << <<"ZFS_HANDLE_T", "handle">> >>)
IOFWDLookupRequest ==
  Request(<< <<"FileSpec", "spec">> >>,
          << <<"zoidfs_handle_t", "handle">> >>)
LookupTaskSM(p) == Call("lookup", [spec |-> p.spec])

\* One byte more than the caller asked for travels, for the terminating zero.
zoidfs_readlink(a) ==
  Client(Missing(<<a.handle, a.buffer>>),
         OpId(4) \o << Field("ZFS_HANDLE_T", a.handle),
                       Field("ZFS_UINT64_T", AtMost(a.buffer_length + 1, ZOIDFS_PATH_MAX + 1)) >>
                 \o zoidfs_xdr_encode_hint,
         << <<"ZFS_BUFFER_T", "buffer">> >>)
IOFWDReadLinkRequest ==
  Request(<< <<"zoidfs_handle_t", "handle">>, <<"uint64_t", "buffer_length">> >>,
          << <<"EncString", "buffer">> >>)
ReadLinkTaskSM(p) ==
  Call("readlink", [handle |-> p.handle,
                    buffer_length |-> AtMost(p.buffer_length, ZOIDFS_PATH_MAX + 1)])

zoidfs_commit(a) ==
  Client(Missing(<<a.handle>>),
         OpId(5) \o << Field("ZFS_HANDLE_T", a.handle) >> \o zoidfs_xdr_encode_hint, <<>>)
IOFWDCommitRequest ==
  Request(<< <<"zoidfs_handle_t", "handle">> >>,
          <<>>)
CommitTaskSM(p) == Call("commit", [handle |-> p.handle])

zoidfs_create(a) ==
  Client(First(Missing(<<a.handle, a.sattr, a.created>>), BadSpec(a.spec)),
         OpId(6) \o EncodeFileSpec(a.spec) \o << Field("ZFS_SATTR_T", a.sattr) >>
                 \o zoidfs_xdr_encode_hint,
         << <<"ZFS_HANDLE_T", "handle">>, <<"ZFS_INT_T", "created">> >>)
IOFWDCreateRequest ==
  Request(<< <<"FileSpec", "spec">>, <<"zoidfs_sattr_t", "sattr">> >>,
          << <<"zoidfs_handle_t", "handle">>, <<"int32_t", "created">> >>)
CreateTaskSM(p) == Call("create", [spec |-> p.spec, sattr |-> p.sattr])

zoidfs_remove(a) ==
  Client(BadSpec(a.spec),
         OpId(7) \o EncodeFileSpec(a.spec) \o zoidfs_xdr_encode_hint,
         IF a.parent_hint = NULL THEN <<>> ELSE << <<"ZFS_CACHE_HINT_T", "parent_hint">> >>)
IOFWDRemoveRequest ==
  Request(<< <<"FileSpec", "spec">> >>,
          << <<"zoidfs_cache_hint_t", "parent_hint">> >>)
RemoveTaskSM(p) == Call("remove", [spec |-> p.spec])

BothHints == << <<"ZFS_CACHE_HINT_T", "from_parent_hint">>,
                <<"ZFS_CACHE_HINT_T", "to_parent_hint">> >>
ReplyHints == << <<"zoidfs_cache_hint_t", "from_parent_hint">>,
                 <<"zoidfs_cache_hint_t", "to_parent_hint">> >>

\* A request has a path if its first character is not zero, so an empty path counts
\* as none; the paths of the model are not empty.
zoidfs_rename(a) ==
  Client(First(BadSpec(a.from), BadSpec(a.to)),
         OpId(8) \o EncodeFileSpec(a.from) \o EncodeFileSpec(a.to)
                 \o zoidfs_xdr_encode_hint, BothHints)
\* Mutant: the two file specs are decoded in the other order.
IOFWDRenameRequest_swapped ==
  Request(<< <<"FileSpec", "to">>, <<"FileSpec", "from">> >>,
          ReplyHints)
IOFWDRenameRequest ==
  Request(<< <<"FileSpec", "from">>, <<"FileSpec", "to">> >>,
          ReplyHints)
RenameTaskSM(p) == Call("rename", [from |-> p.from, to |-> p.to])

zoidfs_symlink(a) ==
  Client(First(Missing(<<a.sattr>>), First(BadSpec(a.from), BadSpec(a.to))),
         OpId(9) \o EncodeFileSpec(a.from) \o EncodeFileSpec(a.to)
                 \o << Field("ZFS_SATTR_T", a.sattr) >> \o zoidfs_xdr_encode_hint, BothHints)
IOFWDSymLinkRequest ==
  Request(<< <<"FileSpec", "from">>, <<"FileSpec", "to">>,
             <<"zoidfs_sattr_t", "sattr">> >>,
          ReplyHints)
SymLinkTaskSM(p) == Call("symlink", [from |-> p.from, to |-> p.to, sattr |-> p.sattr])

zoidfs_mkdir(a) ==
  Client(First(Missing(<<a.sattr>>), BadSpec(a.spec)),
         OpId(10) \o EncodeFileSpec(a.spec) \o << Field("ZFS_SATTR_T", a.sattr) >>
                  \o zoidfs_xdr_encode_hint,
         << <<"ZFS_CACHE_HINT_T", "parent_hint">> >>)
IOFWDMkdirRequest ==
  Request(<< <<"FileSpec", "spec">>, <<"zoidfs_sattr_t", "sattr">> >>,
          << <<"zoidfs_cache_hint_t", "parent_hint">> >>)
MkdirTaskSM(p) == Call("mkdir", [spec |-> p.spec, sattr |-> p.sattr])

zoidfs_readdir(a) ==
  Client(First(Missing(<<a.handle>>),
               First(IF a.entry_count = 0 THEN ZFSERR_OTHER ELSE ZFS_OK,
                     Missing(<<a.entries>>))),
         OpId(11) \o << Field("ZFS_HANDLE_T", a.handle), Field("ZFS_DIRENT_COOKIE_T", a.cookie),
                        Field("ZFS_UINT32_T", a.entry_count), Field("ZFS_UINT32_T", a.flags) >>
                  \o zoidfs_xdr_encode_hint,
         << <<"ZFS_UINT32_T", "entry_count">>, <<"ZFS_DIRENT_TRANSFER_T", "entries">>,
            <<"ZFS_CACHE_HINT_T", "parent_hint">> >>)
IOFWDReadDirRequest ==
  Request(<< <<"zoidfs_handle_t", "handle">>, <<"zoidfs_dirent_cookie_t", "cookie">>,
             <<"uint32_t", "entry_count">>, <<"uint32_t", "flags">> >>,
          << <<"uint32_t", "entry_count">>, <<"EncVarArray dirent", "entries">>,
             <<"zoidfs_cache_hint_t", "parent_hint">> >>)
ReadDirTaskSM(p) ==
  Call("readdir", [handle |-> p.handle, cookie |-> p.cookie,
                   entry_count |-> p.entry_count, flags |-> p.flags])

zoidfs_resize(a) ==
  Client(Missing(<<a.handle>>),
         OpId(12) \o << Field("ZFS_HANDLE_T", a.handle), Field("ZFS_UINT64_T", a.size) >>
                  \o zoidfs_xdr_encode_hint, <<>>)
IOFWDResizeRequest ==
  Request(<< <<"zoidfs_handle_t", "handle">>, <<"uint64_t", "size">> >>,
          <<>>)
ResizeTaskSM(p) == Call("resize", [handle |-> p.handle, size |-> p.size])

zoidfs_link(a) ==
  Client(First(BadSpec(a.from), BadSpec(a.to)),
         OpId(15) \o EncodeFileSpec(a.from) \o EncodeFileSpec(a.to)
                  \o zoidfs_xdr_encode_hint, BothHints)
IOFWDLinkRequest ==
  Request(<< <<"FileSpec", "from">>, <<"FileSpec", "to">> >>,
          ReplyHints)
LinkTaskSM(p) == Call("link", [from |-> p.from, to |-> p.to])

-----------------------------------------------------------------------------
(* Writes and reads.  The request carries the sizes; the data travels in    *)
(* messages of its own, before the reply.                                   *)

Total(sizes) ==
  LET first[n \in 0..Len(sizes)] == IF n = 0 THEN 0 ELSE first[n - 1] + sizes[n]
  IN first[Len(sizes)]

\* A transfer is cut into chunks when it is at least one chunk long.
pipeline_size(a) == IF Total(a.mem_sizes) >= PIPELINE_SIZE THEN PIPELINE_SIZE ELSE 0

TransferErrors(a) ==
  First(Missing(<<a.handle, a.mem_starts>>),
        First(Missing(a.mem_starts), Missing(<<a.mem_sizes, a.file_starts, a.file_sizes>>)))

\* With no memory or no file segments the call returns ZFS_OK and sends nothing.
TransferRequest(id, a) ==
  IF a.mem_sizes = <<>> \/ a.file_sizes = <<>> THEN <<>>
  ELSE OpId(id) \o
       << Field("ZFS_HANDLE_T", a.handle),
          Field("ZFS_SIZE_T", Len(a.mem_sizes)), Field("ZFS_SIZE_T_ARRAY_T", a.mem_sizes),
          Field("ZFS_SIZE_T", Len(a.file_sizes)),
          Field("ZFS_FILE_OFS_ARRAY_T", a.file_starts),
          Field("ZFS_FILE_OFS_ARRAY_T", a.file_sizes),
          Field("ZFS_SIZE_T", pipeline_size(a)) >> \o zoidfs_xdr_encode_hint

zoidfs_write(a) ==
  Client(TransferErrors(a), TransferRequest(13, a),
         << <<"ZFS_FILE_OFS_ARRAY_T", "file_sizes">> >>)
zoidfs_read(a) ==
  Client(TransferErrors(a), TransferRequest(14, a),
         << <<"ZFS_FILE_OFS_ARRAY_T", "file_sizes">> >>)

DecodeTransfer ==
  Request(<< <<"zoidfs_handle_t", "handle">>, <<"size_t", "mem_count">>,
             <<"EncVarArray uint64", "mem_sizes">>, <<"size_t", "file_count">>,
             <<"EncVarArray uint64", "file_starts">>, <<"EncVarArray uint64", "file_sizes">>,
             <<"size_t", "pipeline_size">> >>,
          << <<"EncVarArray uint64", "file_sizes">> >>)
IOFWDWriteRequest == DecodeTransfer
IOFWDReadRequest == DecodeTransfer

\* Which file segments the data goes to or comes from, all buffers together.
FileSegments(op, p) ==
  Call(op, [handle |-> p.handle, file_starts |-> p.file_starts, file_sizes |-> p.file_sizes])
WriteTaskSM(p) == FileSegments("write", p)
ReadTaskSM(p) == FileSegments("read", p)

\* Mutant: the end of a chunk is taken from the start of its last segment.
NextChunk_end(sizes, size, c) ==
  LET before(i) == Total(SubSeq(sizes, 1, i))
      reaching == {i \in DOMAIN sizes : c.start + size <= before(i)}
      end_mem == IF reaching # {} THEN Min(reaching) ELSE Len(sizes)
      end_mem_ofs == IF reaching # {} THEN AtMost(size, sizes[end_mem]) ELSE sizes[end_mem]
      first(i) == IF i = c.mem THEN c.ofs ELSE 0
      last(i) == IF i = end_mem THEN end_mem_ofs ELSE sizes[i]
      full == sizes[end_mem] = end_mem_ofs
  IN [pieces |-> [j \in 1..(end_mem + 1 - c.mem) |->
                    LET i == c.mem + j - 1
                    IN [mem |-> i, ofs |-> first(i), size |-> last(i) - first(i)]],
      next |-> [start |-> before(end_mem - 1) + end_mem_ofs,
                mem |-> IF full THEN end_mem + 1 ELSE end_mem,
                ofs |-> IF full THEN 0 ELSE end_mem_ofs]]

\* One pass of the loop of zoidfs_write_pipeline and zoidfs_read_pipeline, from
\* position c: start bytes are done, the next is byte ofs of memory segment mem.
\* The pieces are what one send or receive covers.
NextChunk(sizes, size, c) ==
  LET before(i) == Total(SubSeq(sizes, 1, i))
      reaching == {i \in DOMAIN sizes : c.start + size <= before(i)}
      end_mem == IF reaching # {} THEN Min(reaching) ELSE Len(sizes)
      end_mem_ofs == IF reaching # {} THEN c.start + size - before(end_mem - 1)
                     ELSE sizes[end_mem]
      first(i) == IF i = c.mem THEN c.ofs ELSE 0
      last(i) == IF i = end_mem THEN end_mem_ofs ELSE sizes[i]
      full == sizes[end_mem] = end_mem_ofs
  IN [pieces |-> [j \in 1..(end_mem + 1 - c.mem) |->
                    LET i == c.mem + j - 1
                    IN [mem |-> i, ofs |-> first(i), size |-> last(i) - first(i)]],
      next |-> [start |-> before(end_mem - 1) + end_mem_ofs,
                mem |-> IF full THEN end_mem + 1 ELSE end_mem,
                ofs |-> IF full THEN 0 ELSE end_mem_ofs]]

\* Without a pipeline one message carries everything.
WholeTransfer(sizes, c) ==
  [pieces |-> [i \in DOMAIN sizes |-> [mem |-> i, ofs |-> 0, size |-> sizes[i]]],
   next |-> [start |-> Total(sizes), mem |-> Len(sizes) + 1, ofs |-> 0]]

ClientChunk(a, c) ==
  IF pipeline_size(a) = 0 THEN WholeTransfer(a.mem_sizes, c)
  ELSE NextChunk(a.mem_sizes, pipeline_size(a), c)

\* What the server's task posts next when `done` bytes were transferred.
ServerChunk(p, done) ==
  IF p.pipeline_size = 0 THEN Total(p.mem_sizes)
  ELSE AtMost(AtMost(max_buffer_size, p.pipeline_size), Total(p.mem_sizes) - done)

-----------------------------------------------------------------------------
\* The public functions of the client library.
zoidfs(op, a) ==
  CASE op = "null" -> zoidfs_null(a)         [] op = "getattr" -> zoidfs_getattr(a)
    [] op = "setattr" -> zoidfs_setattr(a)   [] op = "lookup" -> zoidfs_lookup(a)
    [] op = "readlink" -> zoidfs_readlink(a) [] op = "commit" -> zoidfs_commit(a)
    [] op = "create" -> zoidfs_create(a)     [] op = "remove" -> zoidfs_remove(a)
    [] op = "rename" -> zoidfs_rename(a)     [] op = "symlink" -> zoidfs_symlink(a)
    [] op = "mkdir" -> zoidfs_mkdir(a)       [] op = "readdir" -> zoidfs_readdir(a)
    [] op = "resize" -> zoidfs_resize(a)     [] op = "write" -> zoidfs_write(a)
    [] op = "read" -> zoidfs_read(a)         [] op = "link" -> zoidfs_link(a)

\* map_ of IOFWDFrontend: the request class of each op id.
map_(opid) ==
  CASE opid = 0 -> IOFWDNullRequest         [] opid = 1 -> IOFWDGetAttrRequest
    [] opid = 2 -> IOFWDSetAttrRequest      [] opid = 3 -> IOFWDLookupRequest
    [] opid = 4 -> IOFWDReadLinkRequest     [] opid = 5 -> IOFWDCommitRequest
    [] opid = 6 -> IOFWDCreateRequest       [] opid = 7 -> IOFWDRemoveRequest
    [] opid = 8 -> IOFWDRenameRequest       [] opid = 9 -> IOFWDSymLinkRequest
    [] opid = 10 -> IOFWDMkdirRequest       [] opid = 11 -> IOFWDReadDirRequest
    [] opid = 12 -> IOFWDResizeRequest      [] opid = 13 -> IOFWDWriteRequest
    [] opid = 14 -> IOFWDReadRequest        [] opid = 15 -> IOFWDLinkRequest

\* TaskSMFactory, and ThreadTasks in TASK mode: the task of each op id.
TaskSMFactory(opid, p) ==
  CASE opid = 0 -> NullTaskSM(p)      [] opid = 1 -> GetAttrTaskSM(p)
    [] opid = 2 -> SetAttrTaskSM(p)   [] opid = 3 -> LookupTaskSM(p)
    [] opid = 4 -> ReadLinkTaskSM(p)  [] opid = 5 -> CommitTaskSM(p)
    [] opid = 6 -> CreateTaskSM(p)    [] opid = 7 -> RemoveTaskSM(p)
    [] opid = 8 -> RenameTaskSM(p)    [] opid = 9 -> SymLinkTaskSM(p)
    [] opid = 10 -> MkdirTaskSM(p)    [] opid = 11 -> ReadDirTaskSM(p)
    [] opid = 12 -> ResizeTaskSM(p)   [] opid = 13 -> WriteTaskSM(p)
    [] opid = 14 -> ReadTaskSM(p)     [] opid = 15 -> LinkTaskSM(p)
=============================================================================
