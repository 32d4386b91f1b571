-------------------------------- MODULE HostIO --------------------------------
(* Data transfer of the enclave's file, console and socket devices           *)
(* (syscall/devices/hostfs, consolefs.c, syscall/devices/hostsock) over the  *)
(* host's system calls (host/linux/syscall.c), as functions of the request   *)
(* and of the host's answer.                                                 *)
(*                                                                           *)
(* An answer is whatever comes back through an ocall: ok, whether the ocall  *)
(* itself succeeded, ret, the value returned, and len and ctl, the lengths   *)
(* the host reports. Nothing is assumed of them but their type.              *)
EXTENDS Integers, Sequences, SequencesExt

CONSTANTS
  SizeMax,       \* largest size_t
  SsizeMax,      \* OE_SSIZE_MAX
  IovMax,        \* OE_IOV_MAX
  AddrBuf,       \* sizeof(sockaddr_t), the buffer addresses are copied through
  StorageSize,   \* sizeof(struct oe_sockaddr_storage)
  EntrySize,     \* sizeof(struct oe_iovec)
  HostBuf        \* host address an iovec buffer is marshalled to

ASSUME HostIOAssumption == SizeMax = 2 * SsizeMax + 1 /\ EntrySize > 0 /\ HostBuf > 0

Fail == -1

\* The ocall's result: -1 when the ocall could not be made.
Forward(h) == IF h.ok THEN h.ret ELSE Fail

\* The result is passed on as the host gave it.
TransferUnguarded(count, h) ==
  IF count > SsizeMax THEN Fail ELSE Forward(h)

\* A count SSIZE_MAX cannot express is refused, and so is a result above it.
Transfer(count, h) ==
  IF count > SsizeMax \/ Forward(h) > count THEN Fail ELSE Forward(h)

-----------------------------------------------------------------------------
(* I/O vectors. An entry has a length, a buffer or NULL, and its bytes.      *)

DataSize(iov) == FoldLeft(LAMBDA n, v : n + v.len, 0, iov)

\* Length of the data before entry i.
Before(iov, i) == DataSize(SubSeq(iov, 1, i - 1))

Bytes(iov) == FoldLeft(LAMBDA d, v : d \o v.bytes, <<>>, iov)

\* oe_iov_pack: a header per entry with the offset of its data (0 for an empty
\* entry), then the data. An entry with a length but no buffer is refused.
oe_iov_pack(iov) ==
  [ok   |-> \A i \in DOMAIN iov : iov[i].len > 0 => iov[i].base,
   head |-> [i \in DOMAIN iov |->
               [len |-> iov[i].len,
                off |-> IF iov[i].len = 0 THEN 0
                        ELSE EntrySize * Len(iov) + Before(iov, i)]],
   data |-> Bytes(iov)]

\* _relocate_iov_bases: offsets to addresses and back; NULL stays NULL.
_relocate_iov_bases(head, addend) ==
  [i \in DOMAIN head |->
     IF head[i].off = 0 THEN head[i] ELSE [head[i] EXCEPT !.off = @ + addend]]

\* Entry (of head) that byte p of the buffer's data belongs to, and the number
\* of bytes all entries before that byte take.
Covers(head, p) ==
  {i \in DOMAIN head : head[i].len > 0 /\ p \in head[i].off .. head[i].off + head[i].len - 1}

\* readv and recvv on the host: stream, no longer than the entries, fills them
\* in order.
oe_syscall_readv_ocall(pack, stream) ==
  LET head == _relocate_iov_bases(pack.head, HostBuf)
      first == HostBuf + EntrySize * Len(head)
      Rank(i, p) == Before(head, i) + (p - head[i].off) + 1
      NewByte(j) ==
        LET p == first + j - 1
            hit == {i \in Covers(head, p) : Rank(i, p) <= Len(stream)}
        IN  IF hit = {} THEN pack.data[j]
            ELSE LET i == CHOOSE i \in hit : \A k \in hit : k <= i IN stream[Rank(i, p)]
  IN  [head |-> _relocate_iov_bases(head, -HostBuf),
       data |-> [j \in DOMAIN pack.data |-> NewByte(j)]]

\* writev and sendv on the host: the entries' bytes in order.
oe_syscall_writev_ocall(pack) ==
  LET head == _relocate_iov_bases(pack.head, HostBuf)
      Base(i) == head[i].off - HostBuf - EntrySize * Len(head)
      Entry(i) == IF head[i].len = 0 THEN <<>>
                  ELSE SubSeq(pack.data, Base(i) + 1, Base(i) + head[i].len)
  IN  FoldLeft(LAMBDA d, i : d \o Entry(i), <<>>, [i \in DOMAIN head |-> i])

\* oe_iov_sync: the entries take the bytes at their offsets; a header that is
\* not the one packed is refused.
oe_iov_sync(iov, buf) ==
  LET size == EntrySize * Len(iov) + Len(buf.data)
      Good(i) == LET b == buf.head[i] IN
                   /\ b.len = iov[i].len
                   /\ b.len > 0 => /\ (b.off # 0) = iov[i].base
                                   /\ b.off + b.len <= size
      At(i) == buf.head[i].off - EntrySize * Len(iov)
  IN  [ok  |-> \A i \in DOMAIN iov : Good(i),
       iov |-> [i \in DOMAIN iov |->
                  IF buf.head[i].len = 0 \/ ~iov[i].base THEN iov[i]
                  ELSE [iov[i] EXCEPT !.bytes =
                          SubSeq(buf.data, At(i) + 1, At(i) + iov[i].len)]]]

\* The vector operations' result before the data is looked at: a vector that
\* cannot be packed is refused.
VectorTransfer(iov, h) ==
  IF Len(iov) > IovMax \/ ~oe_iov_pack(iov).ok THEN Fail
  ELSE Transfer(DataSize(iov), h)

\* _hostfs_readv: result and vector, for an answer that carries stream.
_hostfs_readv(iov, h, stream) ==
  LET ret == VectorTransfer(iov, h)
      sync == oe_iov_sync(iov, oe_syscall_readv_ocall(oe_iov_pack(iov), stream))
  IN  IF ret <= 0 THEN [ret |-> ret, iov |-> iov] ELSE [ret |-> ret, iov |-> sync.iov]

_hostfs_writev(iov, h) == VectorTransfer(iov, h)

\* _hostsock_readv and _consolefs_readv; the console copies back in any case.
_hostsock_readv(iov, h, stream) == _hostfs_readv(iov, h, stream)

_hostsock_writev(iov, h) == VectorTransfer(iov, h)

_consolefs_readv(iov, h, stream) ==
  LET ret == VectorTransfer(iov, h)
      copied == ret # Fail \/ (VectorTransfer(iov, [h EXCEPT !.ret = 0]) = 0 /\ h.ret = Fail)
  IN  [ret |-> ret,
       iov |-> IF copied
               THEN oe_iov_sync(iov, oe_syscall_readv_ocall(oe_iov_pack(iov), stream)).iov
               ELSE iov]

_consolefs_writev(iov, h) == VectorTransfer(iov, h)

-----------------------------------------------------------------------------
(* Plain transfers.                                                          *)

_hostfs_read(count, h) == Transfer(count, h)

_hostfs_write(buf, count, h) == IF count > 0 /\ ~buf THEN Fail ELSE Transfer(count, h)

_hostfs_pread(count, h) == Transfer(count, h)

_hostfs_pwrite(count, h) == Transfer(count, h)

_consolefs_read(count, h) == Transfer(count, h)

_consolefs_write(count, h) == Transfer(count, h)

_hostsock_recv(buf, count, h) == IF count > 0 /\ ~buf THEN Fail ELSE Transfer(count, h)

_hostsock_send(buf, count, h) == IF count > 0 /\ ~buf THEN Fail ELSE Transfer(count, h)

_hostsock_sendto(buf, count, h) == IF count > 0 /\ ~buf THEN Fail ELSE Transfer(count, h)

_hostsock_sendmsg(count, h) == Transfer(count, h)

\* _hostsock_recvfrom: an address length above sockaddr_storage ends the call
\* before the result is compared with count.
_hostsock_recvfrom(buf, count, addrlen, h) ==
  IF (count > 0 /\ ~buf) \/ count > SsizeMax \/ ~h.ok
  THEN [ret |-> Fail, len |-> addrlen]
  ELSE IF h.len > StorageSize THEN [ret |-> h.ret, len |-> addrlen]
  ELSE [ret |-> Transfer(count, h), len |-> h.len]

\* _hostsock_recvmsg: likewise; a name or control length above the supplied one
\* leaves the supplied one in place.
_hostsock_recvmsg(count, namelen, ctllen, h) ==
  LET Kept(n, out) == IF n >= out THEN out ELSE n
      same == [ret |-> Fail, len |-> namelen, ctl |-> ctllen]
  IN  IF count > SsizeMax \/ Forward(h) = Fail THEN same
      ELSE IF h.len > StorageSize THEN [same EXCEPT !.ret = h.ret]
      ELSE [ret |-> Transfer(count, h), len |-> Kept(namelen, h.len),
            ctl |-> Kept(ctllen, h.ctl)]

\* _hostfs_getdents64 over _hostfs_readdir: entries one by one until the host
\* reports the end (1); any other answer than an entry (0) is an error.
_hostfs_readdir(a) ==
  IF ~a.ok THEN "error" ELSE IF a.ret = 1 THEN "end"
  ELSE IF a.ret = 0 /\ a.reclen THEN "entry" ELSE "error"

_hostfs_getdents64(n, answers) ==
  LET stop == {i \in 1 .. n : _hostfs_readdir(answers[i]) # "entry"}
  IN  IF stop = {} THEN n
      ELSE LET i == CHOOSE i \in stop : \A j \in stop : i <= j
           IN  IF _hostfs_readdir(answers[i]) = "error" THEN Fail ELSE i - 1

-----------------------------------------------------------------------------
(* Lengths reported by the host.                                             *)

\* _hostsock_getsockopt truncates the reported length to the supplied one.
_hostsock_getsockopt(optlen, h) ==
  IF ~h.ok THEN [ret |-> Fail, len |-> optlen]
  ELSE [ret |-> h.ret, len |-> IF h.len > optlen THEN optlen ELSE h.len]

_hostsock_getpeername(addrlen, h) ==
  IF ~h.ok THEN [ret |-> Fail, len |-> addrlen]
  ELSE [ret |-> h.ret, len |-> IF h.len > StorageSize THEN addrlen ELSE h.len]

\* _hostsock_getsockname does not report a truncation.
_hostsock_getsockname(addrlen, h) ==
  IF ~h.ok THEN [ret |-> Fail, len |-> addrlen]
  ELSE [ret |-> h.ret,
        len |-> IF h.len > StorageSize \/ addrlen < h.len THEN addrlen ELSE h.len]

\* _hostsock_accept: the peer's address must fit the caller's buffer.
_hostsock_accept(addrlen, h) ==
  IF addrlen > AddrBuf \/ Forward(h) = Fail \/ h.len > addrlen
  THEN [ret |-> Fail, len |-> IF addrlen > AddrBuf \/ ~h.ok THEN addrlen ELSE h.len]
  ELSE [ret |-> h.ret, len |-> h.len]

-----------------------------------------------------------------------------
\* The scalar operations under one signature, for the properties below.
TransferOps == {"hostfs read", "hostfs write", "hostfs pread", "hostfs pwrite",
                "console read", "console write", "recv", "send", "sendto",
                "sendmsg", "recvfrom", "recvmsg"}

TransferResult(op, buf, count, len, h) ==
  CASE op = "hostfs read"   -> _hostfs_read(count, h)
    [] op = "hostfs write"  -> _hostfs_write(buf, count, h)
    [] op = "hostfs pread"  -> _hostfs_pread(count, h)
    [] op = "hostfs pwrite" -> _hostfs_pwrite(count, h)
    [] op = "console read"  -> _consolefs_read(count, h)
    [] op = "console write" -> _consolefs_write(count, h)
    [] op = "recv"          -> _hostsock_recv(buf, count, h)
    [] op = "send"          -> _hostsock_send(buf, count, h)
    [] op = "sendto"        -> _hostsock_sendto(buf, count, h)
    [] op = "sendmsg"       -> _hostsock_sendmsg(count, h)
    [] op = "recvfrom"      -> _hostsock_recvfrom(buf, count, len, h).ret
    [] op = "recvmsg"       -> _hostsock_recvmsg(count, len, len, h).ret

=============================================================================
