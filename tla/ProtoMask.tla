----------------------------- MODULE ProtoMask -----------------------------
(***************************************************************************)
(* The frame header of protocol.hpp, serialised as the packed struct lays *)
(* it out in memory on a little-endian host, and proto_mask::get_mask,    *)
(* the one's-complement 16-bit checksum over header and payload.  Bytes   *)
(* are integers 0..255.  The uint32_t accumulator never wraps: a 64 KB   *)
(* buffer holds at most 32768 words, whose sum stays below 2^31.         *)
(***************************************************************************)
EXTENDS Integers, Sequences

\* protocol.hpp: FRAME_KEY, sizeof(protocol_head), protocol_cmd.
FRAME_KEY == 46
PROTO_HEAD_SIZE == 11
Commands_AuthenticationAAA == 32398
Commands_RoutingTransparent == 32400

LE16(x) == << x % 256, x \div 256 >>
LE32(x) == << x % 256, (x \div 256) % 256, (x \div 65536) % 256, x \div 16777216 >>

\* get_a_head's cmd_compressed_flag (MSVC), or the cmd:15 / compressed:1
\* bit-field (other compilers): the same 16 bits, compressed the top one.
CmdCompressedFlag(cmd, compressed) == (cmd % 32768) + 32768 * compressed

\* (a mutant: the header without #pragma pack(1), a pad byte after fk)
GetAHeadUnpacked(fk, len, mask, cmd, compressed, seq) ==
  << fk, 0 >> \o LE16(len) \o LE16(mask) \o LE16(CmdCompressedFlag(cmd, compressed))
    \o LE32(seq)

\* protocol_head::get_a_head, as its bytes: fk, len, mask, the cmd:15 /
\* compressed:1 bit-field, seq.
GetAHead(fk, len, mask, cmd, compressed, seq) ==
  << fk >> \o LE16(len) \o LE16(mask) \o LE16(CmdCompressedFlag(cmd, compressed))
    \o LE32(seq)

\* protocol_head::unpack_head(head, block): the PROTO_HEAD_SIZE bytes
\* copied over the packed struct, read back as its little-endian fields.
UnpackHead(b) ==
  [fk |-> b[1], len |-> b[2] + 256 * b[3], mask |-> b[4] + 256 * b[5],
   flag |-> b[6] + 256 * b[7], seq |-> b[8] + 256 * (b[9] + 256 * (b[10] + 256 * b[11]))]

\* get_cmd: the low 15 bits of the cmd / compressed word.
GetCmd(h) == h.flag % 32768

\* mask_off_32's loop: 16-bit words, first octet most significant; an odd
\* last octet counts as a word's high byte.
RECURSIVE SumFrom(_, _, _)
SumFrom(b, i, acc) ==
  IF i < Len(b) THEN SumFrom(b, i + 2, acc + b[i] * 256 + b[i + 1])
  ELSE IF i = Len(b) THEN acc + b[i] * 256
  ELSE acc
SumWords(b, acc) == SumFrom(b, 1, acc)

Carry(acc) == (acc \div 65536) + (acc % 65536)

\* mask_off_32: the sum, then the deferred carries added back at most twice.
MaskOff32(b, acc) ==
  LET a == Carry(SumWords(b, acc)) IN IF a \div 65536 # 0 THEN Carry(a) ELSE a

\* get_mask(head, head_len, data, data_len, acc): the complement of the
\* low 16 bits of the folded sum over the header, then the payload.
GetMask(head, data, acc) == 65535 - (MaskOff32(data, MaskOff32(head, acc)) % 65536)
-----------------------------------------------------------------------------
(* Payload encodings (NetUtils.hpp byte helpers, protocol.hpp pack and    *)
(* unpack of the AAA exchange).                                           *)

\* session_logic_interface::SessionType values the handshake tests.
CLIENT_PROXY == 1
MULTI_SESSION_BEGIN == 8
ACTIVE_GAMESVR == 33

\* NetUtils.hpp RC4_KEY_LEN.
RC4_KEY_LEN == 10

\* write_uint16 / write_uint32: most significant byte first.
BE16(x) == << x \div 256, x % 256 >>
BE32(x) == BE16(x \div 65536) \o BE16(x % 65536)

\* read_uint32: the four bytes most significant first (the model's uids stay
\* below 2^31, TLC's integer range).
ReadBE32(b) == ((b[1] * 256 + b[2]) * 256 + b[3]) * 256 + b[4]

\* (a mutant: the server id written where the area id belongs)
AAARequestPackSwapped(area, server, link, platform) ==
  BE16(server) \o BE16(area) \o << link >> \o platform \o << 0 >> \o BE16(Len(platform))

\* authentication_aaa_request::pack: area id, server id, link type, the
\* platform with its terminating NUL (platform_len + 1 bytes), then the
\* platform length.
AAARequestPack(area, server, link, platform) ==
  BE16(area) \o BE16(server) \o << link >> \o platform \o << 0 >> \o BE16(Len(platform))

\* authentication_aaa_request::unpack: platform_len is length - 8 and the
\* string is built from platform_len + 1 bytes at offset 5, its NUL
\* included.  A payload shorter than 8 bytes makes platform_len wrap: the
\* string is then read past the payload.  A byte past the payload is
\* memory the model does not know, written 256.
AAARequestUnpack(b) ==
  LET at(i) == IF i <= Len(b) THEN b[i] ELSE 256 IN
  [area |-> at(1) * 256 + at(2), server |-> at(3) * 256 + at(4), link |-> at(5),
   platform |-> IF Len(b) >= 8 THEN SubSeq(b, 6, Len(b) - 2) ELSE << 256 >>]

\* authentication_aaa_response::pack: the bytes it writes.  The length it
\* reports, AAAResponseLength, counts two bytes more than it writes.
AAAResponsePack(ec, subtract, modvt, key, linkNo, link) ==
  << ec, subtract, modvt >> \o key \o BE32(linkNo) \o << link >>
AAAResponseLength(keyLen) == 1 + 1 + 1 + keyLen + 2 + 4 + 1

\* authentication_aaa_response::unpack(block, length): ec, subtract and
\* mod_vt from the first three bytes, key_len = length - 11 (one less than
\* the K + 10 that pack reports for a K-byte key), the key, and link_no
\* read at key_len + 4.
AAAResponseUnpack(b) ==
  LET kl == Len(b) - 11 IN
  [ec |-> b[1], subtract |-> b[2], modvt |-> b[3], key |-> SubSeq(b, 4, 3 + kl),
   linkNo |-> ReadBE32(SubSeq(b, kl + 5, kl + 8))]
=============================================================================
