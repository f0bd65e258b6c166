----------------------------- MODULE IdlAccount -----------------------------
(***************************************************************************)
(* The on-chain IDL account handler (processor/idl.rs): the canonical      *)
(* account that holds the program's compressed IDL, and the write buffers  *)
(* beside it.  One action per sub-instruction; a sub-instruction that      *)
(* returns an error is a disabled action, because a failed transaction     *)
(* changes nothing.                                                        *)
(*                                                                         *)
(* An account is its owner, its allocated space in bytes and its bytes:    *)
(* the header (discriminator, authority, data_len) and the payload `body`, *)
(* which is as long as the space behind the header.  A zero byte is 0; the *)
(* key whose 32 bytes are zero is Erased.  Lamports are left out.          *)
(***************************************************************************)
EXTENDS Integers, FiniteSets, Sequences, SequencesExt

CONSTANTS
  Canonical,      \* the address derived from the program id
  Buffers,        \* addresses of write buffers
  Keys,           \* keys that can sign
  Erased,         \* ERASED_AUTHORITY: the key of 32 zero bytes, which cannot sign
  HEADER_LEN,
  MAX_SPACE_PER_OP,
  Bytes,          \* the non-zero payload bytes
  Lengths,        \* the lengths a sub-instruction names
  Payloads        \* the payloads of a Write

ASSUME IdlAssumption ==
  /\ Canonical \notin Buffers
  /\ Erased \notin Keys
  /\ HEADER_LEN \in Nat \ {0}
  /\ MAX_SPACE_PER_OP \in Nat /\ MAX_SPACE_PER_OP >= HEADER_LEN
  /\ 0 \notin Bytes
  /\ Lengths \subseteq Nat
  /\ Payloads \subseteq Seq(Bytes)

VARIABLE accounts

Addresses == {Canonical} \union Buffers
Authorities == Keys \union {Erased}

Zeros(n) == [i \in 1..n |-> 0]
BodyLen(space) == IF space > HEADER_LEN THEN space - HEADER_LEN ELSE 0

\* An account of `space` bytes, all of them zero.
Zeroed(owner, space) ==
  [owner |-> owner, space |-> space, disc |-> FALSE, authority |-> Erased,
   len |-> 0, body |-> Zeros(BodyLen(space))]

Unallocated == Zeroed("system", 0)

\* read_data_len bytes of the payload: what a reader of the account decodes.
Written(a) == SubSeq(a.body, 1, a.len)

-----------------------------------------------------------------------------
check_owned_idl(a) == a.owner = "program" /\ a.space >= HEADER_LEN /\ a.disc

\* The erased key cannot sign, so no signer matches an erased authority.
check_authority(a, k) == k # Erased /\ a.authority = k

Header(a, authority) == [a EXCEPT !.disc = TRUE, !.authority = authority, !.len = 0]

\* Overwrite the payload of a from offset `from` (0-based) with `bytes`.
CopyAt(body, from, bytes) ==
  [i \in 1..Len(body) |->
     IF i > from /\ i <= from + Len(bytes) THEN bytes[i - from] ELSE body[i]]

\* Mutant: the account is always allocated at the maximum.
CreateRoomy(from, data_len) ==
  /\ from # Erased
  /\ accounts[Canonical] = Unallocated
  /\ accounts' = [accounts EXCEPT ![Canonical] = Header(Zeroed("program", MAX_SPACE_PER_OP), from)]

\* system_instruction::create_account_with_seed fails on an address in use.
idl_create_account(from, data_len) ==
  LET space == IF HEADER_LEN + data_len < MAX_SPACE_PER_OP
               THEN HEADER_LEN + data_len ELSE MAX_SPACE_PER_OP
  IN  /\ from # Erased
      /\ accounts[Canonical] = Unallocated
      /\ accounts' = [accounts EXCEPT ![Canonical] = Header(Zeroed("program", space), from)]

idl_create_buffer(x, authority) ==
  LET a == accounts[x]
  IN  /\ a.owner = "program"
      /\ authority # Erased
      /\ a.space >= HEADER_LEN
      /\ a = Zeroed("program", a.space)
      /\ accounts' = [accounts EXCEPT ![x] = Header(a, authority)]

\* Mutant: the bound forgets the bytes already written.
WriteUnbounded(x, authority, bytes) ==
  LET a == accounts[x]
  IN  /\ check_owned_idl(a)
      /\ check_authority(a, authority)
      /\ HEADER_LEN + Len(bytes) <= a.space
      /\ accounts' = [accounts EXCEPT
                        ![x] = [a EXCEPT !.body = CopyAt(a.body, a.len, bytes),
                                         !.len = a.len + Len(bytes)]]

idl_write(x, authority, bytes) ==
  LET a == accounts[x]
  IN  /\ check_owned_idl(a)
      /\ check_authority(a, authority)
      /\ HEADER_LEN + a.len + Len(bytes) <= a.space
      /\ accounts' = [accounts EXCEPT
                        ![x] = [a EXCEPT !.body = CopyAt(a.body, a.len, bytes),
                                         !.len = a.len + Len(bytes)]]

\* The two accounts are borrowed at once, the second one mutably, so the
\* canonical account cannot be its own buffer.
idl_set_buffer(x, authority) ==
  LET b == accounts[x]
      a == accounts[Canonical]
  IN  /\ x # Canonical
      /\ check_owned_idl(b)
      /\ check_owned_idl(a)
      /\ check_authority(a, authority)
      /\ b.authority = a.authority
      /\ HEADER_LEN + b.len <= a.space
      /\ accounts' = [accounts EXCEPT
                        ![Canonical] = [a EXCEPT !.body = CopyAt(a.body, 0, Written(b)),
                                                 !.len = b.len]]

idl_set_authority(x, authority, new_authority) ==
  /\ check_owned_idl(accounts[x])
  /\ check_authority(accounts[x], authority)
  /\ accounts' = [accounts EXCEPT ![x].authority = new_authority]

\* realloc(new_space, false): the grown tail is not written by the handler and
\* the runtime hands out zeroed memory.
idl_resize_account(authority, data_len) ==
  LET a == accounts[Canonical]
      missing == IF data_len > a.space THEN data_len - a.space ELSE 0
      growth == IF missing < MAX_SPACE_PER_OP THEN missing ELSE MAX_SPACE_PER_OP
  IN  /\ check_owned_idl(a)
      /\ check_authority(a, authority)
      /\ a.len = 0
      /\ accounts' = [accounts EXCEPT
                        ![Canonical] = [a EXCEPT !.space = a.space + growth,
                                                 !.body = a.body \o Zeros(growth)]]

idl_close_account(x, authority) ==
  /\ check_owned_idl(accounts[x])
  /\ check_authority(accounts[x], authority)
  /\ accounts' = [accounts EXCEPT ![x] = Unallocated]

\* The system program allocating a buffer account for this program.
AllocateBuffer(x, space) ==
  /\ x \in Buffers
  /\ accounts[x] = Unallocated
  /\ accounts' = [accounts EXCEPT ![x] = Zeroed("program", space)]

-----------------------------------------------------------------------------
IdlInit == accounts = [x \in Addresses |-> Unallocated]

\* process_idl_instruction: the sub-operation dispatched on, with its accounts.
process_idl_instruction ==
  \E k \in Keys :
    \/ \E n \in Lengths : idl_create_account(k, n)
    \/ \E x \in Addresses : idl_create_buffer(x, k)
    \/ \E x \in Addresses, p \in Payloads : idl_write(x, k, p)
    \/ \E x \in Addresses : idl_set_buffer(x, k)
    \/ \E x \in Addresses, new \in Authorities : idl_set_authority(x, k, new)
    \/ \E n \in Lengths : idl_resize_account(k, n)
    \/ \E x \in Addresses : idl_close_account(x, k)

IdlNext ==
  \/ process_idl_instruction
  \/ \E x \in Buffers, n \in Lengths : AllocateBuffer(x, n)

-----------------------------------------------------------------------------
Account ==
  [owner : {"program", "system"}, space : Nat, disc : BOOLEAN,
   authority : Authorities, len : Nat, body : Seq(Bytes \union {0})]

\* Type invariant: every account is an owner, a size, a header and a payload
\* that fills the space behind the header.
IdlTypeOK ==
  /\ accounts \in [Addresses -> Account]
  /\ \A x \in Addresses : Len(accounts[x].body) = BodyLen(accounts[x].space)

\* What a reader decodes from an initialised account lies inside it and is what
\* writers appended: data_len never runs past the allocation, and no unwritten
\* byte is inside it, whatever sequence of Create, Write, SetBuffer, Resize,
\* Close and re-creation came before.
PayloadIsWritten ==
  \A x \in Addresses :
    LET a == accounts[x]
    IN  a.disc => /\ a.owner = "program"
                  /\ HEADER_LEN + a.len <= a.space
                  /\ \A i \in 1..a.len : a.body[i] \in Bytes

=============================================================================
