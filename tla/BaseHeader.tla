----------------------------- MODULE BaseHeader -----------------------------
(***************************************************************************)
(* The packet headers of the SDK: MakeHeader and UnPackHeader of           *)
(* BaseHeader (MakeHeader.cpp), ManualAuthCGITask and BindCGITask, and the *)
(* variable-length integers of fun.cpp they are built on.  Bytes are       *)
(* numbers below 256.  The version, the uin and the bytes of the cookie    *)
(* are looked at by nobody here: they are filler, and of the cookie only   *)
(* its length counts.                                                      *)
(***************************************************************************)
EXTENDS Integers, Sequences

CONSTANTS
    CgiTypes,       \* cgi types in use
    Lengths         \* lengths of request and answer bodies, compressed or not

(* The numbers of at most four digits to base 0x80. *)
Number == 0..(128^4 - 1)

ASSUME HeaderAssumption ==
    /\ CgiTypes \subseteq Number
    /\ Lengths \subseteq Number

VARIABLES
    m_cookie,       \* length of pAuthInfo->m_cookie
    m_Session,      \* the login is done: requests with the base header can be packed
    io,             \* the request or answer at hand
    phase           \* "idle", "sent" or "answered"

vars == <<m_cookie, m_Session, io, phase>>

Fill(n) == [i \in 1..n |-> 0]

-----------------------------------------------------------------------------
(* Variant: a digit is written but not counted. *)
DigitStepUncounted(acc, n) ==
    IF acc.data > 128^n
    THEN [data |-> acc.data % 128^n,
          hex |-> [acc.hex EXCEPT ![n] = (acc.data \div 128^n) % 256],
          len |-> acc.len]
    ELSE acc

(***************************************************************************)
(* Dword2String: the digits to base 0x80, least significant first, all but *)
(* the last marked.  The digits are found from the highest down; the       *)
(* length counts the divisions that were made.                             *)
(***************************************************************************)
DigitStep(acc, n) ==
    IF acc.data > 128^n
    THEN [data |-> acc.data % 128^n,
          hex |-> [acc.hex EXCEPT ![n] = (acc.data \div 128^n) % 256],
          len |-> acc.len + 1]
    ELSE acc

Dword2String(dw) ==
    LET none == [data |-> dw, hex |-> [n \in 0..4 |-> 0], len |-> 0]
        acc == DigitStep(DigitStep(DigitStep(DigitStep(none, 4), 3), 2), 1)
        hex == [acc.hex EXCEPT ![0] = acc.data % 256]
        dwOutLen == acc.len + 1
    IN  [i \in 1..dwOutLen |-> (hex[i - 1] + (IF i < dwOutLen THEN 128 ELSE 0)) % 256]

(* String2Dword: at most five bytes, up to the first that is not marked. *)
BytesRead(str) ==
    LET ends == {i \in 1..Len(str) : i = 5 \/ i = Len(str) \/ str[i] < 128}
    IN  CHOOSE i \in ends : \A j \in ends : i <= j

(* Four bytes leave room for four more bits in a DWORD; the rest of a      *)
(* fifth byte overflows.  The DWORD is taken as an int, as                 *)
(* m_nLenRespProtobuf and m_nLenRespCompressed are.                        *)
TopBits(c) == IF c % 16 < 8 THEN c % 16 ELSE (c % 16) - 16

ByteValue(str, i) ==
    IF i <= BytesRead(str) THEN (IF i = 5 THEN TopBits(str[i]) ELSE str[i] % 128) * 128^(i - 1)
                           ELSE 0

String2Dword(str) ==
    [value |-> ByteValue(str, 1) + ByteValue(str, 2) + ByteValue(str, 3)
                 + ByteValue(str, 4) + ByteValue(str, 5),
     len |-> BytesRead(str)]

(* The reference: base-128 integers as the rest of the world writes them. *)
Varint(n) ==
    LET size == CHOOSE k \in 1..5 : n < 128^k /\ (k = 1 \/ n >= 128^(k - 1))
    IN  [i \in 1..size |-> ((n \div 128^(i - 1)) % 128) + (IF i < size THEN 128 ELSE 0)]

-----------------------------------------------------------------------------
(***************************************************************************)
(* Requests.  The three MakeHeaders differ in the mobile mark, the cipher, *)
(* the cookie (its length as written in the header, and what they count    *)
(* for it) and the size of the trailing block.                             *)
(***************************************************************************)
Layout ==
    [Base       |-> [mark |-> 1, crypt |-> 5, cookie |-> 15, tail |-> 15],
     ManualAuth |-> [mark |-> 0, crypt |-> 7, cookie |-> 15, tail |-> 3],
     Bind       |-> [mark |-> 1, crypt |-> 1, cookie |-> 0, tail |-> 10]]

CompressFlag(kind, pb, zip) ==
    CASE kind = "ManualAuth" -> 2
      [] kind = "Bind" -> 1
      [] kind = "Base" -> IF pb = zip THEN 2 ELSE 1

(* What stands behind the integers, where a reader gets who has taken too  *)
(* many bytes for one of them: zeros in the base header, elsewhere the     *)
(* version of the RSA key, LOGIN_RSA_VER, and two constants.  The length   *)
(* of the encrypted body, which Bind puts behind these, is filler.         *)
Trailer(kind) ==
    [i \in 1..Layout[kind].tail |-> IF kind = "Base" \/ i > 3 THEN 0 ELSE <<158, 1, 2>>[i]]

(* The cookie that is really written. *)
CookieBytes(kind) == IF kind = "Base" THEN m_cookie ELSE Layout[kind].cookie

MakeHeader(kind, cgi, pb, zip) ==
    LET f == Layout[kind]
        ints == Dword2String(cgi) \o Dword2String(pb) \o Dword2String(zip)
        nCur == f.mark + 10 + f.cookie + Len(ints) + f.tail
    IN  (IF f.mark = 1 THEN <<191>> ELSE <<>>)
        \o <<(CompressFlag(kind, pb, zip) + 4 * nCur) % 256, 16 * f.crypt + f.cookie>>
        \o Fill(8) \o Fill(CookieBytes(kind)) \o ints \o Trailer(kind)

(***************************************************************************)
(* Answers: what the server sends, with proper integers, and the three     *)
(* UnPackHeaders.  BaseHeader's skips 15 bytes for any cookie.  Answers    *)
(* here have the 0x20 bytes all three insist on; for a shorter one they    *)
(* return no body and change nothing.                                      *)
(***************************************************************************)
Body == [i \in 1..16 |-> i]

ServerPack(mark, cookieLen, cgi, pb, zip) ==
    LET ints == Varint(cgi) \o Varint(pb) \o Varint(zip)
        size == mark + 10 + cookieLen + Len(ints) + 6
    IN  (IF mark = 1 THEN <<191>> ELSE <<>>)
        \o <<(IF pb = zip THEN 2 ELSE 1) + 4 * size, 16 * 5 + cookieLen>>
        \o Fill(8) \o Fill(cookieLen) \o ints \o Fill(6) \o Body

(* Variant: room for a cookie is skipped even when there is none. *)
CookieRoom(kind, nCookieLen) == 15

CookieSkip(kind, nCookieLen) ==
    IF nCookieLen = 0 THEN 0 ELSE IF kind = "Base" THEN 15 ELSE nCookieLen

UnPackHeader(kind, pack) ==
    LET mark == IF pack[1] = 191 THEN 1 ELSE 0
        nHeadLen == pack[mark + 1] \div 4
        nCookieLen == pack[mark + 2] % 16
        last(at) == IF at + 5 < Len(pack) THEN at + 5 ELSE Len(pack)
        read(at) == String2Dword(SubSeq(pack, at + 1, last(at)))
        cgiAt == mark + 10 + CookieSkip(kind, nCookieLen)
        pbAt == cgiAt + read(cgiAt).len
        zipAt == pbAt + read(pbAt).len
    IN  [body |-> SubSeq(pack, nHeadLen + 1, Len(pack)),
         compressed |-> pack[mark + 1] % 4 = 1,
         nCookieLen |-> nCookieLen,
         cgi |-> read(cgiAt).value,
         pb |-> read(pbAt).value,
         zip |-> read(zipAt).value]

-----------------------------------------------------------------------------
HeaderInit ==
    /\ m_cookie = 0
    /\ m_Session = FALSE
    /\ io = <<>>
    /\ phase = "idle"

(* Variant: any request is packed before the login. *)
Req2BufAnyTime(kind, cgi, pb, zip) ==
    /\ phase = "idle"
    /\ io' = [kind |-> kind, cgi |-> cgi, pb |-> pb, zip |-> zip,
              header |-> MakeHeader(kind, cgi, pb, zip)]
    /\ phase' = "sent"
    /\ UNCHANGED <<m_cookie, m_Session>>

(* Req2Buf: a login or bind request any time, others with a session key.   *)
(* The body is sent as it is or compressed, which may make it longer.      *)
Req2Buf(kind, cgi, pb, zip) ==
    /\ phase = "idle"
    /\ kind = "Base" => m_Session
    /\ io' = [kind |-> kind, cgi |-> cgi, pb |-> pb, zip |-> zip,
              header |-> MakeHeader(kind, cgi, pb, zip)]
    /\ phase' = "sent"
    /\ UNCHANGED <<m_cookie, m_Session>>

(* Buf2Resp of the answer, which may bring a new cookie.  A successful     *)
(* login brings the session key, and a server that grants it sends a       *)
(* cookie of the 15 bytes the protocol has.                                *)
Buf2Resp(mark, cookieLen) ==
    /\ phase = "sent"
    /\ LET got == UnPackHeader(io.kind, ServerPack(mark, cookieLen, io.cgi, io.pb, io.zip))
       IN  /\ io' = [kind |-> io.kind, cgi |-> io.cgi, pb |-> io.pb, zip |-> io.zip, got |-> got]
           /\ m_cookie' = IF io.kind # "Bind" /\ got.nCookieLen > 0 THEN got.nCookieLen
                                                                    ELSE m_cookie
    /\ \E succ \in IF io.kind = "ManualAuth" /\ cookieLen = 15 THEN BOOLEAN ELSE {FALSE} :
         m_Session' = (m_Session \/ succ)
    /\ phase' = "answered"

Done ==
    /\ phase \in {"sent", "answered"}
    /\ phase' = "idle"
    /\ io' = <<>>
    /\ UNCHANGED <<m_cookie, m_Session>>

HeaderNext ==
    \/ \E kind \in DOMAIN Layout, cgi \in CgiTypes, pb, zip \in Lengths :
         Req2Buf(kind, cgi, pb, zip)
    \/ \E mark \in {0, 1}, cookieLen \in {0, 15} : Buf2Resp(mark, cookieLen)
    \/ Done

HeaderSpec == HeaderInit /\ [][HeaderNext]_vars

-----------------------------------------------------------------------------
(* The first or second byte of every request tells the true length of its  *)
(* header, in six bits: the body starts where the server looks for it.  It *)
(* rests on a cookie of 15 bytes being there before the base header is     *)
(* used.                                                                   *)
HeaderLengthTrue ==
    phase = "sent" =>
        io.header[Layout[io.kind].mark + 1] \div 4 = Len(io.header)

(* Every answer is taken apart as the server put it together, with and     *)
(* without mark and cookie, whatever lengths it states.                    *)
AnswerUnderstood ==
    phase = "answered" =>
        io.got = [body |-> Body, compressed |-> io.pb # io.zip,
                  nCookieLen |-> io.got.nCookieLen,
                  cgi |-> io.cgi, pb |-> io.pb, zip |-> io.zip]

(* Digit i of n to base 0x80. *)
Digit(n, i) == (n \div 128^i) % 128

(* The integers that Dword2String gets right: no digit above the lowest is *)
(* zero below the highest, and the number is not 0x80 or its like.         *)
Regular(n) ==
    \A i \in 1..3 : n >= 128^i => (Digit(n, i) # 0 /\ n % 128^(i + 1) # 128^i)

(* Requests whose integers are regular say to the server exactly what was  *)
(* meant, and no others do: fun.h:16 calls the two functions the encoding  *)
(* and decoding of variable-length integers, and this is how far that is   *)
(* true.                                                                   *)
RequestUnderstoodIffRegular ==
    phase = "sent" =>
        LET got == UnPackHeader(io.kind, io.header \o Body)
        IN  (got.cgi = io.cgi /\ got.pb = io.pb /\ got.zip = io.zip)
            <=> (Regular(io.cgi) /\ Regular(io.pb) /\ Regular(io.zip))

-----------------------------------------------------------------------------
(* The encoding works as far as it goes: a request whose integers are      *)
(* regular is taken apart as it was put together, body included.           *)
RegularUnderstood ==
    phase = "sent" /\ Regular(io.cgi) /\ Regular(io.pb) /\ Regular(io.zip) =>
        LET got == UnPackHeader(io.kind, io.header \o Body)
        IN  got.cgi = io.cgi /\ got.pb = io.pb /\ got.zip = io.zip /\ got.body = Body

(* What makes these inductive: what was packed is known, a session key     *)
(* comes with a cookie, and a cookie is never given up.                    *)
HeaderInv ==
    /\ m_cookie \in {0, 15}
    /\ m_Session \in BOOLEAN
    /\ phase \in {"idle", "sent", "answered"}
    /\ m_Session => m_cookie = 15
    /\ phase = "sent" =>
          /\ io.kind \in DOMAIN Layout
          /\ io.cgi \in CgiTypes
          /\ io.pb \in Lengths
          /\ io.zip \in Lengths
    /\ HeaderLengthTrue
    /\ RequestUnderstoodIffRegular
    /\ RegularUnderstood
    /\ AnswerUnderstood
=============================================================================
