------------------------------ MODULE HashSlot ------------------------------
(***************************************************************************)
(* The hash slot of a key, as ProtocolData::CalcKeyHashSlot and crc16      *)
(* compute it, and as the cluster computes it.  A key is a sequence of     *)
(* bytes.                                                                  *)
(***************************************************************************)
EXTENDS Integers, Sequences, SequencesExt, FiniteSetsExt, Bitwise

Nul    == 0
LBrace == 123
RBrace == 125

----------------------------------------------------------------------------
(* crc16 *)

crc16tab == <<
    \h0000, \h1021, \h2042, \h3063, \h4084, \h50a5, \h60c6, \h70e7, \h8108, \h9129, \ha14a, \hb16b, \hc18c, \hd1ad, \he1ce, \hf1ef,
    \h1231, \h0210, \h3273, \h2252, \h52b5, \h4294, \h72f7, \h62d6, \h9339, \h8318, \hb37b, \ha35a, \hd3bd, \hc39c, \hf3ff, \he3de,
    \h2462, \h3443, \h0420, \h1401, \h64e6, \h74c7, \h44a4, \h5485, \ha56a, \hb54b, \h8528, \h9509, \he5ee, \hf5cf, \hc5ac, \hd58d,
    \h3653, \h2672, \h1611, \h0630, \h76d7, \h66f6, \h5695, \h46b4, \hb75b, \ha77a, \h9719, \h8738, \hf7df, \he7fe, \hd79d, \hc7bc,
    \h48c4, \h58e5, \h6886, \h78a7, \h0840, \h1861, \h2802, \h3823, \hc9cc, \hd9ed, \he98e, \hf9af, \h8948, \h9969, \ha90a, \hb92b,
    \h5af5, \h4ad4, \h7ab7, \h6a96, \h1a71, \h0a50, \h3a33, \h2a12, \hdbfd, \hcbdc, \hfbbf, \heb9e, \h9b79, \h8b58, \hbb3b, \hab1a,
    \h6ca6, \h7c87, \h4ce4, \h5cc5, \h2c22, \h3c03, \h0c60, \h1c41, \hedae, \hfd8f, \hcdec, \hddcd, \had2a, \hbd0b, \h8d68, \h9d49,
    \h7e97, \h6eb6, \h5ed5, \h4ef4, \h3e13, \h2e32, \h1e51, \h0e70, \hff9f, \hefbe, \hdfdd, \hcffc, \hbf1b, \haf3a, \h9f59, \h8f78,
    \h9188, \h81a9, \hb1ca, \ha1eb, \hd10c, \hc12d, \hf14e, \he16f, \h1080, \h00a1, \h30c2, \h20e3, \h5004, \h4025, \h7046, \h6067,
    \h83b9, \h9398, \ha3fb, \hb3da, \hc33d, \hd31c, \he37f, \hf35e, \h02b1, \h1290, \h22f3, \h32d2, \h4235, \h5214, \h6277, \h7256,
    \hb5ea, \ha5cb, \h95a8, \h8589, \hf56e, \he54f, \hd52c, \hc50d, \h34e2, \h24c3, \h14a0, \h0481, \h7466, \h6447, \h5424, \h4405,
    \ha7db, \hb7fa, \h8799, \h97b8, \he75f, \hf77e, \hc71d, \hd73c, \h26d3, \h36f2, \h0691, \h16b0, \h6657, \h7676, \h4615, \h5634,
    \hd94c, \hc96d, \hf90e, \he92f, \h99c8, \h89e9, \hb98a, \ha9ab, \h5844, \h4865, \h7806, \h6827, \h18c0, \h08e1, \h3882, \h28a3,
    \hcb7d, \hdb5c, \heb3f, \hfb1e, \h8bf9, \h9bd8, \habbb, \hbb9a, \h4a75, \h5a54, \h6a37, \h7a16, \h0af1, \h1ad0, \h2ab3, \h3a92,
    \hfd2e, \hed0f, \hdd6c, \hcd4d, \hbdaa, \had8b, \h9de8, \h8dc9, \h7c26, \h6c07, \h5c64, \h4c45, \h3ca2, \h2c83, \h1ce0, \h0cc1,
    \hef1f, \hff3e, \hcf5d, \hdf7c, \haf9b, \hbfba, \h8fd9, \h9ff8, \h6e17, \h7e36, \h4e55, \h5e74, \h2e93, \h3eb2, \h0ed1, \h1ef0
    >>

\* One round of the loop of crc16: crc is a uint16_t, and & 0x00FF undoes the
\* sign extension of the byte.
CrcByte(crc, byte) ==
    ((crc * 256) % 65536) ^^ crc16tab[(((crc \div 256) ^^ byte) % 256) + 1]

crc16(bytes) == FoldLeft(CrcByte, 0, bytes)

----------------------------------------------------------------------------
(* CalcKeyHashSlot *)

\* key.c_str() and strlen: the key ends at its first NUL.
CString(key) ==
    SubSeq(key, 1, Min({i \in 1..Len(key) : key[i] = Nul} \cup {Len(key) + 1}) - 1)

\* Bug: an empty tag is hashed, and not the whole key.
CalcKeyHashSlot_EmptyTag(keyStr) ==
    LET key    == CString(keyStr)
        keylen == Len(key)
        s      == Min({i \in 1..keylen : key[i] = LBrace} \cup {keylen + 1})
        e      == Min({i \in s + 1..keylen : key[i] = RBrace} \cup {keylen + 1})
    IN IF s > keylen \/ e > keylen THEN crc16(key) % 16384
       ELSE crc16(SubSeq(key, s + 1, e - 1)) % 16384

CalcKeyHashSlot(keyStr) ==
    LET key    == CString(keyStr)
        keylen == Len(key)
        s      == Min({i \in 1..keylen : key[i] = LBrace} \cup {keylen + 1})
        e      == Min({i \in s + 1..keylen : key[i] = RBrace} \cup {keylen + 1})
    IN IF s > keylen \/ e > keylen \/ e = s + 1
       THEN crc16(key) % 16384
       ELSE crc16(SubSeq(key, s + 1, e - 1)) % 16384

----------------------------------------------------------------------------
(* The slot the cluster computes, from the specification the source cites. *)

\* The XMODEM CRC: bytes, most significant bit first, are divided by the
\* polynomial x^16 + x^12 + x^5 + 1.
DivideBit(crc, bit) ==
    LET top == crc \div 32768
    IN IF top # bit THEN ((crc * 2) % 65536) ^^ \h1021 ELSE (crc * 2) % 65536

Xmodem(bytes) ==
    LET Bits(byte) == [i \in 1..8 |-> (byte \div 2^(8 - i)) % 2]
    IN FoldLeft(LAMBDA crc, byte : FoldLeft(DivideBit, crc, Bits(byte)), 0, bytes)

\* What lies between the first "{" and the first "}" after it, unless that is
\* nothing: then the whole key.
HashTag(key) ==
    LET Tags == {<<i, j>> \in (1..Len(key)) \X (1..Len(key)) :
                   /\ key[i] = LBrace /\ \A h \in 1..i - 1 : key[h] # LBrace
                   /\ key[j] = RBrace /\ i + 1 < j
                   /\ \A h \in i + 1..j - 1 : key[h] # RBrace}
    IN IF Tags = {} THEN key
       ELSE LET tag == CHOOSE t \in Tags : TRUE IN SubSeq(key, tag[1] + 1, tag[2] - 1)

ServerSlot(key) == Xmodem(HashTag(key)) % 16384
=============================================================================
