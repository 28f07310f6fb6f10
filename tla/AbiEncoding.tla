------------------------------ MODULE AbiEncoding ------------------------------
(****************************************************************************)
(* From the result of a run, a JSON value, to the bytes of a transaction    *)
(* (adapters/eth_tx_abi_encode.go, adapters/eth_format.go, utils/ethabi.go, *)
(* getTxData of adapters/eth_tx.go), and what a contract reads there.       *)
(* Bytes, words and numbers keep their bounds at a smaller scale: a hex     *)
(* digit has one bit, a byte two, a word WordLen bytes.                     *)
(****************************************************************************)
EXTENDS Integers, Sequences
LOCAL INSTANCE SequencesExt
LOCAL INSTANCE FiniteSets

CONSTANTS
    WordLen,        \* bytes of a word: 32
    AddressLen,     \* bytes of an address: 20
    SafeBits,       \* widest integer given as a JSON number: 48
    Int64Max,       \* greatest int64
    Functions,      \* the functions: sequences of [name, type]
    ABIArguments,   \* the JSON objects given as their arguments
    Results,        \* the JSON results of the other adapters
    DataPrefixes        \* data prefixes, in words

VARIABLES
    conversion,     \* what the processor makes of a float beyond int64
    encoding,       \* the task and its input
    encoded         \* what it sends

encodingVars == <<conversion, encoding, encoded>>

Digit == 2
Byte == Digit * Digit
Word == Byte ^ WordLen
Int64Min == -Int64Max - 1

Done(data) == [status |-> "sent", data |-> data]
Nothing == [status |-> "none", data |-> <<>>]
Error == [status |-> "error", data |-> <<>>]
Panic == [status |-> "panic", data |-> <<>>]

\* Failure of any part is failure of the whole; else the parts in order.
Concat(parts) ==
    IF \E i \in DOMAIN parts : parts[i] = Error THEN Error
    ELSE Done(FlattenSeq([i \in DOMAIN parts |-> parts[i].data]))

----------------------------------------------------------------------------
(* JSON values have the characters of their text. A string has also how it  *)
(* reads: as a text, as hex digits after 0x, or as a decimal number.        *)
(* Numbers are counted in quarters.                                         *)

Zeros(n) == [i \in 1 .. n |-> 0]
padRight(b, n) == b \o Zeros(n - Len(b))
padLeft(b, n) == Zeros(n - Len(b)) \o b
ToWord(n) == [i \in 1 .. WordLen |-> (n \div Byte ^ (WordLen - i)) % Byte]
Number(b, base) == FoldLeft(LAMBDA n, d : n * base + d, 0, b)

IsString(j, form) == j.kind = "string" /\ j.form = form
IsWhole(quarters) == quarters % 4 = 0
Truncated(quarters) == IF quarters < 0 THEN -((-quarters) \div 4) ELSE quarters \div 4

\* hex.DecodeString
HexBytes(j) ==
    [i \in 1 .. Len(j.digits) \div 2 |-> j.digits[2 * i - 1] * Digit + j.digits[2 * i]]
IsHexBytes(j) == IsString(j, "hex") /\ Len(j.digits) % 2 = 0

----------------------------------------------------------------------------
(* eth_tx_abi_encode.go                                                     *)

RECURSIVE isSupportedStaticABIType(_)
isSupportedStaticABIType(type) ==
    \/ type.T \in {"address", "bool"}
    \/ type.T = "array" /\ isSupportedStaticABIType(type.Elem)
    \/ type.T \in {"int", "uint"} /\ type.Size % 2 = 0 /\ type.Size \in 1 .. 2 * WordLen
    \/ type.T = "fixedBytes" /\ type.Size \in 1 .. WordLen

isSupportedABIType(type) ==
    CASE type.T \in {"string", "bytes"} -> TRUE
      [] type.T = "slice" -> isSupportedStaticABIType(type.Elem)
      [] OTHER -> isSupportedStaticABIType(type)

RECURSIVE staticSize(_)
staticSize(type) == IF type.T = "array" THEN type.Size * staticSize(type.Elem) ELSE WordLen

RECURSIVE HasStaticSize(_)
HasStaticSize(type) ==
    IF type.T = "array" THEN HasStaticSize(type.Elem)
    ELSE type.T \in {"address", "bool", "bytes", "fixedBytes", "int", "slice", "string", "uint"}

\* The whole number that a value reads as: {n}, or none.
bigIntFromJSON(j) ==
    CASE IsString(j, "hex") -> IF j.digits = <<>> THEN {} ELSE {Number(j.digits, Digit)}
      [] IsString(j, "decimal") \/ j.kind = "number" ->
            IF IsWhole(j.quarters) THEN {j.quarters \div 4} ELSE {}
      [] OTHER -> {}

bytesFromJSON(j) ==
    CASE IsHexBytes(j) -> Done(HexBytes(j))
      [] j.kind = "array" ->
            IF \A i \in DOMAIN j.items : /\ j.items[i].kind = "number"
                                         /\ IsWhole(j.items[i].quarters)
                                         /\ j.items[i].quarters \div 4 \in 0 .. Byte - 1
            THEN Done([i \in DOMAIN j.items |-> j.items[i].quarters \div 4])
            ELSE Error
      [] OTHER -> Error

encSigned(bits, n) ==
    IF n \in -(2 ^ (bits - 1)) .. 2 ^ (bits - 1) - 1
    THEN Done(ToWord(IF n < 0 THEN Word + n ELSE n)) ELSE Error

encUnsigned(bits, n) == IF n \in 0 .. 2 ^ bits - 1 THEN Done(ToWord(n)) ELSE Error

encInteger(type, j) ==
    LET numbers == bigIntFromJSON(j)
        n == CHOOSE n \in numbers : TRUE
    IN IF (j.kind = "number" /\ type.Size > SafeBits) \/ numbers = {} THEN Error
       ELSE IF type.T = "int" THEN encSigned(type.Size, n) ELSE encUnsigned(type.Size, n)

RECURSIVE encStatic(_, _)
encStatic(type, j) ==
    CASE type.T = "address" ->
            IF IsHexBytes(j) /\ Len(HexBytes(j)) <= AddressLen
            THEN Done(padLeft(HexBytes(j), WordLen)) ELSE Error
      [] type.T = "array" ->
            IF j.kind = "array" /\ Len(j.items) = type.Size
            THEN Concat([i \in DOMAIN j.items |-> encStatic(type.Elem, j.items[i])]) ELSE Error
      [] type.T = "bool" ->
            IF j.kind = "bool" THEN Done(ToWord(IF j.value THEN 1 ELSE 0)) ELSE Error
      [] type.T = "fixedBytes" ->
            LET bytes == bytesFromJSON(j)
            IN IF bytes # Error /\ Len(bytes.data) = type.Size
               THEN Done(padRight(bytes.data, WordLen)) ELSE Error
      [] OTHER -> encInteger(type, j)

roundToEVMWordBorder(length) == (WordLen - (length % WordLen)) % WordLen

\* padAndPrefixDynamic, and EVMEncodeBytes of utils/ethabi.go: the same bytes.
EVMEncodeBytes(bytes) ==
    ToWord(Len(bytes)) \o bytes \o Zeros(roundToEVMWordBorder(Len(bytes)))

IsDynamic(type) == type.T \in {"bytes", "string", "slice"}

encDynamic(type, j) ==
    CASE type.T = "bytes" ->
            LET bytes == bytesFromJSON(j)
            IN IF bytes = Error THEN Error ELSE Done(EVMEncodeBytes(bytes.data))
      [] type.T = "string" -> IF j.kind = "string" THEN Done(EVMEncodeBytes(j.chars)) ELSE Error
      [] type.T = "slice" ->
            IF j.kind # "array" THEN Error
            ELSE Concat(<<Done(ToWord(Len(j.items)))>>
                        \o [i \in DOMAIN j.items |-> encStatic(type.Elem, j.items[i])])

enc(type, j) == IF IsDynamic(type) THEN encDynamic(type, j) ELSE encStatic(type, j)

StaticPartSize(inputs) == FoldLeft(LAMBDA n, i : n + staticSize(i.type), 0, inputs)

\* Where the bytes of an argument go, after the static part and the dynamic arguments before.
dynamicOffset_FromTheSizes(inputs, parts, i) ==
    StaticPartSize(inputs)
        + FoldLeft(+, 0, [k \in 1 .. i - 1 |-> IF IsDynamic(inputs[k].type)
                                               THEN staticSize(inputs[k].type) ELSE 0])
dynamicOffset(inputs, parts, i) ==
    StaticPartSize(inputs)
        + FoldLeft(+, 0, [k \in 1 .. i - 1 |-> IF IsDynamic(inputs[k].type)
                                               THEN Len(parts[k].data) ELSE 0])

\* The sizes are summed, which panics, before any type is refused.
abiEncode(inputs, args) ==
    IF Len(inputs) # Cardinality(DOMAIN args) THEN Error
    ELSE IF \E i \in DOMAIN inputs : ~HasStaticSize(inputs[i].type) THEN Panic
    ELSE IF \E i \in DOMAIN inputs : \/ inputs[i].name \notin DOMAIN args
                                     \/ ~isSupportedABIType(inputs[i].type) THEN Error
    ELSE LET parts == [i \in DOMAIN inputs |-> enc(inputs[i].type, args[inputs[i].name])]
             static == [i \in DOMAIN inputs |->
                            IF IsDynamic(inputs[i].type)
                            THEN Done(ToWord(dynamicOffset(inputs, parts, i))) ELSE parts[i]]
         IN IF Concat(parts) = Error THEN Error
            ELSE Concat(static \o [i \in DOMAIN inputs |->
                            IF IsDynamic(inputs[i].type) THEN parts[i] ELSE Done(<<>>)])

----------------------------------------------------------------------------
(* utils/ethabi.go. A value that reads as no number, or as one that does    *)
(* not fit a word, is refused.                                              *)

\* "%.f" rounds a float to the nearest whole number, to the even one of two.
Rounded(quarters) ==
    LET below == quarters \div 4
    IN CASE quarters % 4 < 2 -> below
         [] quarters % 4 > 2 -> below + 1
         [] OTHER -> below + (below % 2)

parseNumericString(j) ==
    CASE j.form = "hex" -> bigIntFromJSON(j)
      [] j.form = "decimal" -> {Rounded(j.quarters)}
      [] OTHER -> {}

ToInt64(quarters) ==
    LET n == Truncated(quarters)
    IN CASE n \in Int64Min .. Int64Max -> n
         [] conversion = "saturates" /\ n > 0 -> Int64Max
         [] OTHER -> Int64Min

parseJSONAsEVMWord(j) ==
    CASE j.kind = "string" -> parseNumericString(j)
      [] j.kind = "number" -> {ToInt64(j.quarters)}
      [] j.kind = "null" -> {0}
      [] OTHER -> {}

EVMWordBigInt(n) == IF n \in 0 .. Word - 1 THEN Done(ToWord(n)) ELSE Error

\* The least number of a word has as many bits as the word and is refused.
EVMWordSignedBigInt_AnyWord(n) ==
    IF n \in -Word + 1 .. Word - 1
    THEN Done(ToWord(IF n < 0 THEN Word + n ELSE n)) ELSE Error
EVMWordSignedBigInt(n) ==
    IF n \in -(Word \div 2) + 1 .. Word \div 2 - 1
    THEN Done(ToWord(IF n < 0 THEN Word + n ELSE n)) ELSE Error

Encoded(numbers, EVMWordOf(_)) ==
    IF numbers = {} THEN Error ELSE EVMWordOf(CHOOSE n \in numbers : TRUE)

EVMTranscodeUint256(j) == Encoded(parseJSONAsEVMWord(j), EVMWordBigInt)
EVMTranscodeInt256(j) == Encoded(parseJSONAsEVMWord(j), EVMWordSignedBigInt)

EVMTranscodeBool(j) ==
    Done(ToWord(IF \/ j.kind = "number" /\ j.quarters # 0
                   \/ j.kind = "string" /\ j.chars # <<>>
                   \/ j.kind = "bool" /\ j.value
                   \/ j.kind = "array" /\ j.items # <<>>
                   \/ j.kind = "object" /\ DOMAIN j.members # {}
                THEN 1 ELSE 0))

EVMTranscodeBytes(j) ==
    CASE j.kind = "string" -> Done(j.chars)
      [] j.kind = "bool" -> Done(ToWord(IF j.value THEN 1 ELSE 0))
      [] j.kind = "number" -> EVMWordSignedBigInt(Truncated(j.quarters))
      [] OTHER -> Error

AsBytes(result) == IF result = Error THEN Error ELSE Done(EVMEncodeBytes(result.data))

\* A value that is no string has no digits, and preformatted is nothing.
EVMTranscodeJSONWithFormat(j, format) ==
    CASE format = "bytes" -> AsBytes(EVMTranscodeBytes(j))
      [] format = "preformatted" ->
            IF j.kind # "string" THEN Done(<<>>)
            ELSE IF IsHexBytes(j) THEN Done(HexBytes(j)) ELSE Error
      [] format = "uint256" -> AsBytes(EVMTranscodeUint256(j))
      [] format = "int256" -> AsBytes(EVMTranscodeInt256(j))
      [] format = "bool" -> AsBytes(EVMTranscodeBool(j))

----------------------------------------------------------------------------
(* The tasks.                                                               *)

\* common.HexToHash: the last bytes of the digits, nothing of what has none.
HexToHash(j) ==
    IF ~IsString(j, "hex") THEN Zeros(WordLen)
    ELSE LET even == [j EXCEPT !.digits = Zeros(Len(@) % 2) \o @]
             all == padLeft(HexBytes(even), WordLen)
         IN SubSeq(all, Len(all) - WordLen + 1, Len(all))

payloadOffset(dataPrefix) == ToWord(IF dataPrefix = 0 THEN WordLen ELSE 2 * WordLen)

getTxData(format, dataPrefix, j) ==
    IF format = "" THEN Done(HexToHash(j))
    ELSE Concat(<<Done(payloadOffset(dataPrefix)), EVMTranscodeJSONWithFormat(j, format)>>)

\* What follows the selector; a word of the prefix is its number.
PerformEthTx ==
    /\ encoding.task = "ethtx"
    /\ encoded' = Concat([i \in 1 .. encoding.dataPrefix |-> Done(ToWord(i))]
                         \o <<getTxData(encoding.format, encoding.dataPrefix, encoding.result)>>)

PerformEthTxABIEncode ==
    /\ encoding.task = "ethtxabiencode"
    /\ encoded' = IF encoding.result.kind # "object" THEN Error
                  ELSE abiEncode(encoding.function, encoding.result.members)

PerformEthBytes32 ==
    /\ encoding.task = "ethbytes32"
    /\ encoded' = Done(SubSeq(padRight(encoding.result.chars, WordLen), 1, WordLen))

PerformEthInt256 ==
    /\ encoding.task = "ethint256"
    /\ encoded' = EVMTranscodeInt256(encoding.result)

PerformEthUint256 ==
    /\ encoding.task = "ethuint256"
    /\ encoded' = EVMTranscodeUint256(encoding.result)

Formats == {"", "bytes", "preformatted", "uint256", "int256", "bool"}

Encodings ==
    [task : {"ethtxabiencode"}, function : Functions, result : ABIArguments \cup Results]
    \cup [task : {"ethtx"}, format : Formats, dataPrefix : DataPrefixes, result : Results]
    \cup [task : {"ethbytes32", "ethint256", "ethuint256"}, result : Results]

EncodingInit ==
    /\ conversion \in {"wraps", "saturates"}
    /\ encoding \in Encodings
    /\ encoded = Nothing

EncodingNext ==
    /\ encoded = Nothing
    /\ \/ PerformEthTx \/ PerformEthTxABIEncode
       \/ PerformEthBytes32 \/ PerformEthInt256 \/ PerformEthUint256
    /\ UNCHANGED <<conversion, encoding>>

----------------------------------------------------------------------------
(* What the contract reads.                                                 *)

\* Beyond the data there are zeros.
Slice(data, at, length) ==
    [i \in 1 .. length |-> IF at + i \in DOMAIN data THEN data[at + i] ELSE 0]
WordAt(data, at) == Number(Slice(data, at, WordLen), Byte)
Signed(n) == IF n >= Word \div 2 THEN n - Word ELSE n
BytesAt(data, at) == Slice(data, at + WordLen, WordAt(data, at))

RECURSIVE StaticAt(_, _, _)
StaticAt(type, data, at) ==
    CASE type.T = "array" ->
            [i \in 1 .. type.Size |-> StaticAt(type.Elem, data, at + (i - 1) * staticSize(type.Elem))]
      [] type.T = "bool" -> WordAt(data, at) = 1
      [] type.T = "int" -> Signed(WordAt(data, at))
      [] type.T = "fixedBytes" -> Slice(data, at, type.Size)
      [] OTHER -> WordAt(data, at)

ArgumentAt(type, data, at) ==
    LET offset == WordAt(data, at)
    IN CASE type.T \in {"bytes", "string"} -> BytesAt(data, offset)
         [] type.T = "slice" ->
                [i \in 1 .. WordAt(data, offset) |->
                    StaticAt(type.Elem, data, offset + WordLen + (i - 1) * staticSize(type.Elem))]
         [] OTHER -> StaticAt(type, data, at)

\* What a JSON value says as a value of a type: {value}, or none.
RECURSIVE Meaning(_, _)
Meaning(type, j) ==
    CASE type.T \in {"array", "slice"} ->
            IF \/ j.kind # "array"
               \/ type.T = "array" /\ Len(j.items) # type.Size
               \/ \E i \in DOMAIN j.items : Meaning(type.Elem, j.items[i]) = {} THEN {}
            ELSE {[i \in DOMAIN j.items |-> CHOOSE v \in Meaning(type.Elem, j.items[i]) : TRUE]}
      [] type.T = "bool" -> IF j.kind = "bool" THEN {j.value} ELSE {}
      [] type.T = "int" -> bigIntFromJSON(j) \cap (-(2 ^ (type.Size - 1)) .. 2 ^ (type.Size - 1) - 1)
      [] type.T = "uint" -> bigIntFromJSON(j) \cap (0 .. 2 ^ type.Size - 1)
      [] type.T = "address" ->
            IF IsHexBytes(j) THEN {Number(j.digits, Digit)} \cap (0 .. Byte ^ AddressLen - 1) ELSE {}
      [] type.T = "string" -> IF j.kind = "string" THEN {j.chars} ELSE {}
      [] OTHER -> LET bytes == bytesFromJSON(j)
                  IN IF bytes = Error \/ (type.T = "fixedBytes" /\ Len(bytes.data) # type.Size)
                     THEN {} ELSE {bytes.data}

\* Each argument that the EthTxABIEncode task sends is read by the contract, at its place
\* among static and dynamic arguments, as the value that the JSON result gives for it.
ArgumentsReadBack ==
    encoding.task = "ethtxabiencode" /\ encoded.status = "sent" =>
        \A i \in DOMAIN encoding.function :
            LET input == encoding.function[i]
                at == StaticPartSize(SubSeq(encoding.function, 1, i - 1))
            IN Meaning(input.type, encoding.result.members[input.name])
                   = {ArgumentAt(input.type, encoded.data, at)}

\* The number that a result has, in quarters.
Quarters(j) ==
    CASE j.kind = "number" \/ IsString(j, "decimal") -> {j.quarters}
      [] IsString(j, "hex") -> {4 * n : n \in bigIntFromJSON(j)}
      [] OTHER -> {}

IsNextTo(n, quarters) == quarters - 4 < 4 * n /\ 4 * n < quarters + 4

WithinInt64(j) == j.kind = "number" => Truncated(j.quarters) \in Int64Min .. Int64Max

\* The number that a task sends, after the prefix of one word or none that the offset
\* allows for, is read as the number of the result or as one next to it: no number comes
\* out as another one because it wraps.
NumbersReadBack ==
    encoded.status = "sent" /\ WithinInt64(encoding.result) =>
        \A quarters \in Quarters(encoding.result) :
            /\ encoding.task = "ethint256" => IsNextTo(Signed(WordAt(encoded.data, 0)), quarters)
            /\ encoding.task = "ethuint256" => IsNextTo(WordAt(encoded.data, 0), quarters)
            /\ encoding.task = "ethtx" /\ encoding.format \in {"int256", "uint256"} =>
                LET head == WordLen * encoding.dataPrefix
                    word == Number(BytesAt(encoded.data, WordAt(encoded.data, head)), Byte)
                IN IsNextTo(IF encoding.format = "int256" THEN Signed(word) ELSE word, quarters)

\* The comments of eth_format.go: the fraction of a string is cut.
FractionIsCut ==
    encoded.status = "sent" /\ encoding.task = "ethint256" =>
        \A quarters \in Quarters(encoding.result) :
            WithinInt64(encoding.result) =>
                Signed(WordAt(encoded.data, 0)) = Truncated(quarters)

\* A number that a result gives is the one sent.
NumbersAreKept ==
    encoded.status = "sent" /\ encoding.task = "ethuint256" =>
        \A quarters \in Quarters(encoding.result) : IsNextTo(WordAt(encoded.data, 0), quarters)

\* A function with an argument of a type that is not supported is refused.
UnsupportedIsRefused == encoded.status # "panic"
=============================================================================
