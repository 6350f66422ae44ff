SPECIFICATION Spec
CONSTANTS
    NDIGITS = 4
    BITS_PER_DIGIT = 4
    FIELD = 65287
    ORDER = 65011
    COEFF_B = 20
    BASE_X = 1
    BASE_Y = 14707
    WORD_BITS = 16
    BYTE_BITS = 8
    MAX_ERASE_CYCLE = 7
    MAX_PAGE_INDEX = 3
    MAX_KEY_INDEX = 7
    MAX_VALUE_LEN = 3
    MAX_UPDATES = 3
    MAX_TAIL = 20
    MAX_PREFIX = 3
    MAX_NESTING_DEPTH = 4
    HASH_LEN = 1
    BLOCK_SIZE = 8
    LENGTH_SIZE = 2
    H0 = 1
    Compress <- MCCompress
    Encrypt <- MCEncrypt
    Decrypt <- MCDecrypt
PROPERTIES
    ModularArithmetic
    ScalarMultiplication
    SignaturesVerify
    PartialWordsDetected
    CborCanonical
    MessagesDecoded
    FlashAddressed
    SymmetricCryptography
CHECK_DEADLOCK FALSE
