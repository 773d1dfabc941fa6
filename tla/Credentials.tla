---------------------------- MODULE Credentials -----------------------------
(***************************************************************************)
(* The credential package: the service with its maps of credentials and    *)
(* variables, and the field-wise encryption of one credential              *)
(* (encryption.go), which the service does not use. Each has a             *)
(* specification of its own.                                               *)
(***************************************************************************)
EXTENDS FiniteSets

(***************************************************************************)
(* The credential service: credentials and variables in maps behind one    *)
(* lock, their values encrypted with the service's key. A request is one   *)
(* step where it holds the lock throughout; RefreshOAuth2Token reads, then *)
(* writes, and two handlers fetch the credential again to show it.         *)
(***************************************************************************)

CONSTANTS
    CredIds, VarIds,        \* ids of credentials and variables
    CredValues,             \* secrets that clients store
    CredCalls,              \* requests in flight
    Blank, NoCred

VARIABLES
    credentials,            \* id -> object or NoCred
    variables,              \* id -> object or NoCred
    credCall,               \* request -> what it does next
    written,                \* history: id -> data a client stored last
    crossed                 \* history: ids written during a refresh

credVars == <<credentials, variables, credCall, written, crossed>>

At(r, pc) == credCall[r].pc = pc
Ready == [pc |-> "ready"]
Goto(r, q) == credCall' = [credCall EXCEPT ![r] = q]
Answer(r) == Goto(r, Ready)
VaultInit ==
    /\ credentials = [c \in CredIds |-> NoCred]
    /\ variables = [v \in VarIds |-> NoCred]
    /\ credCall = [r \in CredCalls |-> Ready]
    /\ written = [c \in CredIds |-> NoCred] /\ crossed = {}

-------------------------------------------------------------------------------
\* What a client stores: a token, which falls due for refresh, or a key.
Data == [shape : {"token"}, value : CredValues, due : BOOLEAN]
        \union [shape : {"key"}, value : CredValues]

encrypt(x) == [cipher |-> x]
decrypt(c) == c.cipher
encryptData(d) == encrypt(d)
decryptData(c) == decrypt(c)

NewCredential(c) == [data |-> c, used |-> FALSE]
SetData(cred, c) == [cred EXCEPT !.data = c]
MarkUsed(cred) == [cred EXCEPT !.used = TRUE]

\* Parsing as a token leaves a field that is not there empty, and an empty
\* expiry is long past.
OAuth2Token(d) ==
    IF d.shape = "token" THEN d
    ELSE [shape |-> "token", value |-> Blank, due |-> TRUE]
NeedsRefresh(t) == t.due

GetCredential(c) == credentials[c]
Exists(c) == GetCredential(c) # NoCred
UpdateCredential(c, d) ==
    credentials' = [credentials EXCEPT ![c] = SetData(@, encryptData(d))]

-------------------------------------------------------------------------------
\* The handlers of credentials.
Refreshing(c) == \E r \in CredCalls : At(r, "refresh") /\ credCall[r].id = c
Wrote(c, d) ==
    /\ written' = [written EXCEPT ![c] = d]
    /\ crossed' = IF Refreshing(c) THEN crossed \union {c} ELSE crossed

createCredential(r, c, d) ==
    /\ At(r, "ready") /\ ~Exists(c) /\ written[c] = NoCred
    /\ credentials' = [credentials EXCEPT ![c] = NewCredential(encryptData(d))]
    /\ Wrote(c, d)
    /\ UNCHANGED credCall

\* The handler shows the credential it has updated, and fails on one that is
\* gone by then.
updateCredential(r, c, d) ==
    /\ At(r, "ready") /\ Exists(c)
    /\ UpdateCredential(c, d)
    /\ Wrote(c, d)
    /\ Goto(r, [pc |-> "show", id |-> c])
toCredentialResponseFromModel(r) ==
    /\ At(r, "show")
    /\ IF Exists(credCall[r].id) THEN Answer(r) ELSE Goto(r, [pc |-> "panicked"])
    /\ UNCHANGED <<credentials, written, crossed>>
recovered(r) ==
    /\ At(r, "panicked") /\ Answer(r)
    /\ UNCHANGED <<credentials, written, crossed>>

deleteCredential(r, c) ==
    /\ At(r, "ready") /\ Exists(c)
    /\ credentials' = [credentials EXCEPT ![c] = NoCred]
    /\ UNCHANGED <<credCall, written, crossed>>

\* The data is read and marked as used; a token that is due is written back
\* with a new expiry, whatever was stored meanwhile.
RefreshedData_Blank(t) == [t EXCEPT !.due = FALSE, !.value = Blank]
RefreshedData(t) == [t EXCEPT !.due = FALSE]
GetCredentialData(r, c) ==
    LET t == OAuth2Token(decryptData(credentials[c].data)) IN
    /\ At(r, "ready") /\ Exists(c)
    /\ credentials' = [credentials EXCEPT ![c] = MarkUsed(@)]
    /\ IF NeedsRefresh(t) THEN Goto(r, [pc |-> "refresh", id |-> c, token |-> t])
       ELSE Goto(r, [pc |-> "show", id |-> c])
    /\ UNCHANGED <<written, crossed>>
RefreshOAuth2Token(r) ==
    LET q == credCall[r] IN
    /\ At(r, "refresh")
    /\ IF Exists(q.id)
       THEN UpdateCredential(q.id, RefreshedData(q.token)) /\ Goto(r, [pc |-> "show", id |-> q.id])
       ELSE UNCHANGED credentials /\ Answer(r)
    /\ UNCHANGED <<written, crossed>>

\* Time passes and a token falls due.
TokenAges(c) ==
    LET d == decryptData(credentials[c].data) IN
    /\ Exists(c) /\ d.shape = "token" /\ ~d.due
    /\ credentials' = [credentials EXCEPT ![c].data = encryptData([d EXCEPT !.due = TRUE])]
    /\ UNCHANGED <<credCall, written, crossed>>

handleCredentials(r) == \E c \in CredIds, d \in Data : createCredential(r, c, d)
handleCredentialByID(r) ==
    \E c \in CredIds : (\E d \in Data : updateCredential(r, c, d)) \/ deleteCredential(r, c)
refreshCredential(r) == \E c \in CredIds : GetCredentialData(r, c)

-------------------------------------------------------------------------------
\* Variables: the value of a secret is encrypted when it is stored.
NewVariable(x, type) == [value |-> x, sensitive |-> type = "secret"]
Sealed(v, x) == IF v.sensitive THEN encrypt(x) ELSE x
CreateVariable(v, x, type) ==
    /\ variables[v] = NoCred
    /\ variables' = [variables EXCEPT
          ![v] = [NewVariable(x, type) EXCEPT !.value = Sealed(NewVariable(x, type), x)]]
UpdateVariable(v, x) ==
    /\ variables[v] # NoCred
    /\ variables' = [variables EXCEPT ![v].value = Sealed(variables[v], x)]
DeleteVariable(v) ==
    /\ variables[v] # NoCred
    /\ variables' = [variables EXCEPT ![v] = NoCred]
handleVariables ==
    \E v \in VarIds, x \in CredValues, type \in {"string", "secret"} : CreateVariable(v, x, type)
handleVariableByID ==
    \E v \in VarIds : (\E x \in CredValues : UpdateVariable(v, x)) \/ DeleteVariable(v)

VaultNext ==
    \/ /\ \/ \E r \in CredCalls :
                \/ handleCredentials(r) \/ handleCredentialByID(r) \/ refreshCredential(r)
                \/ RefreshOAuth2Token(r) \/ toCredentialResponseFromModel(r) \/ recovered(r)
          \/ \E c \in CredIds : TokenAges(c)
       /\ UNCHANGED variables
    \/ /\ handleVariables \/ handleVariableByID
       /\ UNCHANGED <<credentials, credCall, written, crossed>>

VaultSpec == VaultInit /\ [][VaultNext]_credVars

-------------------------------------------------------------------------------
\* A stored token is the one a client stored last, however often it was
\* refreshed, unless it was written between the two halves of a refresh
\* (credential_service.go:146-179). A key is lost by any refresh, which
\* reads it as a token.
TokenSurvives ==
    \A c \in CredIds :
        /\ Exists(c) /\ c \notin crossed
        /\ written[c].shape = "token"
        => decryptData(credentials[c].data).value = written[c].value
\* Why: so does the token that a refresh has in hand.
IsToken(d, c) == d = [shape |-> "token", value |-> written[c].value, due |-> d.due]
Whole(c) == c \notin crossed /\ written[c].shape = "token"
Stored(c) ==
    LET cred == credentials[c] IN
    Exists(c) => /\ cred = [data |-> cred.data, used |-> cred.used]
                 /\ written[c] \in Data
                 /\ Whole(c) => IsToken(decryptData(cred.data), c)
InHand(r) ==
    LET q == credCall[r] IN
    At(r, "refresh") => /\ q.id \in CredIds
                        /\ Whole(q.id) => IsToken(q.token, q.id)
VaultInv ==
    /\ DOMAIN credentials = CredIds /\ DOMAIN written = CredIds /\ DOMAIN credCall = CredCalls
    /\ \A c \in CredIds : Stored(c)
    /\ \A r \in CredCalls : InHand(r)
-----------------------------------------------------------------------------
(***************************************************************************)
(* Field-wise encryption of a credential. EncryptCredential seals the      *)
(* sensitive fields in place, each with the prefix "encrypted:", and sets  *)
(* a flag; DecryptCredential opens every field with that prefix, in the    *)
(* order of the map, and stops at the first that does not open. The text   *)
(* of a field may itself begin with the prefix.                            *)
(***************************************************************************)

CONSTANTS
    Fields, SensitiveFields,    \* the fields of the credential
    Keys,                       \* keys the process can be started with
    NoKey

VARIABLES
    credData,           \* CredentialData: [data: field -> value, isEncrypted]
    opening,            \* fields DecryptCredential has yet to look at, or {}
    cryptKey,           \* the Encryptor's key
    original,           \* the credential as it was given
    failed              \* history: a decryption stopped half-way

cryptVars == <<credData, opening, cryptKey, original, failed>>

\* A value is a text, with or without the prefix, a sealed text, or no text at
\* all: a number, a list or an object.
Plain(odd) == [key |-> NoKey, prefix |-> odd, text |-> odd]
NoText == [key |-> NoKey, prefix |-> FALSE, text |-> NoKey]
IsText(v) == v.text # NoKey
HasPrefix(v) == v.prefix

\* AES-GCM: what one key sealed opens with that key only.
NewEncryptor(k) == k \in Keys
EncryptString(v) == [key |-> cryptKey, prefix |-> TRUE, text |-> v.text]
Opens(v) == v.key = cryptKey
DecryptString(v) == Plain(v.text)

CryptInit ==
    /\ NewEncryptor(cryptKey)
    /\ original \in [Fields -> {Plain(TRUE), Plain(FALSE), NoText}]
    /\ credData = [data |-> original, isEncrypted |-> FALSE]
    /\ opening = {} /\ failed = FALSE

\* Of the sensitive fields only those that hold a text are sealed.
EncryptCredential ==
    /\ opening = {} /\ ~credData.isEncrypted
    /\ credData' = [isEncrypted |-> TRUE,
                    data |-> [f \in Fields |->
                                 IF f \in SensitiveFields /\ IsText(credData.data[f])
                                 THEN EncryptString(credData.data[f])
                                 ELSE credData.data[f]]]
    /\ UNCHANGED <<opening, cryptKey, original, failed>>

\* An encrypted credential is left alone by EncryptCredential, a plain one by
\* DecryptCredential.
DecryptCredential ==
    /\ opening = {} /\ credData.isEncrypted
    /\ opening' = Fields
    /\ UNCHANGED <<credData, cryptKey, original, failed>>
AfterField_KeepsFlag(f, data) ==
    credData' = [credData EXCEPT !.data = data]
AfterField(f, data) ==
    credData' = [data |-> data,
                 isEncrypted |-> opening # {f}]
DecryptField ==
    \E f \in opening :
        LET v == credData.data[f] IN
        /\ IF ~HasPrefix(v)
           THEN AfterField(f, credData.data) /\ opening' = opening \ {f} /\ UNCHANGED failed
           ELSE IF Opens(v)
           THEN /\ AfterField(f, [credData.data EXCEPT ![f] = DecryptString(v)])
                /\ opening' = opening \ {f}
                /\ UNCHANGED failed
           ELSE opening' = {} /\ failed' = TRUE /\ UNCHANGED credData
        /\ UNCHANGED <<cryptKey, original>>

\* The process is started again with another key.
Rekey ==
    /\ opening = {}
    /\ cryptKey' \in Keys \ {cryptKey}
    /\ UNCHANGED <<credData, opening, original, failed>>

CryptNext == EncryptCredential \/ DecryptCredential \/ DecryptField \/ Rekey

CryptSpec == CryptInit /\ [][CryptNext]_cryptVars

-------------------------------------------------------------------------------
\* What is flagged as encrypted has no sensitive text in the clear, except
\* while it is being opened and after an opening that stopped half-way
\* (encryption.go:207-224), which leaves the flag with the fields it opened;
\* a sensitive field that is no text stays in the clear under the flag
\* (encryption.go:194).  What is not flagged is the credential as it was given.
FlagIsTrue ==
    /\ credData.isEncrypted /\ opening = {} /\ ~failed =>
          \A f \in SensitiveFields :
             credData.data[f].key # NoKey <=> IsText(original[f])
    /\ ~credData.isEncrypted => credData.data = original
\* Why: a field is as it was given or sealed, and an opening leaves behind it
\* only fields as they were given.
Kept(f) ==
    LET v == credData.data[f] IN
    \/ v = original[f]
    \/ /\ v.key \in Keys /\ v.prefix = TRUE
       /\ IsText(original[f]) /\ v.text = original[f].text
CryptInv ==
    /\ cryptKey \in Keys /\ original \in [Fields -> {Plain(TRUE), Plain(FALSE), NoText}]
    /\ credData = [data |-> credData.data, isEncrypted |-> credData.isEncrypted]
    /\ credData.isEncrypted \in BOOLEAN
    /\ credData.data = [f \in Fields |-> credData.data[f]]
    /\ opening \subseteq Fields
    /\ \A f \in Fields : Kept(f)
    /\ opening # {} => \A f \in Fields \ opening : credData.data[f] = original[f]
    /\ FlagIsTrue
=============================================================================
