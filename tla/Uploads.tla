-------------------------------- MODULE Uploads --------------------------------
(***************************************************************************)
(* prepare_upload: why a file is refused before anything is stored.  A     *)
(* file is [name, hash, extension, type, size, signature, text, archive]:  *)
(* whether its content starts with the signature of its extension, how its *)
(* first bytes look as text, and what its ZIP directory lists, if it is a  *)
(* ZIP container.                                                          *)
(***************************************************************************)
EXTENDS Integers, SequencesExt

CONSTANTS AllowedExtensions,  \* configured and supported
          ContentTypes,       \* the content types of an extension
          MaxSize, MaxEntries, MaxExpanded, MaxRatio

ASSUME UploadAssumption ==
    /\ AllowedExtensions \subseteq DOMAIN ContentTypes
    /\ {MaxSize, MaxEntries, MaxExpanded, MaxRatio} \subseteq Nat

TextExtensions == {".txt", ".md", ".csv"}
Containers == {".docx", ".xlsx"}

\* At most one byte in a hundred may be NUL, one in five a control byte.
LooksBinary(text) == text.nul * 100 > text.size \/ text.controls * 5 > text.size

\* _validate_zip_container, entry by entry.
EntryError(entry, expanded) ==
    IF entry.encrypted THEN "ARCHIVE_ENCRYPTED"
    ELSE IF entry.unsafe THEN "ARCHIVE_UNSAFE_PATH"
    ELSE IF expanded > MaxExpanded THEN "ARCHIVE_EXPANSION_LIMIT_EXCEEDED"
    ELSE IF entry.size > 0 /\ entry.size > entry.compressed * MaxRatio
    THEN "ARCHIVE_COMPRESSION_RATIO_EXCEEDED"
    ELSE "none"

ContainerError(archive) ==
    IF ~archive.valid THEN "INVALID_FILE_SIGNATURE"
    ELSE IF Len(archive.entries) > MaxEntries THEN "ARCHIVE_ENTRY_LIMIT_EXCEEDED"
    ELSE FoldLeft(LAMBDA seen, entry :
                      IF seen.error # "none" THEN seen
                      ELSE [expanded |-> seen.expanded + entry.size,
                            error |-> EntryError(entry, seen.expanded + entry.size)],
                  [expanded |-> 0, error |-> "none"], archive.entries).error

Rejection(file) ==
    IF file.extension \notin AllowedExtensions THEN "UNSUPPORTED_FILE_TYPE"
    ELSE IF file.type \notin ContentTypes[file.extension] THEN "UNSUPPORTED_CONTENT_TYPE"
    ELSE IF file.size > MaxSize THEN "FILE_SIZE_LIMIT_EXCEEDED"
    ELSE IF ~file.signature THEN "INVALID_FILE_SIGNATURE"
    ELSE IF file.extension \in TextExtensions /\ file.size > 0 /\ LooksBinary(file.text)
    THEN "BINARY_TEXT_CONTENT"
    ELSE IF file.extension \in Containers THEN ContainerError(file.archive)
    ELSE "none"
================================================================================
