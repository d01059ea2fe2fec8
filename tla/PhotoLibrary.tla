-------------------------------- MODULE PhotoLibrary --------------------------------
(***************************************************************************)
(* The Google Photos client (clients/google_photos.py): the albums it knows,   *)
(* one object each, and the files that media items are downloaded to.  A path   *)
(* is made of a directory, the day an item was taken and a file name.  The      *)
(* application may die while it writes; the files stay.                         *)
(***************************************************************************)
EXTENDS Integers, FiniteSets, Sequences, SequencesExt, PythonNone

CONSTANTS Albums,       \* IDs of albums
          Photos,       \* media items: day and file name, and an ID
          Directories,  \* target directories, with "cwd"
          FileNames,    \* file names the application chooses
          MaxDownloads  \* bound

\* Downloads in progress.
DownloadStates ==
    [item : Photos,
     path : Directories \X {p.day : p \in Photos}
                \X (FileNames \cup {p.name : p \in Photos}),
     read : BOOLEAN, step : {"request", "write", "done"}]

ASSUME PhotosAssumption ==
    /\ "cwd" \in Directories
    /\ MaxDownloads \in Nat
    /\ IsFiniteSet(Albums)
    /\ None \notin DownloadStates \cup FileNames

VARIABLES online,      \* the albums there are at Google
          albums,      \* _albums, or None: the attribute is not set
          counted,     \* _album_count is set
          files,       \* what is in the files that exist
          localPath,   \* _local_path of every item, or None: "undefined"
          download,    \* the download in progress, or None
          content,     \* what binary_content returned last, or None
          downloads,   \* history: downloads so far
          broken       \* history: a file was left half written

albumVars == <<online, albums, counted>>
fileVars == <<files, localPath, download, content, downloads, broken>>
photoVars == <<albumVars, fileVars>>

PhotosInit ==
    /\ online \in SUBSET Albums
    /\ albums = None /\ counted = FALSE
    /\ files = <<>> /\ localPath = [i \in Photos |-> None]
    /\ download = None /\ content = None /\ downloads = 0 /\ broken = FALSE

-----------------------------------------------------------------------------
(* Albums *)

Known == IF albums = None THEN {} ELSE ToSet(albums)

\* Mutant: the listing is added to what is known.
MissingAlbumsMutant == online

\* What a listing adds: the albums whose ID is not known yet.
MissingAlbums == online \ Known

\* Only an album that is not known is asked for.
AlbumById ==
    /\ \E id \in online \ Known :
        albums' = IF albums = None THEN <<id>> ELSE Append(albums, id)
    /\ UNCHANGED <<online, counted, fileVars>>

\* albums: the whole listing, then nothing but the albums asked for by ID.
ListAlbums ==
    /\ ~counted
    /\ \E new \in SetToSeqs(MissingAlbums) :
        albums' = IF albums = None THEN new ELSE albums \o new
    /\ counted' = TRUE
    /\ UNCHANGED <<online, fileVars>>

AlbumsChange ==
    /\ \E id \in Albums :
        online' = IF id \in online THEN online \ {id} ELSE online \cup {id}
    /\ UNCHANGED <<albums, counted, fileVars>>

-----------------------------------------------------------------------------
(* Downloads *)

\* Mutant: items of all days are kept together.
PathMutant(item, directory, name) ==
    <<directory, 0, IF name = None THEN item.name ELSE name>>

Path(item, directory, name) ==
    <<directory, item.day, IF name = None THEN item.name ELSE name>>

IsDownloaded(item) == localPath[item] # None /\ localPath[item] \in DOMAIN files

\* The path is set before anything is known of the file.
StartDownload(item, directory, name, force, read) ==
    LET path == Path(item, directory, name)
    IN /\ localPath' = [localPath EXCEPT ![item] = path]
       /\ downloads < MaxDownloads
       /\ downloads' = downloads + 1
       /\ download' = [item |-> item, path |-> path, read |-> read,
                       step |-> IF path \in DOMAIN files /\ ~force
                                THEN "done" ELSE "request"]

Download ==
    /\ download = None
    /\ \E item \in Photos, directory \in Directories, name \in FileNames \cup {None},
          force \in BOOLEAN :
        StartDownload(item, directory, name, force, FALSE)
    /\ UNCHANGED <<albumVars, files, content, broken>>

\* binary_content of an item that was not downloaded, or whose file is gone.
ReadMissing ==
    /\ download = None
    /\ \E item \in Photos :
        /\ ~IsDownloaded(item)
        /\ StartDownload(item, "cwd", None, FALSE, TRUE)
    /\ UNCHANGED <<albumVars, files, content, broken>>

RequestBytesFails ==
    /\ download # None /\ download.step = "request"
    /\ download' = None
    /\ UNCHANGED <<albumVars, files, localPath, content, downloads, broken>>

Written(whole) == [of |-> download.item, whole |-> whole]
WithFile(path, new) == [p \in DOMAIN files \cup {path} |-> IF p = path THEN new ELSE files[p]]

\* The bytes arrive, and the file is emptied to take them.
OpenFile ==
    /\ download # None /\ download.step = "request"
    /\ files' = WithFile(download.path, Written(FALSE))
    /\ download' = [download EXCEPT !.step = "write"]
    /\ UNCHANGED <<albumVars, localPath, content, downloads, broken>>

WriteBytes ==
    /\ download # None /\ download.step = "write"
    /\ files' = WithFile(download.path, Written(TRUE))
    /\ download' = [download EXCEPT !.step = "done"]
    /\ UNCHANGED <<albumVars, localPath, content, downloads, broken>>

WriteBreaksOff ==
    /\ download # None /\ download.step = "write"
    /\ broken' = TRUE
    /\ download' = None
    /\ UNCHANGED <<albumVars, files, localPath, content, downloads>>

\* Reads the file at the path that the item has by then.
ReadBytes(item) ==
    content' = [item |-> item, path |-> localPath[item], got |-> files[localPath[item]]]

EndDownload ==
    /\ download # None /\ download.step = "done"
    /\ download' = None
    /\ IF download.read /\ IsDownloaded(download.item)
       THEN ReadBytes(download.item) ELSE UNCHANGED content
    /\ UNCHANGED <<albumVars, files, localPath, downloads, broken>>

ReadDownloaded ==
    /\ download = None
    /\ \E item \in Photos : IsDownloaded(item) /\ ReadBytes(item)
    /\ UNCHANGED <<albumVars, files, localPath, download, downloads, broken>>

DeleteFile ==
    /\ \E path \in DOMAIN files : files' = [p \in DOMAIN files \ {path} |-> files[p]]
    /\ download # None => download.step # "write"
    /\ UNCHANGED <<albumVars, localPath, download, content, downloads, broken>>

\* The process dies; the next one knows no album and no path.
Restart ==
    /\ broken' = (broken \/ (download # None /\ download.step = "write"))
    /\ albums' = None /\ counted' = FALSE
    /\ localPath' = [i \in Photos |-> None]
    /\ download' = None /\ content' = None
    /\ UNCHANGED <<online, files, downloads>>

PhotosNext ==
    \/ AlbumById \/ ListAlbums \/ AlbumsChange
    \/ Download \/ ReadMissing \/ RequestBytesFails \/ OpenFile \/ WriteBytes
    \/ WriteBreaksOff \/ EndDownload \/ ReadDownloaded \/ DeleteFile \/ Restart

PhotosSpec == PhotosInit /\ [][PhotosNext]_photoVars

-----------------------------------------------------------------------------
(* Properties *)

\* However lookups by ID and the listing interleave with changes at Google, no album is
\* known as two objects (google_photos.py:405).
OneAlbum == albums # None => IsInjective(albums)

\* What is read for an item is its own content and whole; unless the file it took for
\* its own is that of an item of the same day and name, or has a name that was chosen, or
\* was left half written: that a file is there is all that is asked of it
\* (google_photos.py:233).
OwnContent ==
    content # None =>
        LET own == content.item
            got == content.got
            chosen == content.path[3] \in FileNames
        IN /\ got.of # own => chosen \/ (got.of.day = own.day /\ got.of.name = own.name)
           /\ ~got.whole => broken

\* Both: what the client gives for an ID, an album or an item, is that and no other.
PhotosRight == OneAlbum /\ OwnContent
=====================================================================================
