---------------------------- MODULE CookieMount ----------------------------
(***************************************************************************)
(* The refresh of the cookies as the worker's container sees it: it bind-  *)
(* mounts the single file cookies.txt (docker-compose.yml) and so keeps    *)
(* the inode which the name had when the container started.                *)
(***************************************************************************)
EXTENDS CookieRefresh

VARIABLE mount      \* the inode the container has at that path

MountInit == Init /\ mount = cookies

\* The container starts again, after a deploy ("docker compose up -d", unless it
\* finds the worker up to date), a crash or a reboot.
Restart ==
    /\ mount' = cookies
    /\ UNCHANGED vars

\* An inode that is mounted is not given to another file.
MountNext ==
    \/ Next /\ fresh' # mount /\ UNCHANGED mount
    \/ Restart

MountSpec == MountInit /\ [][MountNext]_<<vars, mount>>

-----------------------------------------------------------------------------
(* Properties. *)

\* "A host cookie-refresh cron (which atomically swaps the file) changes the
\* key and forces a fresh copy": the worker sees every swap.
SwapSeen == [][ cookies' # cookies => mount' = cookies' ]_<<vars, mount>>

=============================================================================
