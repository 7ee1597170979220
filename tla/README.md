# TLA+ specification of the GoTaxi backend

GoTaxi (`src/app`, FastAPI + SQLAlchemy + Celery + Redis) sells seats on the trips that
drivers publish and the transport of parcels on those trips. The client pays the platform a
fee through FedaPay before the driver sees the request; the driver is paid when the trip
ends. This directory holds the TLA+ model of that system, the TLC runs that check it on
small instances and the TLAPS proofs about it.

    tlc -workers 2 -config MCReservations.cfg MCReservations
    tlapm ReservationsProofs.tla

`PROJECT.json` lists the runs, the lines of the source that each definition stands for, the
hazards, and for each property a mutant of the model that it detects.

## 1. Inventory

| Component | State | Operations | What is hard |
|---|---|---|---|
| Trips (`routers/voyages.py`) | `voyages`: statut, seats in total and left | create, start, end, cancel, patch; back office cancel | one active trip per driver is a read then an insert; end reads, bulk-updates and pays in one transaction |
| Reservations (`routers/reservations.py`) | `reservations`: statut, seats, deadline, FedaPay identifier | create, initiate payment, poll, accept, reject, cancel; back office cancel | six paths give seats back; all of them are read-modify-write on the trip's row |
| Platform fee (`services/frais_plateforme.py`) | `fedapay_transaction_id`, `paiement_expire_a`, rows `FRAIS_*` of `transactions` | initiate, verify, expire (lazy and swept) | a payment that races its deadline, a poll that comes late, a second link for one request |
| FedaPay (`integrations/fedapay.py`) | external: collections and payouts | create, link, status; payout and send | two calls that can fail separately; refunds |
| Periodic tasks (`tasks/`) | none of their own | sweep of unpaid requests and check of pending top-ups every 60 s, retrying tasks | run beside the requests on the same rows, are delivered again after a lost worker |
| Parcels (`routers/colis.py`) | `colis`: statut, deadline, FedaPay identifier | create, initiate, poll, confirm, in transit, deliver, cancel; back office validate and reject | the same fee protocol without seats; the back office ignores the statut |
| Wallet (`routers/wallet.py`) | `wallets.solde`, rows of `transactions` | top-up, confirm, withdraw, transfer | balance read, operator called, balance written; the check task does the same work |
| Payout (`services/payout.py`) | `wallets.solde`, `revenus_total`, payout account | pay the driver, or credit the wallet | money leaves before the transaction commits |
| Back office (`routers/admin.py`) | all tables, `audit_logs` | cancel, validate, reject, suspend, treat requests of drivers, hide reviews | few guards on the current statut |
| One-time codes (`utils/otp.py`, `services/auth_service.py`) | Redis keys `otp:`, `otp_lock:`, `blacklist:` | send, verify, reset | attempts counted by read then write, one Redis command at a time |
| Drivers (`routers/chauffeurs.py`) | `en_ligne`, `kyc_valide`, position | online, offline, position, documents | presence and KYC are read when a trip is published only |
| Reviews (`routers/avis.py`) | `avis`, `note_moyenne`, `nombre_avis` | create, report; hide and restore | one review per trip is a read then an insert behind a unique index; the average is stored, computed from what one transaction sees |
| Accounts (`services/auth_service.py`, `repositories/user_repository.py`, `scripts/seed_admins.py`) | `users`, `chauffeurs`, `wallets` | register a client or a driver, seed, convert, suspend, activate, delete | five ways to create an account or a profile, each a test then an insert |
| Requests to become a driver (`routers/public.py`, `routers/admin.py`) | `demandes_inscription_chauffeur` | deposit, treat, reject | two administrators at once |
| Reference data (`routers/tarifs.py`, `routers/admin.py`) | `villes`, `gares`, `tarifs_trajets` | create, rename, delete; create, change and delete a fare | two prices of one fare changed by two requests; fares found by the names of towns |
| Parcel pricing (`services/colis_pricing.py`) | none | price | missing and zero values share a branch |
| Live tracking (`websockets/`), rate limiter (`middlewares/`) | in-process dictionaries | connect, broadcast, disconnect; count | a connection that dies while it is being written to; the limiter is never installed |

Interactions: everything goes through PostgreSQL rows read and written by one session per
request (`core/database.py`: commit at the end, rollback on any exception) at the default
isolation level, READ COMMITTED, without row locks or version columns. The requests await
FedaPay and the operators in the middle of a transaction. Celery runs the periodic tasks in
other processes on the same rows.

What makes each component correct is what the modules state: seats are not sold twice and do
not leak; a driver only sees what was paid for; what is closed stays closed; the driver is
paid for what was travelled, once; money is neither created nor lost between FedaPay, the
operators and the wallets.

## 2. Modules

| Module | What it is |
|---|---|
| `Reservations` | trips, reservations, their fee, the sweep, FedaPay's collections |
| `FraisPayes` | the abstract promise about the fee, which reservations and parcels both refine |
| `Colis` | parcels, their fee, the hand-over, the back office |
| `Portefeuille` | wallets: top-ups, withdrawals, transfers, the task that settles top-ups |
| `Reversement` | the end of a trip and the payout of its driver, under the lock on the trip's row |
| `Chauffeurs` | a driver: account, KYC, presence, vehicle and its documents, publication of trips |
| `ReservationsConcurrentes` | extends `Reservations`: the same requests taken apart at their reads, their calls and their commit |
| `Comptes` | accounts and profiles of drivers: registration, requests to become a driver, conversion, suspension |
| `CodesOtp` | the one-time codes of a telephone, Redis command by Redis command |
| `AvisNotes` | reviews, their moderation, and the mean stored with a driver |
| `Tarifs` | towns, stations, fares, and the cap a fare puts on the price of a trip |
| `MC...` | the instances for TLC, one per component |
| `...Proofs` | theorems and proofs; `ReservationsProofs` also holds those about `ReservationsConcurrentes`, and `PortefeuilleProofs` those about `AvisNotes` |

### 2.1 How the code is read

*A request is one action* in `Reservations` and `Colis`: all it reads and writes between the
opening of its session and the commit of `core/database.py:get_db`. Any exception rolls the
session back, so a request that a guard refuses is a stuttering step and has no action. These
two modules show what each handler guarantees when requests on the same rows do not overlap.
`ReservationsConcurrentes` says when that reading is right: a request whose readings still hold
when it commits takes a step of `Reservations` (`Serialisable`).

*A request is several actions* in the other modules. In `Portefeuille` it reads the rows, awaits the operator, and
commits values computed from what it read. Up to `Cardinality(Session)` requests and one run
of `check_pending_payments` are in progress at once, and their steps interleave in every
order. A write is taken at the commit. PostgreSQL takes the lock on the row at the flush,
which is earlier, but another writer of that row then waits for the commit and, having
computed its value in Python beforehand, writes it all the same: no outcome is lost by
writing at the commit; `Chauffeurs`, `Comptes`, `AvisNotes`, `Tarifs` and
`ReservationsConcurrentes` are read in the same way. `Reversement` is the case where that lock matters, because it is taken
before the reads that follow it and held over the call to the operator: there, a request that
writes a locked row waits.

*The caller.* Authentication and ownership (401, 403, 404) are left out: each action is
performed by somebody the code lets through.

*Time.* `paiement_expire_a` is kept as the time left before it, `reste`: it goes from `Delai`
down to 0 (now equals the deadline) and to -1 (now is later), one `Tick` at a time. Both
comparisons of the code are there: the sweep selects `paiement_expire_a <= now`
(`reste <= 0`), a poll expires what is `< now` (`reste < 0`).

*FedaPay* is the environment: a collection is created `pending`, is approved or declined by
the payer whenever it pleases, even after a newer link has replaced it, and may be refunded
later. `transferred` is read like `approved` and `cancelled` like `declined` by every caller,
so each pair is one value. `sans_lien` is a collection whose checkout link was never obtained
because the second of the two calls failed.

### 2.2 Reservations

| State | Code |
|---|---|
| `voyages` | `statut`, `nombre_places_total`, `nombre_places_restantes` of `models/voyage.py` |
| `reservations` | `statut`, `voyage_id`, `nombre_places`, `paiement_expire_a`, `fedapay_transaction_id` |
| `tx` | external: each collection's statut at FedaPay and the reservation it was created for |
| `ecritures` | how many `FRAIS_RESERVATION` rows each collection has (0, 1, several) |
| `reverses` | the reservations whose price `payer_chauffeur` was called with, per trip |

| Action | Handler |
|---|---|
| `CreateVoyage`, `StartVoyage`, `EndVoyage`, `CancelVoyage` | `routers/voyages.py`: `create_voyage`, `start_voyage`, `end_voyage`, `cancel_voyage` |
| `AdminCancelVoyage`, `AdminCancelReservation` | `routers/admin.py`: the back office's own cancellations |
| `CreateReservation` | `create_reservation`, with the lazy expiry that it starts with |
| `InitierPaiement`, `InitierPaiementSansLien` | `initier_paiement_reservation`: both calls succeed, or the second fails |
| `PollExpire`, `PollConfirme`, `PollEchec` | the three outcomes of `verifier_et_confirmer_reservation` that write |
| `AcceptReservation`, `RejectReservation`, `CancelReservation` | `routers/reservations.py` |
| `AnnulerPaiementsExpires` | `annuler_paiements_expires_async`, all expired rows in one commit |
| `Tick`, `FedaPay` | the clock, the payer |

Three forms of giving seats back exist in the code and are kept apart: `Restitue` (reopens a
trip that was COMPLET), `RestitueSiOuvert` (only if the trip is not TERMINE or ANNULE: cancel,
sweep, poll) and `RestitueSiReservable` (only before the departure: reject). The back office
gives none back.

### 2.3 FraisPayes

Three sets of requests: those whose fee was collected, those the driver may act on, those he
confirmed. One becomes visible only when it was paid, confirmed only when visible.
`Reservations` refines it with `payees` = reservations with a collection that was approved at
some time, `visibles` = EN_ATTENTE or CONFIRMEE, `confirmees` = CONFIRMEE; `Colis` with the
statuts of a parcel, for those parcels that the back office leaves alone.

### 2.4 Colis

`trajets` is the statut of each trip (`PUBLIE` stands for PUBLIE or COMPLET, which parcels do
not tell apart), `colis` the rows of parcels, `tx` FedaPay's collections, `ecritures` the
collections booked as `FRAIS_COLIS`, `audit` the parcels with a `VALIDATE_COLIS` row. The
actions are the handlers of `routers/colis.py`, the parcel half of
`services/frais_plateforme.py`, and `validate_colis` and `reject_colis` of the back office, which
write the statut of a parcel whatever it is; `Forces` is the set of parcels they are used on.
No request on a trip touches its parcels, so a parcel of a cancelled trip keeps its statut:
the trip is four actions that only move `trajets`.

### 2.5 Portefeuille

| State | Code |
|---|---|
| `solde` | `wallets.solde` |
| `recharges` | statut of each `RECHARGE` row of `transactions` |
| `operateur` | external: what the operator (MTN, Orange, Moov, Celtis, FedaPay) will answer about it |
| `autres` | per wallet, the sum of its other rows: transfers in, less transfers out and withdrawals not in ECHEC |
| `envoye` | external: money the operators paid out |
| `session` | the requests in progress, with the balances they have read |
| `tache` | the run of `check_pending_payments`: rows selected, rows left to poll, verdicts, balances it will write |
| `chevauches` | history: wallets on which two units of work were ever in progress at once |
| `operations`, `coupures` | counters for the bounds |

Each request is a `...Lire` action (guards and reads) and one action per outcome:
`ConfirmerReussie/Echouee/EnAttente`, `RetraitAccepte/Manuel/Refuse/Perdu`,
`TransfertLireDest` then `TransfertValider`. `Abandon` is any request that ends in an
exception. `...Perdu(e)` is the case that no `except` clause of the code names: httpx times
out after the operator has acted, the session is rolled back and the operator is not. The
task selects (`TacheLancer`), polls row by row (`TacheInterroger`, `TacheIgnorer`) and
commits once (`TacheValider`), or is lost with its batch (`TachePerdue`). One run of the task
is in progress at a time: a run that lasts longer than the 60 s between two beats could meet
the next one, which the model leaves out.

### 2.6 Reversement

`Reservations` says for which reservations the driver is paid when nothing overlaps;
`Reversement` is what `end_voyage` does when it does.

| State | Code |
|---|---|
| `voyage`, `resas` | `statut` of the trip, which has started, and of its reservations |
| `compte` | the operator of the active row of `comptes_payout_chauffeurs`, or none |
| `revenus`, `solde` | `chauffeurs.revenus_total`, `wallets.solde`; both start with `Avoir`, what earlier trips credited |
| `lignes` | sums of the `REVERSEMENT` rows: of `payer_chauffeur`, `direct` (EN_COURS, sent by an operator) and `credit` (REUSSI or ECHEC, put on the wallet); of withdrawals and transfers, `sorties` (EN_COURS, REUSSI), `refus` (ECHEC), and `debits`, what they took from the wallet |
| `payees` | history: how often the driver got the price of each reservation, from whichever source |
| `session` | the requests in progress with what they have read, and the rows they hold locked |
| `chevauche`, `croise`, `coupures` | history: two requests on the trip overlapped; two requests had read the wallet at once; payouts cut off |

| Action | Code |
|---|---|
| `FinLireVoyage`, `FinLireResas` | `end_voyage`: the trip and its statut, then the CONFIRMEE reservations and their total |
| `FinVerrouiller` | the bulk update to TERMINEE, before which autoflush writes the trip's row: from here to the commit the trip and the updated reservations are locked; the driver, the wallet and the payout account are read next |
| `FinSansVersement` | nothing to pay: commit |
| `FinVersementDirect` | `payer_chauffeur` through MTN, Celtis or FedaPay: row EN_COURS, commit |
| `FinVersementCredit` | no account, no payout for this operator, or a refusal: the wallet is credited, commit |
| `FinVersementPerdu` | the operator took the order, the call timed out: rollback |
| `DeciderLire`, `DeciderValider` | accept, reject, cancel, the back office's cancellation: a guard on what was read, a write on whatever the row has become |
| `AnnulerVoyageLire`, `AnnulerVoyageValider` | `cancel_voyage_admin` |
| `RetraitLire`, `RetraitVerrouiller`, then `RetraitParti`, `RetraitManuel`, `RetraitRefuse` | `withdraw`: the balance is read and tested, the flush of the debit locks the wallet's row for the time of the call, and the outcome is committed |
| `TransfertLire`, then `TransfertValider`, `TransfertASoi` | `transfer`, to another user or to oneself |
| `UpsertCompte`, `DeleteCompte`, `AdminUpsertCompte`, `AdminDeleteCompte` | `routers/payout_account.py` and its twin in the back office, which also gives an account to a driver without one |

`Revenus` is what `GET /chauffeurs/me/revenus` adds up: every `REVERSEMENT` row of the wallet in
EN_COURS, REUSSI or ECHEC. `withdraw` and `transfer` write such rows too, so that sum is not
`revenus_total` once the driver has taken money out. `RevenuComptable` says by how much the two
differ: by the rows of withdrawals and transfers (`sorties` and `refus`), and by nothing that a race
of two ends could lose; and it says what the balance is made of.

Withdrawals and transfers do not touch the trip, so they do not count in `chevauche`, which
`VersementExact` is about; they meet an end of the trip on the wallet, which `croise` records.

Left out: the EN_ATTENTE_PAIEMENT reservations, which `end_voyage` does not read; a second trip
of the driver that starts before the first has ended; a driver without a wallet (one is made
with his account); top-ups and transfers received, and withdrawals whose call is cut off
(`Portefeuille` has them).

### 2.7 Chauffeurs

| State | Code |
|---|---|
| `compte` | `users.statut`; `ACTIF` stands for ACTIF and EN_ATTENTE_KYC, which no guard tells apart |
| `kyc`, `enLigne` | `chauffeurs.kyc_valide`, `chauffeurs.en_ligne` |
| `etat` | the row of the vehicle: none, `actif`, or no longer `actif` |
| `docs`, `valides` | the version of its documents, `vehicules.docs_vehicule_valides` |
| `voyages` | statut of the driver's trips; `actif` is PUBLIE, COMPLET or EN_COURS |
| `session` | the requests in progress, with what they have read and what they set |
| `approuve`, `rouverts`, `chevauche` | history: the version last approved; the active trips that a stale commit reopened; the tables on which two requests overlapped |

A request is a `...Lire` action or the action named after its handler (guards and reads), then
a `...Valider` action (commit). `CreateVoyage` has a third step in between: the account, the
KYC and the presence are read first, the active trip and the vehicle next, and the row is
inserted last. `Ecrit` is what makes the difference with a plain write: SQLAlchemy compares
the value assigned with the value loaded and updates the columns that differ, so a column set
again to what it was when it was read is not in the UPDATE at all, whatever it has become.

| Action | Code |
|---|---|
| `SuspendUser`, `ActivateUser`, `CompteValider` | back office; `ActivateUser` also brings back an account deleted by its owner |
| `DeleteMe` | `routers/users.py` |
| `ValidateKyc`, `RejectKyc`, `KycValider` | back office, by driver or by user |
| `GoOnline`, `GoOffline`, `PresenceValider` | `routers/chauffeurs.py`; going online reads the KYC, losing it does not take offline |
| `AddVehicule`, `DeleteVehicule`, `UploadVehiculeDocuments` and their `...Valider` | `routers/chauffeurs.py`; a vehicle is never put back in use |
| `ValiderDocsVehicule`, `RejeterDocsVehicule`, `RevueValider` | back office |
| `CreateVoyage`, `CreateVoyageVerifier`, `CreateVoyageValider` | `create_voyage` |
| `CourseLire`, `CourseValider` | any request that reads a trip active and sets its statut: to an active one (`start_voyage`, the booking of the last seat, the six paths that give seats back), or to a closed one (`end_voyage`, `cancel_voyage`, `cancel_voyage_admin`) |

The tables a request depends on (`Tables`) say when two requests overlap. A publication
depends on all of them, any other request on the table that it writes; requests on a trip that
exists are told apart by `rouverts` instead.

A closed trip does not stay closed. `CourseValider` writes the statut it meant to write, whatever
the trip has become: a booking that read PUBLIE and commits COMPLET after a cancellation reopens the
trip, and the driver may have published another in between. He then has two, no two publications
having overlapped, and `scalar_one_or_none` fails on his next attempts. `UnSeulActif` and
`ActifsBornes` leave the reopened trips (`rouverts`) out of the count: they say that nothing else
gives a driver two. How many trips can be reopened has no bound.

### 2.8 ReservationsConcurrentes

The tables are those of `Reservations`, whose operators and guards are reused. `session` holds,
per request in progress, the copies of the trips (`vues`) and reservations (`lues`) it has read and
the answer of FedaPay. `melanges` is a history variable: the trips on which some request has
committed although what it had read no longer held.

| Action | Code |
|---|---|
| `LireVoyage`, `LireReservation`, `CreateReservationLire` | the first SELECT of each request, with the guard on what it returns |
| `Choisir` | the SELECT of the expired reservations in `create_reservation`, of the CONFIRMEE ones in `end_voyage` |
| `Balayer` | the SELECT of the Celery sweep |
| `LireSonVoyage` | `db.get(Voyage)` of the paths that give seats back, after the reservation was read |
| `Interroger` | the call to FedaPay of `verifier_et_confirmer_reservation` |
| `CreateReservationValider`, `InitierPaiementValider`, `StatutPaiementValider`, `ClasserValider`, `Rendre`, `VoyageValider` | the commits |
| `Abandon` | a refusal, an error, a client that has gone: rollback |

`Ecrite` is the UPDATE of SQLAlchemy, as in `Chauffeurs`: the columns whose value changed since
the row was read, with the value computed from that reading. Nothing prevents the lost update:
with two `create_reservation` at once, TLC finds a state where `PasDeSurreservation` fails after
eight steps (each reads the last seat, each sells it and the counter says 0). What the module
checks is what holds all the same: no counter below 0 (a request writes a value it computed from
one it found large enough), nothing shown to a driver unpaid, `Serialisable`, and that the damage
stays where it was done. On a trip outside `melanges` all is as in `Reservations`: counter, seats,
what the driver was paid, collections entered (`SansMelange`), the documented life of a reservation
and the end of a trip (`VieSansMelange`).

### 2.9 Comptes

`comptes` (`users`: telephone, role, statut), `profils` (how many rows of `chauffeurs` each account
has), `demandes` (`demandes_inscription_chauffeur`), `session` (what each request in progress has
read), `chevauche` (history: requests to become a driver for which two answers overlapped).

| Action | Code |
|---|---|
| `Register`, `RegisterChauffeur`, `InscrireValider` | `services/auth_service.py` with `repositories/user_repository.py`: telephone free, then insert |
| `SeedAdmins` | `scripts/seed_admins.py`, which may run beside the server |
| `SubmitDemande` | `routers/public.py` |
| `TraiterDemande`, `TraiterVerifier`, `TraiterValider` | `traiter_demande`: the request is read, the telephone is looked up, account and profile are inserted |
| `RejeterDemande`, `RejeterValider` | `rejeter_demande` |
| `ConvertToChauffeur`, `ConvertirVerifier`, `ConvertirValider` | `convert_to_chauffeur`, which writes EN_ATTENTE_KYC over any statut, SUSPENDU and SUPPRIME included |
| `SuspendUser`, `ActivateUser`, `DeleteMe`, `StatutValider` | back office, `routers/users.py` |

An insert is refused by the unique index on the telephone, or on `chauffeurs.user_id`: these are
guards of the `...Valider` actions, since the code's own tests are too early to be enough.

### 2.10 CodesOtp

One telephone: `cle` is `otp:<telephone>` (a code and its number of attempts), `verrou` is
`otp_lock:<telephone>`, `compte` the account, `session` the verifications in progress with what
they have read of the key. `emis`, `dernier`, `essais`, `acceptes` and `chevauche` are history:
the codes sent, the last one, how often each was compared and accepted, and whether the key was
written while a request was about to act on what it had read of it.

`Verifier` is the disjunction of the steps of `verify_otp`, each one Redis command: `Commencer`
(is there a lock), `Lire` (GET), then `Effacer` and `Verrouiller` (DEL, SET of the lock, at the last
attempt), `Refuser` (SET with one more attempt) or `Accepter` (DEL), which goes on into
`Activer` or `Reinitialiser`. `OtpSend` and `PasswordForgot` store a fresh code, `ExpirerCle` and
`ExpirerVerrou` are the times to live, `Interrompre` is a worker that stops between two commands.

### 2.11 AvisNotes

`terminees` (how many TERMINEE reservations a client has on a trip), `trajets`, `avis`, `cibles`
(`note_moyenne`, `nombre_avis`), `session`, and the history `propre`, `aJour`. `CreateAvis` reads and tests, `Inserer` flushes the row,
which others see at the commit only, and reads the driver's account, `Calculer` reads the visible
reviews and computes both columns, `CreerValider` commits. `SignalerAvis`, `MasquerAvis` and
`RestaurerAvis` read, `ModererValider` commits the columns that changed. Marks are whole numbers;
the mean is kept in hundredths and rounded as `Numeric(3,2)` does. `aJour` says for which drivers
the two columns were last written by a review that nothing overlapped, with no moderation since:
moderating does not recompute them.

### 2.12 Tarifs

`villes` (names), `gares`, `tarifs` (the two towns, the recommended and the maximum price, `actif`),
`voyages` (the names of the towns and the price), `session`. Towns, stations, the creation and the
deletion of a fare test only what the database tests again at the commit (unique names, one fare
per route, cascades), so each is one action. `UpdateTarif` and `CreateVoyage` read first and write
in `...Valider`. `UpdateVoyage` is PATCH of the price, which looks at no cap. `frais` and
`melanges` are history: the requests whose readings still hold, the fares written by an update
whose reading did not.

## 3. Runs

| Run | Instance | What it shows |
|---|---|---|
| `reservations` | 1 trip of 2 seats, 2 reservations of 1 or 2 seats, 2 collections, `Delai` 1, polls in every statut | seat counter and statut agree; the driver is only shown paid requests; closed trips are frozen; `FraisPayes` is refined; unpaid reservations are released |
| `reservations_sobres` | 2 successive trips, polls in EN_ATTENTE_PAIEMENT and EN_ATTENTE only | no seat is sold twice, the driver is paid for exactly what was travelled, a collection is booked once, closed reservations stay closed |
| `colis` | 1 trip, 2 parcels, one of which the back office may force, 2 collections | carried parcels were paid or validated; transit only after the departure; only a payment in time brings a closed parcel back; `FraisPayes` is refined; no parcel awaits payment for ever |
| `portefeuille` | 2 wallets, 2 top-ups on one of them (one polled by the task), 2 requests at once, 2 withdrawals or transfers, 1 cut call | the balance is the sum of the rows where nothing overlapped; no money is created while nothing overlaps and nothing is cut; polled top-ups are concluded |
| `reversement` | 1 reservation, a balance of 1 from earlier trips, 2 requests at once, 1 payout cut off, withdrawals and transfers of 1 until their rows reach 1 | `me/revenus` exceeds the driver's income by his withdrawals and transfers and by nothing else, and his balance follows its rows until two requests have read it at once; each travelled reservation is paid once where nothing overlaps, and at most once per overlapping request where it does; every request ends |
| `chauffeurs` | 1 driver, 1 vehicle, 2 trips, 2 requests at once, 1 set of documents | one active trip where no two publications overlap, those that a stale commit reopened apart; documents that count as validated are those approved, and trips are published in order, where nothing overlaps |
| `reservations_concurrentes` | 1 trip of 1 or 2 seats, 2 reservations of 1 seat, 1 collection, 2 requests at once | the seat counter stays at or above 0 and the driver only sees what was paid, whatever overlaps; a trip that no stale reading touched keeps exact seats and accounts, and the documented statuts; a request whose readings still hold when it commits takes a step of `Reservations` |
| `comptes` | 2 accounts, 2 requests to become a driver, 2 telephones, 2 requests at once | a profile of driver if and only if the role says so; treated requests and accounts match; a suspended account comes back only through an action that meant it |
| `codes_otp` | 2 codes, 2 verifications at once, `Max` 3 | attempts are all counted, a code is accepted once and a lock is deserved, where nothing overlaps; attempts stay bounded where two verifications do |
| `avis` | 3 clients, 1 trip, 3 reviews, marks 1 and 2, 2 requests at once | one review per client and trip; the stored mean is exact after a review nothing overlapped, until the next moderation |
| `tarifs` | 2 towns, 1 station, 2 fares, 1 trip, 2 prices, 2 requests at once | the prices of a fare agree unless two updates overlapped; a trip is published under the cap that held meanwhile |
| `terminaux_reversibles` | as `reservations` | the finding of section 4 |

*Why the bounds are enough.* Two reservations on two seats give every relation that the code
tells apart: both fit, the second finds the trip COMPLET, one of two seats empties it. Two
collections give the replaced link, and one reservation that is paid twice. `Delai` 1 gives the
three positions that the code distinguishes (before, at, after the deadline). The second trip
of `reservations_sobres` is there for the mistake of touching another trip's rows, and for the
rule of one active trip per driver. `MaxRestantes` stops a stale poll from adding seats to a
counter for ever, which the code does (section 4); at 2 such polls still happen.
In `portefeuille`, two requests and the task are the three actors that the code has, two
top-ups on one wallet are the case where the task's session loads a balance once and credits
it twice or where the user and the task credit different rows of the same wallet, and one cut
call is enough for each failure alone; combinations of two failures are not covered. In
`reversement`, two requests are a holder of the lock and one that waits, whichever their kinds,
and one reservation is what an end and a decision meet on: it is paid and not finished, finished
and not paid, or paid twice, whatever the others do. Its price is 2, a withdrawal is 1, so that each
can be told in the sums; a balance of 1 lets a withdrawal begin before the trip has ended, and one row of 1
shows each of its outcomes. The three invariants are proved for any reservations and prices. In
`chauffeurs`, two trips are what two requests could publish together, and let one be reopened after
the other was published; one set of documents is enough to be approved and replaced (an empty form
resets as well). In
`reservations_concurrentes` two requests are what a lost update takes; the constraint `UneCourse`
lets requests overlap until one has committed on a reading that no longer held, and runs the
following ones one at a time, so that every race is explored to its end but two unrelated races
of one behaviour are not combined. A stale commit marks its trip, so with one trip `SansMelange`
speaks of the races that turn out harmless; that a race on one trip spares another takes a second trip,
which makes the run too long, and is what `Isolement` proves for any number of them. In `codes_otp`, `Max` 3 leaves an attempt below the limit, the
one that reaches it and one after it, and the second code is the one sent again while the first is
being verified. In `comptes` and `tarifs`, two rows of each table are what a unique index or a
wrong join needs, and in `avis` the third client is the one who reviews after two others raced.

*Deadlock* is not checked (`CHECK_DEADLOCK FALSE`) except in `reversement` and `chauffeurs`, where
something can always be done (in `reversement` the payout account can always be set, so it is
`RequeteAboutit` that excludes requests that wait for each other): elsewhere the identifiers are
finite, and a system whose trips are all over, whose parcels are delivered, whose collections are
settled or whose codes are all used really has nothing left to do.

*Two kinds of client.* GET statut-paiement does not look at the statut of the reservation, so
some properties fail if clients poll after the payment was settled. `PollStatuts` says in
which statuts the clients poll: all of them in `reservations`, only while the payment or the
driver's answer is awaited in `reservations_sobres`. The properties of the second run hold
under that assumption on clients, which nothing on the server enforces; `terminaux_reversibles`
shows the first one to fail without it.

*Fairness.* `Tick`: time passes. `AnnulerPaiementsExpires` and `AnnulerExpires`: Celery beat
schedules the sweep every 60 s (`tasks/celery_app.py`) and it is one transaction.
`TacheLancer`, `TacheInterroger`, `TacheValider`: the same beat, and a run that is not lost
goes through its rows to its commit; the number of cut calls is bounded, so a task that is
always lost is excluded. Nothing is assumed of clients, drivers, FedaPay or the operators. In
particular a top-up that the operator never settles stays pending, and so do the ones that
the task does not poll. In `Reversement` a request that has what it needs runs on (weak
fairness: every call has a timeout of 30 s), and one that waits for a lock, which others take
and release meanwhile, is served in its turn (strong fairness: PostgreSQL queues the waiters of a
row).

*Mutants.* Each property of a passing run is paired in `PROJECT.json` with a definition
`X_mut...`, a plausible mistake in `X` (a dropped guard, a filter lost, a missing reset) with
which TLC finds the property violated.

## 4. What the code does otherwise than its documents say

*Checked by a run.* `terminaux_reversibles`: a poll takes a REFUSEE, ANNULEE or TERMINEE reservation
back to EN_ATTENTE, or a TERMINEE one to ANNULEE. The API documentation calls them irreversible.
Seats are not taken again, or are given back twice, so overselling follows. A parcel goes from
LIVRE back to EN_ATTENTE along the same path (`verifier_et_confirmer_colis`). What is left of the
claim is delimited by `RetourParPoll`, proved, and for parcels by `RetourParPaiement`, run and proved:
nothing but a poll of the collection that the row names brings it back.

*In the models' behaviours.* The following are states and steps of the modules, and the reason
for the exceptions in the properties named:

- A reservation that was paid is cancelled by the poll if the poll comes after the deadline, or is
  never confirmed if a second link replaced the one that was paid: `PayeeAvantVisible` is an
  implication, not an equivalence (`Reservations`).
- Cancelling a trip leaves its EN_ATTENTE_PAIEMENT reservations, which can still be paid and shown
  to its driver (`Reservations`).
- Two confirmations of one top-up, or a confirmation and the task, both credit it. The balance
  that the second writes was read before the first committed, so the amount is lost in some orders
  and counted twice in others. Two withdrawals at once are both sent on a balance that covers one,
  and two transfers lose a credit. `SoldeComptable` excepts the wallets on which two units of work
  overlapped; `Solvable` excepts also the runs in which a call was cut (`Portefeuille`). The proved
  `SoldePositif` says that even so no balance is ever negative.
- `payer_chauffeur` "always" writes a REVERSEMENT row, says its docstring; a payout whose call times
  out after the operator took it leaves none, and the trip, rolled back to EN_COURS, is paid again
  at the next attempt to end it. Two ends of one trip at once both pay it (the second waits for the
  row, then does not look at its statut again): `PaiementBorne` says how often, `VersementExact` that
  it takes an overlap or a cut (`Reversement`).
- `me/revenus` counts the `REVERSEMENT` rows in ECHEC because, says its comment, they are payouts that
  failed and were put on the wallet instead, hence income (`routers/chauffeurs.py:249`). The row of a
  withdrawal that the operator refuses has the same type and statut, and nothing was earned; the rows
  of withdrawals that succeed and of transfers to other users are added up as well. The amounts of
  the day, the week and the month then exceed `revenus_total` (`RevenuComptable` says by how much).
- A withdrawal that has read the balance beside the end of a trip loses the credit, or is lost in
  it: `RevenuComptable` answers for the balance until then only (`Reversement`).
- A stale commit reopens a cancelled or finished trip beside a new one of the same driver
  (`rouverts`, `Chauffeurs`; on the side of the seats, `melanges`, `ReservationsConcurrentes`).
- Submitting documents "resets the validation", says a comment. The reset is computed against the
  value read before the uploads: on a vehicle that was not validated then, nothing is written, and
  a validation committed during the uploads covers documents nobody looked at (`Chauffeurs`;
  `DocsRevus` excepts overlaps).
- The right code is refused at the attempt that reaches `OTP_MAX_ATTEMPTS`, so one comparison fewer
  is made than the setting says; two verifications at once make more (`EssaisBornes`), and can both
  be accepted (`CodesOtp`).
- `convert_to_chauffeur` gives a suspended or deleted account back (`RetourVoulu` names it), and a
  rejection that overlaps a treatment leaves a REJETEE request with an account (`Comptes`).
- Two updates of one fare at once, each of one price, leave a recommended price above the maximum
  (`Tarifs`).

## 5. Proofs

All theorems hold for every value of the constants that satisfies the named assumptions:
NULL is not an identifier, seats are between 1 and 8 (the schemas' `Field(ge=1, le=8)`),
the delay is positive, amounts are positive, marks are between 1 and 5, totals are natural numbers
that grow with the set they are the total of (`CroissanceAssumption`: they are sums of
`prix_total`), and the tables that are counted or summed, and the requests in progress where they
are counted, are finite. Bounds that only serve TLC (`MaxRestantes`, `MaxOperations`,
`MaxCoupures`, `MaxSorties`) are any natural number.

*Sobre* (`PollStatuts \subseteq {"EN_ATTENTE_PAIEMENT", "EN_ATTENTE"}`) is the one hypothesis on the
clients: `statut-paiement` is called while the payment or the driver is awaited and no longer. It
is the setting of the run `reservations_sobres`, it is needed (`terminaux_reversibles`), and the
theorems that take it are marked. `Serialise`, and the isolation theorems after it, take it also
because, with polls in every statut, the bound `PollBorne` disables steps of `Reservations` that the
other module takes.

| Theorem | Says | Rests on |
|---|---|---|
| `ReservationsProofs!TypeCorrect` | `[]TypeOK` | itself inductive |
| `ReservationsProofs!ClosFige` | `VoyageClosFige`, an action property | `TypeOK` |
| `ReservationsProofs!Inductif` | `[]IInv` | `TypeOK`, `Liens`, `CoherenceComplet`, `PayeeAvantVisible`, `TermineeReversee` |
| `Coherence`, `PaiementAvantVisibilite`, `Reversement` | the three invariants | `Inductif` |
| `ReservationsProofs!PromesseTenue` | `Reservations` implements `FraisPayes` | `Inductif` |
| `ReservationsProofs!SortieParPoll` | `RetourParPoll`, an action property | `Inductif` (`Liens`) |
| `Irreversibles` (sober) | `TerminauxIrreversibles`, an action property | `Suit`, the steps a statut can take |
| `InductifSobre` (sober) | `[]IInvSobre` | `IInv`, `VoyagePresent`, `PasDeSurreservation`, `EcriteUneFois`, `ReversementExact` |
| `Surreservation`, `Exactitude`, `UneEcriture` (sober) | `PasDeSurreservation`, `ReversementExact`, `EcritureUnique` | `InductifSobre` |
| `InductifC` | `[]IInvC`, in `ReservationsConcurrentes` | `TypeOK`, `Liens`, `PayeeAvantVisible`, `Formee`, `Fidele` (with `Durable`), `Distincts` |
| `TypesC`, `PaiementAvantVisibiliteC` | `TypeOKC`, `PayeeAvantVisible` there | `InductifC` |
| `Serialise` (sober) | `Serialisable`, an action property | `InductifC` |
| `InductifMelange` (sober) | `[]IInvMelange` | `IInvC`, `VoyagePresent`, `Attaches`, `VoyagesLus`, `Sain` of every unmarked trip |
| `Isolement`, `IsolementVie` (sober) | `SansMelange`, and `VieSansMelange`, an action property | `InductifMelange` |
| `ColisProofs!TypeCorrect`, `Inductif` | `[]TypeOK`, `[]IInv` | `TypeOK`, `Liens`, `PayeOuValide`, `TransitApresDepart` |
| `PaiementAvantRemise`, `DepartAvantTransit`, `PromesseTenue` | the invariants, and that `Colis` implements `FraisPayes` | `ColisProofs!Inductif` |
| `ColisProofs!SortieParPoll` | `RetourParPaiement`, an action property | `TypeOK` |
| `PortefeuilleProofs!TypeCorrect`, `Inductif` | `[]TypeOK`, `[]IInv` | `TypeOK`, `SoldePositif`, `Lectures`, `ConclueSurReponse`, `TacheSure` |
| `JamaisNegatif`, `ReponseAvantConclusion` | `[]SoldePositif`, `[]ConclueSurReponse` | `PortefeuilleProofs!Inductif` |
| `InductifComptable` | `[](Comptable /\ Sorties)` | `SoldeComptable`, `Fraiches`, `Exclusifs`, `TacheFraiche`; the theory of sums |
| `Comptes`, `JamaisADecouvert` | `SoldeComptable`, `Solvable` | `InductifComptable`, `ConclueSurReponse` |
| `InductifAvis` | `IInvAvis` is inductive, in `AvisNotes` | `TypeOK`, `AvisNommes`, `Vierges`, `Exactes`, `Bornes`; the theory of sums |
| `UnAvisParVoyage`, `MoyenneExacte`, `MoyenneEncadree` | `TypeOK`, `NoteExacte`, `NoteBornee` of `AvisNotes` | `InductifAvis` |
| `SignalementEcoute` | `SignalementVu`, an action property | `InductifAvis` |
| `ReversementProofs!TypeCorrect`, `Inductif` | `[]TypeOK`, `[]IInv` | `TypeOK`, `Exclusion`, `Lus`, `SoldeLu`, `RevenuComptable` |
| `Comptabilite` | `[]RevenuComptable` | `ReversementProofs!Inductif` |
| `ReversementProofs!Bornes` | `[]PaiementBorne` | `Paiements` |
| `ReversementProofs!Exactitude` | `[]VersementExact` | `Paiements`, `Seul` (with `Tenue`) |
| `ChauffeursProofs!TypeCorrect`, `Inductif` | `[]TypeOK`, `[]IInv` | `TypeOK`, `Exclusif`, `UnSeulActif`, `PublieSeul`, `CoursePublie`, `DocsRevus`, `VehiculeLu`, `PublieEnRegle` |
| `ActifUnique`, `Revues`, `EnRegle` | `UnSeulActif`, `DocsRevus`, `PublicationEnRegle` | `ChauffeursProofs!Inductif` |
| `ChauffeursProofs!Bornes` | `[]ActifsBornes` | `Publications` |
| `ComptesProofs!TypeCorrect`, `Inductif` | `[]TypeOK`, `[]IInv` | `TypeOK`, `Cibles`, `Vierges`, `RejetsNotes`, and the three below |
| `CompteUnique`, `Profils`, `DemandesEnRegle` | `UnCompteParTelephone`, `ProfilSsiChauffeur`, `DemandeAvecCompte` | `ComptesProofs!Inductif` |
| `Retours` | `RetourVoulu`, an action property | `TypeOK` |
| `CodesOtpProofs!TypeCorrect`, `Inductif` | `[]TypeOK`, `[]IInv` | `TypeOK`, `Lus`, `Histoire`, `Isolee` |
| `CodeCourant`, `Comptage`, `UneFois`, `Verrous` | `DernierCode`, `EssaisComptes`, `UsageUnique`, `VerrouMerite` | `CodesOtpProofs!Inductif` |
| `EssaisLimites` | `[]EssaisBornes` | `Epuise` for every pair of sessions |
| `TarifsProofs!TypeCorrect`, `Inductif` | `[]TypeOK`, `[]IInv` | `TypeOK`, `Complets`, `NomsUniques`, `RoutesUniques`, `Rattaches`, `Lectures`, `PrixCoherents` |
| `Attaches`, `TarifUnique`, `Coherence` | `Rattaches`, `UnTarifParRoute`, `PrixCoherents` | `TarifsProofs!Inductif` |
| `SousLePlafond` | `PublieSousPlafond`, an action property | `TarifsProofs!Inductif`, `Plafonnes` |

*Why the invariants are strengthened.* `PayeeAvantVisible` is not inductive: a poll that
finds "its" collection approved says nothing about the reservation unless the collection the
row names was created for that very reservation, which is `Liens`. `CoherenceComplet` needs
the trip and the number of seats of every reservation that exists (also `Liens`), and that a
finite set of reservations holds a natural number of seats (`NbSiegesNat`). `Colis` needs in
addition that what is booked was collected and that a parcel's trip exists. `SoldePositif`
is the one that is not about one row: a request writes back a balance it read long ago, so
the invariant has to follow that balance in the hands of the request (`Lectures`: what was
read covers the amount, what was read of the other wallet is not negative, what the task will
write is not negative), and `ConclueSurReponse` has to follow the verdicts that the task
holds until its commit (`TacheSure`; the task polls only operators that never take back a
success). With them the argument is local to each action and the number of concurrent
requests does not matter. `RevenuComptable` is a lost update that does not happen, and the reason
is the lock: at most one session is past the flush (`Exclusion`), so the income it holds
is still that of the table when it commits (`Lus`). Nothing of the kind protects the wallet, which a
withdrawal reads before it takes the lock: its balance is followed in the hands of the one request
that has read it, as long as there is one (`SoldeLu`). `PaiementBorne` is a counting argument:
`Paiements` says that nothing is paid while the trip is EN_COURS, and that the payments made and
the ends still in progress (`Fins`) are together at most the number of sessions. A payment takes
its session out of `Fins`, and no session joins `Fins` once the trip is closed. In `Chauffeurs`
the invariant says that what a request has in hand is still true while nothing has overlapped on the
tables it depends on: two requests on one table leave a trace in `chevauche` (`Exclusif`), a
publication past its check still has no active trip beside it but reopened ones (`PublieSeul`) and its guards still
hold (`PublieEnRegle`), and what an upload or a review read of the vehicle is what the row holds
(`VehiculeLu`). `ActifsBornes` is again a count: active trips that were not reopened and publications past their check
are together at most the number of sessions (`Publications`).

In `Comptes` the accounts that requests in progress name exist and stay (`Cibles`: no row is ever
deleted), which lets each commit be looked at alone with the unique index it meets; the one
history argument is that a rejection still in progress on a request that has an account overlapped
its treatment (`RejetsNotes`). In `CodesOtp` all is said under `~chevauche` (`Isolee`): a request about
to conclude read the key as it is, the key counts the comparisons of the last code, and one about
to lock has removed it; `Lus` and `Histoire` bound the attempts in the key and in the hands of
requests without that condition. In `Tarifs`, an update that is still up to date will write prices
that agree (`Lectures`), because whatever changes the fare takes it out of `frais`; `Plafonnes` says the same of a
publication and its cap.

*Under sober polls.* `PasDeSurreservation` is preserved step by step as an inequality between the
counter and the cardinality of the seats held (`Bilan`); each path that gives seats back adds to the
counter what it takes from the held ones, for a set of reservations at once where the sweep or
`create_reservation` expires several (`Prises` of a disjoint union). It needs the trip of every
reservation to exist (`VoyagePresent`). `EcritureUnique` needs to know which collections may still be
booked: one that has an entry belongs to a reservation that no poll will look at again, because
its statut is no longer EN_ATTENTE_PAIEMENT (`EcriteUneFois`). `ReversementExact` holds because the
trip is frozen once it is TERMINE and no reservation leaves TERMINEE.

*Requests taken apart.* `IInvC` follows the copies that a request holds. `Formee`: they satisfy the
guards passed when they were read. `Fidele`: of a row that was read, some things cannot change
however late the commit is (`Durable`): that it exists, its trip and its seats, that the collection
it names was created for it, and that it was paid if it was already shown. Nothing is said of the
columns that others do change. `Distincts`: no two requests insert the same row. From there
`PayeeAvantVisible` survives every lost update, because every write of EN_ATTENTE or CONFIRMEE comes
from a row, or an answer of FedaPay, of which payment is one of the durable things. `Serialise` then
has one lemma per commit: if the copies equal the rows, `Ecrite`, the UPDATE of the changed columns,
is the assignment of `Reservations`, and the guard passed on the copy is the guard of its action.

*A race stays where it was.* `Isolement` says of requests that interleave what the theorems above say
of requests one at a time, for the trips on which nothing stale was written. `SansMelange` is not
inductive; `Sain` is what it takes for one trip: no reservation of the trip still awaits its payment once a
collection of it is entered, and the driver was only paid if the trip is TERMINE. The invariant
is carried trip by trip because every step is one of two things (`MelangeStep`). Either no commit was
stale, and it is a step of `Reservations` (`Serialise`), which keeps each trip `Sain` on its own
(`SainStep`, from the same step lemmas as `InductifSobre`). Or a stale commit is made, and it leaves
intact every trip but those it marks, which are all those it has read (`Intact`, proved for each kind of
commit by the lemmas `...Ailleurs`). Both cases need facts about all trips, marked or not: the trip of
a reservation, and each one that a request has read, was really inserted (`VoyagePresent`,
`VoyagesLus`), and a collection belongs to a reservation that exists (`Attaches`). Nothing is claimed of a
marked trip beyond what `InductifC` gives.

*Counts and sums.* `SoldeComptable`, `Solvable`, `NoteExacte` and `NoteBornee` are about folds over
sets of rows (`MapThenSumSet`, `FoldSet`, whose definitions recurse on the set). What they compute is
proved as a theory of `Somme` at the head of `PortefeuilleProofs`: the fold is a recursive function
on the subsets of a finite set; it does not depend on the order in which the elements are chosen; it adds up
over disjoint sets, over two functions, and over the groups that a function makes of the rows.
The library's induction theorems cannot be cited, for they take an operator as a parameter, so each
of these is proved by a smallest set that contradicts it, from the well-foundedness of strict inclusion
(`FS_StrictSubsetOrderingWellFounded`, `WFMin`). `AvisNotes` is reached there through an instance, `Av`, since
its mean is a sum as well, and its assumptions become the hypothesis `Donnees` of its theorems.

In `Portefeuille`, `Comptable` says that a wallet outside `chevauches` is in the hands of at most one
request or of the task (`Exclusifs`), which still holds the balance of the table (`Fraiches`, `TacheFraiche`), so
that its commit adds to the balance what it adds to the rows. `Solvable` adds, over all wallets, that what
left through the operators is in the rows (`Sorties`), and that what was credited was collected
(`ConclueSurReponse`). In `AvisNotes`, `AvisNommes` makes the unique index enough: two requests between
their insert and their commit insert different reviews of different clients or trips. `Courants`
(in `Exactes`) says that what a request holds is what the rows give as long as its driver was not
written, and `Bornes` that what any request will write is plausible: at most one review more than
there are, and a mean of marks. `VersementExact` is again said where nothing overlapped: there is one
request (`Seul`) and what it has read still holds (`Tenue`).

`EssaisBornes` is the bound that needed an idea. Two verifications write back a counter that the
other has moved. `Epuise` bounds, for a code, twice its comparisons plus a potential `Reste` of three
numbers: the attempts in the key and those that each of the two has read. No step raises
the sum: a comparison is paid by the potential, which already counts on the smallest of the three
being written back last. For a code just sent the sum is `Max * (Max + 1)` at most, from where the
bound of the property comes.

*Proved, checked by no run.* The type invariants, except those of `avis` and
`reservations_concurrentes`; `TermineeReversee`, `RetourParPoll`, `SoldePositif`, `ConclueSurReponse`,
`ActifsBornes`, `UnCompteParTelephone`, `DernierCode`, `Rattaches`, `UnTarifParRoute`, `NoteBornee`,
`SignalementVu`.

*Only model-checked.* The liveness properties `PlacesLiberees`, `AttenteBornee`,
`RechargeTraitee` and `RequeteAboutit`: fairness is out of the prover's reach. Every other property
of a passing run is stated by a theorem.

## 6. What is not modelled

Concurrency inside the requests of `Colis`: each reads the parcel and writes its statut at the
commit, so that a cancellation that overlaps a confirmation can be written over it. No counter is
shared by two parcels, and the fee protocol is the one that `ReservationsConcurrentes` takes apart.

Tokens: login reads, the renewal signs without writing, and logout writes one key that every
request reads; hashing and JWT encoding are library calls.

Live tracking keeps the sockets of one process in a dictionary, and each message is a position that
the next one replaces. `RateLimitMiddleware` is defined and never installed (`main.py`). No code
creates the rows that `routers/notifications.py` lists; the push and SMS tasks are called by nothing,
and the one multicast that `end_voyage` sends comes after its commit. Files are written once.
`services/colis_pricing.py` is a function of its arguments on whose value no state depends.
`PATCH /admin/gares` changes fields of a station that no guard reads, and a PATCH of a fare is taken one
field at a time, where the code takes several: the test on the two prices is the same.
Profile edits, audit rows, reports and the read-only views are read back by nothing that decides.

In `Chauffeurs`, the documents that identify a driver are left out: submitting new ones changes
nothing but their addresses, and leaves the KYC valid. Maximum fares are in
`Tarifs`. Left out of both is `admin_create_voyage`, which compares a relationship
with a string before it creates anything and always fails. `POST /me/setup` gives a profile to a
driver without one, whom nothing in the code creates.

In `Reversement` the flush of a request takes its locks in one step. `cancel_voyage` locks the
reservations before the trip and `end_voyage` the trip before the reservations, so the two can wait
for each other between two locks; PostgreSQL then aborts one after a second, which is `Abandon`.
On a trip that has started `cancel_voyage` is refused, unless it had read the trip before: the model
has the cancellation by the back office only, which writes the trip first.

A second payment of a fee is not refunded by any code, so refunds only exist as an act of
FedaPay. The price of a reservation is left out of `Reservations`: `reverses` records for which
reservations the driver was paid. The tasks `process_chauffeur_payout` and `initiate_payment` and
the function `debiter_wallet_client` are called by nothing and are not modelled.

## 7. Next

1. `Colis` taken apart inside its requests, as the reservations are, with the same isolation theorem.
2. What can be said of a trip on which a stale reading was written: by how much the counter of seats and
   the seats sold can part, as a function of the number of requests at once.
